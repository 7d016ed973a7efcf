-------------------------- MODULE BuildHeadersProofs --------------------------
(***************************************************************************)
(* For every header block and every h= tag, of any length: no field is     *)
(* selected twice; the instances selected for a name are its bottom-most   *)
(* ones, as many as h= lists the name; of the copies of the field being    *)
(* verified the upper-most is left out and no other; and the loop computes *)
(* Selected.                                                               *)
(*                                                                         *)
(* The inductive invariant says which positions are selected: those whose  *)
(* rank, the number of instances of their name below them, is less than    *)
(* the number of instances of that name consumed.                          *)
(***************************************************************************)
EXTENDS BuildHeaders, SequenceFacts, FiniteSetTheorems, SequenceTheorems, TLAPS

StateOK ==
    /\ block \in Seq(Fields)
    /\ names \in NameLists
    /\ k \in Nat \ {0}
    /\ consumed \in [Names -> Nat]
    /\ picked \in Seq(DOMAIN block)

PickedByRank ==
    \A p \in DOMAIN block :
        p \in PickedSet <=> Rank(block, p) < consumed[block[p].name]

IInv == StateOK /\ PickedByRank /\ NoFieldTwice

-------------------------------------------------------------------------------
(* Ranks of the positions of a block.                                      *)

NamesOf(hs) == [p \in DOMAIN hs |-> hs[p].name]

LEMMA BelowIsLater ==
    ASSUME NEW hs \in Seq(Fields)
    PROVE  /\ NamesOf(hs) \in Seq(Names) /\ DOMAIN NamesOf(hs) = DOMAIN hs
           /\ \A p \in DOMAIN hs : /\ NamesOf(hs)[p] = hs[p].name
                                  /\ Below(hs, p) = Later(NamesOf(hs), p)
                                  /\ Rank(hs, p) = Cardinality(Later(NamesOf(hs), p))
  <1>1. DOMAIN NamesOf(hs) = DOMAIN hs /\ \A p \in DOMAIN hs : NamesOf(hs)[p] = hs[p].name
    BY DEF NamesOf
  <1>2. NamesOf(hs) \in [1 .. Len(hs) -> Names]
    BY <1>1, FieldShape DEF NamesOf
  <1>3. \A p \in DOMAIN hs : Below(hs, p) = Later(NamesOf(hs), p)
    BY <1>1 DEF Below, Later
  <1> QED BY <1>1, <1>2, <1>3 DEF Rank

LEMMA BelowFinite ==
    ASSUME NEW hs \in Seq(Fields), NEW p \in DOMAIN hs
    PROVE  /\ IsFiniteSet(Below(hs, p))
           /\ Rank(hs, p) \in Nat
  BY BelowIsLater, LaterFinite

(* Going down among the instances of a name, the rank decreases.           *)
LEMMA RankDecreases ==
    ASSUME NEW hs \in Seq(Fields), NEW p \in DOMAIN hs, NEW q \in Below(hs, p)
    PROVE  Rank(hs, q) < Rank(hs, p)
  <1>1. q \in DOMAIN hs
    BY DEF Below
  <1> QED BY <1>1, BelowIsLater, LaterDecreases

(* An instance is determined by its name and its rank, so nthFromBottom    *)
(* has at most one candidate.                                              *)
LEMMA RankDetermines ==
    ASSUME NEW hs \in Seq(Fields), NEW p \in DOMAIN hs, NEW q \in DOMAIN hs,
           hs[p].name = hs[q].name, Rank(hs, p) = Rank(hs, q)
    PROVE  p = q
  BY BelowIsLater, LaterDetermines

(* What nthFromBottom returns.                                             *)
LEMMA NthIsThere ==
    ASSUME NEW hs \in Seq(Fields), NEW name, NEW n \in Nat,
           NEW p, p = nthFromBottom(hs, name, n)
    PROVE  /\ p # 0 => IsNth(hs, name, n, p)
           /\ p = 0 => \A q \in DOMAIN hs : ~IsNth(hs, name, n, q)
  <1>1. CASE \E q \in DOMAIN hs : IsNth(hs, name, n, q)
    <2>1. IsNth(hs, name, n, p) /\ p \in DOMAIN hs
      BY <1>1 DEF nthFromBottom
    <2>2. p # 0
      BY <2>1
    <2> QED BY <2>1, <2>2
  <1>2. CASE ~\E q \in DOMAIN hs : IsNth(hs, name, n, q)
    <2>1. p = 0
      BY <1>2 DEF nthFromBottom
    <2> QED BY <1>2, <2>1
  <1> QED BY <1>1, <1>2

-------------------------------------------------------------------------------
(* Taking the signature out of a block leaves a block.                     *)
LEMMA WithoutSelfIsBlock ==
    ASSUME NEW hs \in Seq(Fields), NEW s
    PROVE  WithoutSelf(hs, s) \in Seq(Fields)
  <1> DEFINE at == SelfAt(hs, s)
  <1>1. at = 0 \/ at \in 1 .. Len(hs)
    BY DEF SelfAt
  <1> HIDE DEF at
  <1>2. ASSUME at # 0
        PROVE  SubSeq(hs, 1, at - 1) \o SubSeq(hs, at + 1, Len(hs)) \in Seq(Fields)
    <2>1. at \in 1 .. Len(hs) /\ Len(hs) \in Nat
      BY <1>1, <1>2
    <2>2. SubSeq(hs, 1, at - 1) \in Seq(Fields)
      <3>1. \A j \in 1 .. (at - 1) : hs[j] \in Fields
        BY <2>1
      <3> QED BY <2>1, <3>1, SubSeqProperties
    <2>3. SubSeq(hs, at + 1, Len(hs)) \in Seq(Fields)
      <3>1. \A j \in (at + 1) .. Len(hs) : hs[j] \in Fields
        BY <2>1
      <3> QED BY <2>1, <3>1, SubSeqProperties
    <2> QED BY <2>2, <2>3, ConcatProperties
  <1> QED BY <1>2 DEF WithoutSelf, at

-------------------------------------------------------------------------------
LEMMA InitIInv == Init => IInv
  <1> SUFFICES ASSUME Init PROVE IInv
    OBVIOUS
  <1>1. block \in Seq(Fields)
    BY BlockShape, WithoutSelfIsBlock DEF Init
  <1>2. StateOK
    BY <1>1 DEF Init, StateOK
  <1>3. PickedSet = {}
    BY DEF Init, PickedSet
  <1>4. PickedByRank
    <2> SUFFICES ASSUME NEW p \in DOMAIN block
                 PROVE  ~(Rank(block, p) < consumed[block[p].name])
      BY <1>3 DEF PickedByRank
    <2>1. block[p].name \in Names
      BY <1>1, FieldShape
    <2>2. consumed[block[p].name] = 0
      BY <2>1 DEF Init
    <2> QED BY <1>1, <2>2, BelowFinite
  <1>5. NoFieldTwice
    BY DEF Init, NoFieldTwice
  <1> QED BY <1>2, <1>4, <1>5 DEF IInv

(* One name of h=: its next instance joins the selection, or there is none *)
(* left.                                                                   *)
LEMMA SelectNameIInv == IInv /\ SelectName => IInv'
  <1> SUFFICES ASSUME IInv, SelectName PROVE IInv'
    OBVIOUS
  <1> DEFINE name == names[k]
             p    == nthFromBottom(block, name, consumed[name])
  <1>1. /\ block \in Seq(Fields) /\ k \in Nat \ {0}
        /\ consumed \in [Names -> Nat] /\ picked \in Seq(DOMAIN block)
        /\ names \in Seq(Names \cup {Empty})
    BY ListShape DEF IInv, StateOK
  <1>2. name \in Names
    BY <1>1 DEF SelectName
  <1>3. consumed[name] \in Nat
    BY <1>1, <1>2
  <1>4. /\ consumed' = [consumed EXCEPT ![name] = consumed[name] + 1]
        /\ picked' = IF p = 0 THEN picked ELSE Append(picked, p)
        /\ block' = block /\ names' = names /\ k' = k + 1
    BY DEF SelectName
  <1>5. /\ p # 0 => IsNth(block, name, consumed[name], p)
        /\ p = 0 => \A q \in DOMAIN block : ~IsNth(block, name, consumed[name], q)
    BY <1>1, <1>3, NthIsThere
  <1> HIDE DEF p
  <1>6. p # 0 => p \in DOMAIN block /\ block[p].name = name /\ Rank(block, p) = consumed[name]
    BY <1>5 DEF IsNth
  <1>7. picked' \in Seq(DOMAIN block)
    BY <1>1, <1>4, <1>6, AppendProperties
  <1>8. StateOK'
    <2>1. consumed' \in [Names -> Nat]
      BY <1>1, <1>2, <1>3, <1>4
    <2> QED BY <1>1, <1>4, <1>7, <2>1 DEF IInv, StateOK
  <1>9. PickedSet' = IF p = 0 THEN PickedSet ELSE PickedSet \cup {p}
    <2>1. CASE p = 0
      BY <1>4, <2>1 DEF PickedSet
    <2>2. CASE p # 0
      <3>1. picked' = Append(picked, p)
        BY <1>4, <2>2
      <3>2. DOMAIN picked' = DOMAIN picked \cup {Len(picked) + 1}
        BY <1>1, <1>6, <2>2, <3>1
      <3>3. \A j \in DOMAIN picked : picked'[j] = picked[j]
        BY <1>1, <1>6, <2>2, <3>1
      <3>4. picked'[Len(picked) + 1] = p
        BY <1>1, <1>6, <2>2, <3>1
      <3> QED BY <2>2, <3>2, <3>3, <3>4 DEF PickedSet
    <2> QED BY <2>1, <2>2
  <1>10. PickedByRank'
    <2> SUFFICES ASSUME NEW q \in DOMAIN block
                 PROVE  q \in PickedSet' <=> Rank(block, q) < consumed'[block[q].name]
      BY <1>4 DEF PickedByRank
    <2>1. /\ Rank(block, q) \in Nat /\ block[q].name \in Names
          /\ consumed[block[q].name] \in Nat
      BY <1>1, BelowFinite, FieldShape
    <2>2. q \in PickedSet <=> Rank(block, q) < consumed[block[q].name]
      BY DEF IInv, PickedByRank
    <2>3. CASE block[q].name # name
      <3>1. consumed'[block[q].name] = consumed[block[q].name]
        BY <1>1, <1>4, <2>1, <2>3
      <3>2. p # 0 => q # p
        BY <1>6, <2>3
      <3> QED BY <1>9, <2>2, <3>1, <3>2
    <2>4. CASE block[q].name = name
      <3>1. consumed'[name] = consumed[name] + 1
        BY <1>1, <1>2, <1>4
      <3>2. CASE Rank(block, q) = consumed[name]
        <4>1. IsNth(block, name, consumed[name], q)
          BY <2>4, <3>2 DEF IsNth
        <4>2. p # 0
          BY <1>5, <4>1
        <4>3. q = p
          BY <1>1, <1>6, <2>4, <3>2, <4>2, RankDetermines
        <4> QED BY <1>3, <1>9, <2>4, <3>1, <3>2, <4>2, <4>3
      <3>3. CASE Rank(block, q) # consumed[name]
        <4>1. p # 0 => q # p
          BY <1>6, <3>3
        <4> QED BY <1>3, <1>9, <2>1, <2>2, <2>4, <3>1, <3>3, <4>1
      <3> QED BY <3>2, <3>3
    <2> QED BY <2>3, <2>4
  <1>11. NoFieldTwice'
    <2>1. CASE p = 0
      BY <1>4, <2>1 DEF IInv, NoFieldTwice
    <2>2. CASE p # 0
      <3>1. p \notin PickedSet
        BY <1>3, <1>6, <2>2 DEF IInv, PickedByRank
      <3>2. picked' = Append(picked, p)
        BY <1>4, <2>2
      <3> QED BY <1>1, <1>6, <2>2, <3>1, <3>2 DEF IInv, NoFieldTwice, PickedSet
    <2> QED BY <2>1, <2>2
  <1> QED BY <1>8, <1>10, <1>11 DEF IInv

LEMMA NextIInv == IInv /\ [Next]_vars => IInv'
  <1> SUFFICES ASSUME IInv, [Next]_vars PROVE IInv'
    OBVIOUS
  <1>1. CASE SelectName
    BY <1>1, SelectNameIInv
  <1>2. CASE SkipEmpty
    BY <1>2 DEF SkipEmpty, IInv, StateOK, PickedByRank, NoFieldTwice, PickedSet
  <1>3. CASE UNCHANGED vars
    BY <1>3 DEF vars, IInv, StateOK, PickedByRank, NoFieldTwice, PickedSet
  <1> QED BY <1>1, <1>2, <1>3 DEF Next

(* Every reachable state satisfies the inductive invariant.                *)
THEOREM Invariance == Spec => []IInv
  BY InitIInv, NextIInv, PTL DEF Spec

(* The variables keep their types: the loop ends one past the last name of *)
(* h=, and only positions of the block are selected.                       *)
THEOREM TypeCorrect == Spec => []TypeOK
  <1> DEFINE Cursor == k \in 1 .. (Len(names) + 1)
  <1>1. Init => Cursor
    <2> SUFFICES ASSUME Init PROVE Cursor
      OBVIOUS
    <2>1. Len(names) \in Nat /\ k = 1
      BY ListShape DEF Init
    <2> QED BY <2>1
  <1>2. IInv /\ Cursor /\ [Next]_vars => Cursor'
    <2> SUFFICES ASSUME IInv, Cursor, [Next]_vars PROVE Cursor'
      OBVIOUS
    <2>1. Len(names) \in Nat
      BY ListShape DEF IInv, StateOK
    <2> QED BY <2>1 DEF Next, SkipEmpty, SelectName, vars
  <1>3. IInv /\ Cursor => TypeOK
    BY DEF IInv, StateOK, TypeOK
  <1> QED BY <1>1, <1>2, <1>3, Invariance, PTL DEF Spec

(* A name repeated in h= never covers the same instance twice.             *)
THEOREM NoFieldSelectedTwice == Spec => []NoFieldTwice
  <1>1. IInv => NoFieldTwice
    BY DEF IInv
  <1> QED BY <1>1, Invariance, PTL

(* Below a selected instance every instance of the name is selected.       *)
THEOREM SelectsBottomMost == Spec => []BottomMostFirst
  <1>1. IInv => BottomMostFirst
    <2> SUFFICES ASSUME IInv, NEW p \in PickedSet, NEW q \in Below(block, p)
                 PROVE  q \in PickedSet
      BY DEF BottomMostFirst
    <2>1. block \in Seq(Fields) /\ consumed \in [Names -> Nat]
      BY DEF IInv, StateOK
    <2>2. p \in DOMAIN block
      BY DEF IInv, StateOK, PickedSet
    <2>3. q \in DOMAIN block /\ block[q].name = block[p].name
      BY DEF Below
    <2>4. Rank(block, q) < Rank(block, p)
      BY <2>1, <2>2, RankDecreases
    <2>5. Rank(block, p) < consumed[block[p].name]
      BY <2>2 DEF IInv, PickedByRank
    <2>6. /\ Rank(block, p) \in Nat /\ Rank(block, q) \in Nat
          /\ consumed[block[p].name] \in Nat
      BY <2>1, <2>2, <2>3, BelowFinite, FieldShape
    <2>7. Rank(block, q) < consumed[block[q].name]
      BY <2>3, <2>4, <2>5, <2>6
    <2> QED BY <2>3, <2>7 DEF IInv, PickedByRank
  <1> QED BY <1>1, Invariance, PTL
-------------------------------------------------------------------------------
(* What the loop has done after k - 1 names: the counters hold how often   *)
(* each name was met, the selection is that of the names so far.           *)
Setup ==
    /\ headers \in Seq(Fields)
    /\ self \in 0 .. Len(headers)
    /\ self # 0 => sig = headers[self]
    /\ sig.name = SigName
    /\ block = WithoutSelf(headers, sig)

Counting == \A name \in Names : consumed[name] = Cardinality(Met(names, name, k - 1))

SoFar == picked = FlattenSeq([j \in 1 .. (k - 1) |-> SelectedBy(names, block, j)])

Progress == Setup /\ k \in 1 .. (Len(names) + 1) /\ Counting /\ SoFar

(* What one name more adds to the selection.                               *)
LEMMA SelectedNext ==
    ASSUME NEW ns, NEW hs, NEW n \in Nat
    PROVE  LET upTo(m) == FlattenSeq([j \in 1 .. m |-> SelectedBy(ns, hs, j)])
           IN  upTo(n + 1) = upTo(n) \o SelectedBy(ns, hs, n + 1)
  <1> DEFINE parts == [j \in 1 .. (n + 1) |-> SelectedBy(ns, hs, j)]
             S     == { nthFromBottom(hs, ns[j], ConsumedBefore(ns, j)) : j \in 1 .. (n + 1) }
             front == [j \in 1 .. n |-> SelectedBy(ns, hs, j)]
  <1>1. ASSUME NEW j \in 1 .. (n + 1) PROVE SelectedBy(ns, hs, j) \in Seq(S)
    <2>1. nthFromBottom(hs, ns[j], ConsumedBefore(ns, j)) \in S
      OBVIOUS
    <2> HIDE DEF S
    <2> QED BY <2>1 DEF SelectedBy
  <1> HIDE DEF S
  <1>2. parts \in [1 .. (n + 1) -> Seq(S)] /\ parts[n + 1] = SelectedBy(ns, hs, n + 1)
    BY <1>1
  <1>3. front = [j \in 1 .. n |-> parts[j]]
    OBVIOUS
  <1> HIDE DEF parts, front
  <1>4. FlattenSeq(parts) = FlattenSeq(front) \o parts[n + 1]
    BY <1>2, <1>3, FlattenStep
  <1> QED BY <1>2, <1>4 DEF parts, front

(* The loop starts with nothing met and nothing selected.                  *)
LEMMA InitProgress == Init => Progress
  <1> SUFFICES ASSUME Init PROVE Progress
    OBVIOUS
  <1>1. Len(names) \in Nat /\ k = 1 /\ headers \in Seq(Fields)
    BY ListShape, BlockShape DEF Init
  <1>2. Setup
    BY <1>1 DEF Init, Setup
  <1>3. Counting
    <2> SUFFICES ASSUME NEW name \in Names
                 PROVE  consumed[name] = Cardinality(Met(names, name, k - 1))
      BY DEF Counting
    <2>1. Met(names, name, k - 1) = {}
      BY <1>1 DEF Met
    <2> QED BY <2>1, FS_EmptySet DEF Init
  <1>4. SoFar
    <2>1. k - 1 = 0 /\ [j \in 1 .. 0 |-> SelectedBy(names, block, j)] = <<>>
      BY <1>1
    <2> QED BY <2>1, FlattenEmpty DEF SoFar, Init
  <1> QED BY <1>1, <1>2, <1>3, <1>4 DEF Progress

(* A name of h= selects what Selected has it select, since its counter is  *)
(* the number of its earlier listings.                                     *)
LEMMA SelectNameProgress == IInv /\ Progress /\ SelectName => Progress'
  <1> SUFFICES ASSUME IInv, Progress, SelectName PROVE Progress'
    OBVIOUS
  <1>1. /\ names \in Seq(Names \cup {Empty}) /\ k \in 1 .. Len(names)
        /\ consumed \in [Names -> Nat] /\ Len(names) \in Nat
    BY ListShape DEF IInv, StateOK, SelectName, Progress
  <1>2. names[k] \in Names /\ names[k] # Empty
    BY <1>1 DEF SelectName
  <1>3. /\ consumed' = [consumed EXCEPT ![names[k]] = consumed[names[k]] + 1]
        /\ picked' = IF nthFromBottom(block, names[k], consumed[names[k]]) = 0 THEN picked
                     ELSE Append(picked, nthFromBottom(block, names[k], consumed[names[k]]))
        /\ k' = k + 1 /\ UNCHANGED <<headers, names, self, sig, block>>
    BY DEF SelectName
  <1>4. IInv'
    BY SelectNameIInv
  <1>5. Setup'
    BY <1>3 DEF Progress, Setup
  <1>6. k' \in 1 .. (Len(names') + 1)
    BY <1>1, <1>3
  <1>7. Counting'
    <2> SUFFICES ASSUME NEW name \in Names
                 PROVE  consumed'[name] = Cardinality(Met(names', name, k' - 1))
      BY DEF Counting
    <2>1. Met(names', name, k' - 1) = Met(names, name, (k - 1) + 1)
      BY <1>1, <1>3 DEF Met
    <2>2. k - 1 \in Nat /\ (k - 1) + 1 = k
      BY <1>1
    <2>3. /\ consumed[name] = Cardinality(Met(names, name, k - 1))
          /\ Cardinality(Met(names, name, (k - 1) + 1)) =
                IF names[k] = name THEN Cardinality(Met(names, name, k - 1)) + 1
                ELSE Cardinality(Met(names, name, k - 1))
      <3>1. consumed[name] = Cardinality(Met(names, name, k - 1))
        BY DEF Progress, Counting
      <3> DEFINE met == k - 1
      <3>2. met \in Nat /\ met + 1 = k
        BY <2>2
      <3> HIDE DEF met
      <3>3. Cardinality(Met(names, name, met + 1)) =
               IF names[met + 1] = name THEN Cardinality(Met(names, name, met)) + 1
               ELSE Cardinality(Met(names, name, met))
        BY <3>2, MetOneMore
      <3>4. Cardinality(Met(names, name, met + 1)) =
               IF names[k] = name THEN Cardinality(Met(names, name, met)) + 1
               ELSE Cardinality(Met(names, name, met))
        BY <3>2, <3>3
      <3> QED BY <3>1, <3>4 DEF met
    <2>4. consumed'[name] = IF names[k] = name THEN consumed[name] + 1 ELSE consumed[name]
      BY <1>1, <1>2, <1>3
    <2> QED BY <2>1, <2>3, <2>4
  <1>8. SoFar'
    <2>1. consumed[names[k]] = ConsumedBefore(names, k)
      BY <1>2 DEF Progress, Counting, Met, ConsumedBefore
    <2>2. picked' = picked \o SelectedBy(names, block, k)
      <3>1. SelectedBy(names, block, k) =
              IF nthFromBottom(block, names[k], consumed[names[k]]) = 0 THEN <<>>
              ELSE <<nthFromBottom(block, names[k], consumed[names[k]])>>
        BY <1>2, <2>1 DEF SelectedBy
      <3>2. picked \in Seq(DOMAIN block) /\ picked' \in Seq(DOMAIN block)
        BY <1>3, <1>4 DEF IInv, StateOK
      <3> DEFINE p == nthFromBottom(block, names[k], consumed[names[k]])
      <3>3. picked' = IF p = 0 THEN picked ELSE Append(picked, p)
        BY <1>3
      <3> HIDE DEF p
      <3> QED BY <3>1, <3>2, <3>3 DEF p
    <2>3. k - 1 \in Nat /\ (k - 1) + 1 = k
      BY <1>1
    <2>4. FlattenSeq([j \in 1 .. k |-> SelectedBy(names, block, j)])
            = picked \o SelectedBy(names, block, k)
      BY <2>3, SelectedNext DEF Progress, SoFar
    <2>5. (k + 1) - 1 = k
      BY <1>1
    <2> QED BY <1>3, <2>2, <2>4, <2>5 DEF SoFar
  <1> QED BY <1>5, <1>6, <1>7, <1>8 DEF Progress

(* An empty element is not a name: it counts nothing and selects nothing.  *)
LEMMA SkipEmptyProgress == IInv /\ Progress /\ SkipEmpty => Progress'
  <1> SUFFICES ASSUME IInv, Progress, SkipEmpty PROVE Progress'
    OBVIOUS
  <1>1. names \in Seq(Names \cup {Empty}) /\ k \in 1 .. Len(names) /\ Len(names) \in Nat
    BY ListShape DEF IInv, StateOK, SkipEmpty, Progress
  <1>2. /\ names[k] = Empty /\ k' = k + 1
        /\ UNCHANGED <<headers, names, self, sig, block, consumed, picked>>
    BY DEF SkipEmpty
  <1>3. Setup' /\ k' \in 1 .. (Len(names') + 1)
    BY <1>1, <1>2 DEF Progress, Setup
  <1>4. Counting'
    <2> SUFFICES ASSUME NEW name \in Names
                 PROVE  consumed'[name] = Cardinality(Met(names', name, k' - 1))
      BY DEF Counting
    <2>1. Met(names', name, k' - 1) = Met(names, name, (k - 1) + 1)
      BY <1>1, <1>2 DEF Met
    <2>2. k - 1 \in Nat /\ (k - 1) + 1 = k /\ names[k] # name
      BY <1>1, <1>2, NameShape
    <2>3. Cardinality(Met(names, name, (k - 1) + 1)) = Cardinality(Met(names, name, k - 1))
      <3> DEFINE met == k - 1
      <3>1. met \in Nat /\ met + 1 = k /\ names[met + 1] # name
        BY <2>2
      <3> HIDE DEF met
      <3>2. Cardinality(Met(names, name, met + 1)) = Cardinality(Met(names, name, met))
        BY <3>1, MetOneMore
      <3> QED BY <3>2 DEF met
    <2>4. consumed[name] = Cardinality(Met(names, name, k - 1))
      BY DEF Progress, Counting
    <2> QED BY <1>2, <2>1, <2>3, <2>4
  <1>5. SoFar'
    <2>1. SelectedBy(names, block, k) = <<>>
      BY <1>2 DEF SelectedBy
    <2>2. k - 1 \in Nat /\ (k - 1) + 1 = k /\ (k + 1) - 1 = k
      BY <1>1
    <2>3. FlattenSeq([j \in 1 .. k |-> SelectedBy(names, block, j)])
            = picked \o SelectedBy(names, block, k)
      BY <2>2, SelectedNext DEF Progress, SoFar
    <2>4. picked \in Seq(DOMAIN block)
      BY DEF IInv, StateOK
    <2>5. picked \o <<>> = picked
      BY <2>4, ConcatEmptySeq
    <2> QED BY <1>2, <2>1, <2>2, <2>3, <2>5 DEF SoFar
  <1> QED BY <1>3, <1>4, <1>5 DEF Progress

THEOREM ProgressInvariance == Spec => []Progress
  <1>1. Progress /\ UNCHANGED vars => Progress'
    BY DEF vars, Progress, Setup, Counting, Met, SoFar
  <1>2. IInv /\ Progress /\ [Next]_vars => Progress'
    BY <1>1, SelectNameProgress, SkipEmptyProgress DEF Next
  <1> QED BY <1>2, InitProgress, Invariance, PTL DEF Spec

(* The loop of BuildSignedHeaders, with its counters, computes the         *)
(* selection that the rest of the system is stated with, for every block   *)
(* and every h= (verify.go:487-502).                                       *)
THEOREM LoopComputesSelected == Spec => []LoopSelects
  <1>1. IInv /\ Progress => LoopSelects
    <2> SUFFICES ASSUME IInv, Progress, Done PROVE picked = Selected(names, block)
      BY DEF LoopSelects
    <2>1. k - 1 = Len(names) /\ DOMAIN names = 1 .. Len(names)
      BY ListShape DEF IInv, StateOK, Progress, Done
    <2> QED BY <2>1 DEF Progress, SoFar, Selected
  <1> QED BY <1>1, Invariance, ProgressInvariance, PTL
-------------------------------------------------------------------------------
(* How many instances of a name have a rank below c: c of them, while there*)
(* are as many.                                                            *)
InstancesIn(hs, name)  == { p \in DOMAIN hs : hs[p].name = name }
RankedBelow(hs, name, c) == { p \in InstancesIn(hs, name) : Rank(hs, p) < c }

LEMMA RankCounts ==
    ASSUME NEW hs \in Seq(Fields), NEW name, NEW c \in Nat,
           NEW I, I = InstancesIn(hs, name)
    PROVE  /\ IsFiniteSet(I) /\ Cardinality(I) \in Nat
           /\ Cardinality(RankedBelow(hs, name, c))
                = IF c < Cardinality(I) THEN c ELSE Cardinality(I)
  <1> DEFINE rank == [p \in I |-> Rank(hs, p)]
             size == Cardinality(I)
  <1>1. IsFiniteSet(I) /\ size \in Nat
    <2>1. IsFiniteSet(1 .. Len(hs)) /\ I \in SUBSET (1 .. Len(hs))
      BY FS_Interval DEF InstancesIn
    <2> QED BY <2>1, FS_Subset, FS_CardinalityType
  <1>2. ASSUME NEW p \in I PROVE Rank(hs, p) \in 0 .. (size - 1)
    <2>1. Below(hs, p) \in SUBSET (I \ {p})
      BY DEF Below, InstancesIn
    <2>2. IsFiniteSet(I \ {p}) /\ Cardinality(I \ {p}) = size - 1
      BY <1>1, FS_RemoveElement
    <2>3. Rank(hs, p) \in Nat /\ Rank(hs, p) <= size - 1
      BY <2>1, <2>2, FS_Subset, BelowFinite DEF Rank, InstancesIn
    <2> QED BY <1>1, <2>3
  <1>3. IsFiniteSet(0 .. (size - 1)) /\ Cardinality(0 .. (size - 1)) = size
    <2> HIDE DEF size
    <2>1. size - 1 \in Int /\ (0 > size - 1 => size = 0) /\ (size - 1) - 0 + 1 = size
      BY <1>1
    <2> QED BY <2>1, FS_Interval
  <1>4. \A p, q \in I : rank[p] = rank[q] => p = q
    BY RankDetermines DEF InstancesIn
  <1>5. rank \in Injection(I, 0 .. (size - 1))
    <2>1. rank \in [I -> 0 .. (size - 1)]
      BY <1>2
    <2> HIDE DEF rank
    <2> QED BY <1>4, <2>1 DEF Injection, IsInjective
  <1>6. rank \in Surjection(I, 0 .. (size - 1))
    <2> HIDE DEF rank, size
    <2>1. Cardinality(I) = Cardinality(0 .. (size - 1))
      BY <1>3 DEF size
    <2> QED BY <1>3, <1>5, <2>1, FS_Injection
  <1> DEFINE low == { p \in I : Rank(hs, p) < c }
  <1> SUFFICES Cardinality(low) = IF c < size THEN c ELSE size
    BY <1>1 DEF RankedBelow
  <1>7. CASE c < size
    <2> DEFINE part == [p \in low |-> Rank(hs, p)]
    <2>1. part \in [low -> 0 .. (c - 1)]
      <3> SUFFICES ASSUME NEW p \in low PROVE Rank(hs, p) \in 0 .. (c - 1)
        OBVIOUS
      <3>1. Rank(hs, p) \in 0 .. (size - 1) /\ Rank(hs, p) < c
        BY <1>2
      <3> HIDE DEF size
      <3> QED BY <1>1, <3>1
    <2>2. \A p, q \in low : part[p] = part[q] => p = q
      BY <1>4
    <2>3. ASSUME NEW n \in 0 .. (c - 1) PROVE \E p \in low : part[p] = n
      <3>1. n \in 0 .. (size - 1) /\ n < c
        BY <1>1, <1>7
      <3>2. PICK p \in I : rank[p] = n
        BY <1>6, <3>1 DEF Surjection
      <3> QED BY <3>1, <3>2
    <2>4. part \in Bijection(low, 0 .. (c - 1))
      <3> HIDE DEF part, low
      <3> QED BY <2>1, <2>2, <2>3 DEF Bijection, Injection, IsInjective, Surjection
    <2>5. IsFiniteSet(low)
      BY <1>1, FS_Subset
    <2>6. ExistsBijection(low, 0 .. (c - 1))
      BY <2>4 DEF ExistsBijection
    <2> HIDE DEF low
    <2>7. Cardinality(0 .. (c - 1)) = Cardinality(low)
      BY <2>5, <2>6, FS_Bijection
    <2>8. Cardinality(0 .. (c - 1)) = c
      <3>1. c - 1 \in Int /\ (0 > c - 1 => c = 0) /\ (c - 1) - 0 + 1 = c
        OBVIOUS
      <3> QED BY <3>1, FS_Interval
    <2> QED BY <1>7, <2>7, <2>8 DEF low
  <1>8. CASE ~(c < size)
    <2>1. low = I
      BY <1>1, <1>2, <1>8
    <2> QED BY <1>8, <2>1
  <1> QED BY <1>7, <1>8

(* A name listed n times covers the n bottom-most instances of it, or all  *)
(* of them: listing one more than there are asserts that there is no       *)
(* further one, for every block and every h= (verify.go:484-502).          *)
THEOREM ListingsCover == Spec => []EveryListingCovers
  <1>1. IInv /\ Progress => EveryListingCovers
    <2> SUFFICES ASSUME IInv, Progress, Done, NEW name \in Names
                 PROVE  LET listed == Cardinality({ j \in DOMAIN names : names[j] = name })
                            there  == Cardinality(Instances(name))
                        IN  Cardinality(PickedSet \cap Instances(name))
                              = IF listed < there THEN listed ELSE there
      BY DEF EveryListingCovers
    <2>1. /\ block \in Seq(Fields) /\ consumed[name] \in Nat
          /\ names \in Seq(Names \cup {Empty}) /\ k - 1 = Len(names)
          /\ picked \in Seq(DOMAIN block)
      BY ListShape DEF IInv, StateOK, Progress, Done
    <2>2. consumed[name] = Cardinality({ j \in DOMAIN names : names[j] = name })
      <3>1. consumed[name] = Cardinality(Met(names, name, k - 1))
        BY DEF Progress, Counting
      <3>2. Met(names, name, k - 1) = { j \in DOMAIN names : names[j] = name }
        BY <2>1 DEF Met
      <3> QED BY <3>1, <3>2
    <2>3. PickedSet \cap Instances(name) = RankedBelow(block, name, consumed[name])
      BY <2>1 DEF IInv, PickedByRank, Instances, InstancesIn, RankedBelow
    <2>4. Instances(name) = InstancesIn(block, name)
      BY DEF Instances, InstancesIn
    <2>5. Cardinality(RankedBelow(block, name, consumed[name]))
            = IF consumed[name] < Cardinality(InstancesIn(block, name)) THEN consumed[name]
              ELSE Cardinality(InstancesIn(block, name))
      BY <2>1, RankCounts
    <2> QED BY <2>2, <2>3, <2>4, <2>5
  <1> QED BY <1>1, Invariance, ProgressInvariance, PTL

-------------------------------------------------------------------------------
(* A field that is in the block is found, and then at its first place.     *)
LEMMA SelfIsFound ==
    ASSUME NEW hs \in Seq(Fields), NEW s, NEW i \in DOMAIN hs, hs[i] = s
    PROVE  /\ SelfAt(hs, s) \in DOMAIN hs /\ hs[SelfAt(hs, s)] = s
           /\ \A q \in 1 .. (SelfAt(hs, s) - 1) : hs[q] # s
  <1> DEFINE B == { p \in DOMAIN hs : hs[p] = s }
  <1>1. B \in SUBSET Nat /\ B # {}
    OBVIOUS
  <1>2. PICK p \in B : \A q \in B : p <= q
    BY <1>1, LeastElement
  <1>3. \A q \in 1 .. (p - 1) : hs[q] # s
    <2> SUFFICES ASSUME NEW q \in 1 .. (p - 1), hs[q] = s PROVE FALSE
      OBVIOUS
    <2>1. p \in 1 .. Len(hs) /\ Len(hs) \in Nat
      OBVIOUS
    <2>2. q \in B /\ ~(p <= q)
      BY <2>1
    <2> QED BY <1>2, <2>2
  <1>4. IsSelf(hs, s, p)
    BY <1>3 DEF IsSelf
  <1>5. IsSelf(hs, s, SelfAt(hs, s))
    BY <1>4 DEF SelfAt, IsSelf
  <1> QED BY <1>5 DEF IsSelf

(* Where the positions of the block without the field were in the block.   *)
LEMMA WithoutSelfShifts ==
    ASSUME NEW hs \in Seq(Fields), NEW s, NEW at, at = SelfAt(hs, s), at \in DOMAIN hs
    PROVE  /\ Len(WithoutSelf(hs, s)) = Len(hs) - 1
           /\ \A p \in 1 .. (Len(hs) - 1) :
                 WithoutSelf(hs, s)[p] = hs[IF p < at THEN p ELSE p + 1]
  <1>1. at \in 1 .. Len(hs) /\ Len(hs) \in Nat /\ at # 0
    OBVIOUS
  <1> DEFINE front == SubSeq(hs, 1, at - 1)
             back  == SubSeq(hs, at + 1, Len(hs))
  <1>2. WithoutSelf(hs, s) = front \o back
    BY <1>1 DEF WithoutSelf
  <1>3. /\ front \in Seq(Fields) /\ Len(front) = at - 1
        /\ \A p \in 1 .. (at - 1) : front[p] = hs[p]
    BY <1>1, SubSeqProperties
  <1>4. /\ back \in Seq(Fields) /\ Len(back) = Len(hs) - at
        /\ \A p \in 1 .. (Len(hs) - at) : back[p] = hs[at + p]
    BY <1>1, SubSeqProperties
  <1> HIDE DEF front, back
  <1>5. Len(front \o back) = Len(hs) - 1
    BY <1>1, <1>3, <1>4, ConcatProperties
  <1>6. ASSUME NEW p \in 1 .. (Len(hs) - 1)
        PROVE  (front \o back)[p] = hs[IF p < at THEN p ELSE p + 1]
    <2>1. (front \o back)[p] = IF p <= Len(front) THEN front[p] ELSE back[p - Len(front)]
      BY <1>1, <1>3, <1>4, <1>5, ConcatProperties
    <2>2. CASE p < at
      BY <1>1, <1>3, <2>1, <2>2
    <2>3. CASE ~(p < at)
      <3>1. /\ ~(p <= Len(front)) /\ p - Len(front) = p - (at - 1)
            /\ p - (at - 1) \in 1 .. (Len(hs) - at) /\ at + (p - (at - 1)) = p + 1
        BY <1>1, <1>3, <2>3
      <3> QED BY <1>4, <2>1, <2>3, <3>1
    <2> QED BY <2>2, <2>3
  <1> QED BY <1>2, <1>5, <1>6

(* Behind the field taken out a position keeps its rank.                   *)
LEMMA RankShifts ==
    ASSUME NEW hs \in Seq(Fields), NEW s, NEW at, at = SelfAt(hs, s), at \in DOMAIN hs,
           NEW rest, rest = WithoutSelf(hs, s), NEW p \in at .. (Len(hs) - 1)
    PROVE  rest[p] = hs[p + 1] /\ Rank(rest, p) = Rank(hs, p + 1)
  <1> DEFINE A == Below(rest, p)
             B == Below(hs, p + 1)
             move == [q \in A |-> q + 1]
  <1>1. at \in 1 .. Len(hs) /\ Len(hs) \in Nat /\ p \in 1 .. (Len(hs) - 1) /\ p >= at
    OBVIOUS
  <1>2. DOMAIN rest = 1 .. (Len(hs) - 1)
    <2>1. rest \in Seq(Fields)
      BY <1>1, SubSeqProperties, ConcatProperties DEF WithoutSelf
    <2> QED BY <2>1, WithoutSelfShifts
  <1>3. \A q \in at .. (Len(hs) - 1) : rest[q] = hs[q + 1]
    <2> SUFFICES ASSUME NEW q \in at .. (Len(hs) - 1) PROVE rest[q] = hs[q + 1]
      OBVIOUS
    <2>1. q \in 1 .. (Len(hs) - 1) /\ ~(q < at)
      BY <1>1
    <2> QED BY <2>1, WithoutSelfShifts
  <1>4. rest[p] = hs[p + 1]
    BY <1>3
  <1>5. \A q : q \in A <=> q \in (p + 1) .. (Len(hs) - 1) /\ hs[q + 1].name = hs[p + 1].name
    <2>1. \A q : q \in A <=> q \in 1 .. (Len(hs) - 1) /\ q > p /\ rest[q].name = rest[p].name
      BY <1>2 DEF Below
    <2>2. \A q : q \in 1 .. (Len(hs) - 1) /\ q > p <=> q \in (p + 1) .. (Len(hs) - 1)
      BY <1>1
    <2>3. \A q \in (p + 1) .. (Len(hs) - 1) : q \in at .. (Len(hs) - 1)
      BY <1>1
    <2> HIDE DEF A
    <2> QED BY <1>3, <1>4, <2>1, <2>2, <2>3
  <1>6. \A q : q \in B <=> q \in (p + 2) .. Len(hs) /\ hs[q].name = hs[p + 1].name
    BY <1>1 DEF Below
  <1>7. IsFiniteSet(B)
    <2>1. p + 1 \in DOMAIN hs
      BY <1>1
    <2> QED BY <2>1, BelowFinite
  <1> HIDE DEF A, B
  <1>8. \A q \in A : move[q] \in B
    BY <1>1, <1>5, <1>6
  <1>9. \A q, r \in A : move[q] = move[r] => q = r
    BY <1>1, <1>5
  <1>10. ASSUME NEW r \in B PROVE \E q \in A : move[q] = r
    <2>1. r - 1 \in A /\ (r - 1) + 1 = r
      BY <1>1, <1>5, <1>6
    <2> QED BY <2>1
  <1>11. ExistsBijection(A, B)
    <2>1. move \in [A -> B]
      BY <1>8
    <2> HIDE DEF move
    <2>2. move \in Bijection(A, B)
      BY <1>9, <1>10, <2>1 DEF Bijection, Injection, IsInjective, Surjection
    <2> QED BY <2>2 DEF ExistsBijection
  <1>12. Cardinality(A) = Cardinality(B)
    <2>1. IsFiniteSet(A)
      <3>1. A \in SUBSET (1 .. Len(hs))
        BY <1>1, <1>5
      <3>2. IsFiniteSet(1 .. Len(hs))
        BY <1>1, FS_Interval
      <3> QED BY <3>1, <3>2, FS_Subset
    <2> QED BY <1>11, <2>1, FS_Bijection
  <1> QED BY <1>4, <1>12 DEF Rank, A, B

(* Of the copies of the field being verified the upper-most is left out,   *)
(* and no other: those below it are selected exactly as far as h= reaches  *)
(* in the caller's block, for every block and every h= (verify.go:473-482).*)
THEOREM LeavesOneCopyOut == Spec => []OneCopyLeftOut
  <1>1. IInv /\ Progress => OneCopyLeftOut
    <2> DEFINE at      == SelfAt(headers, sig)
               copies  == { p \in DOMAIN headers : headers[p] = sig }
               listed  == Cardinality({ j \in DOMAIN names : names[j] = SigName })
               reached == { p \in copies : /\ \E q \in copies : q < p
                                           /\ Rank(headers, p) < listed }
               taken   == { p \in PickedSet : block[p] = sig }
               move    == [p \in taken |-> p + 1]
    <2> SUFFICES ASSUME IInv, Progress, Done, self # 0
                 PROVE  Cardinality(taken) = Cardinality(reached)
      BY DEF OneCopyLeftOut
    <2>1. /\ headers \in Seq(Fields) /\ self \in DOMAIN headers /\ headers[self] = sig
          /\ block = WithoutSelf(headers, sig) /\ block \in Seq(Fields) /\ sig.name = SigName
      BY DEF Progress, Setup, IInv, StateOK
    <2>2. /\ at \in DOMAIN headers /\ headers[at] = sig
          /\ \A q \in 1 .. (at - 1) : headers[q] # sig
      BY <2>1, SelfIsFound
    <2>3. /\ Len(block) = Len(headers) - 1
          /\ \A p \in 1 .. (Len(headers) - 1) : block[p] = headers[IF p < at THEN p ELSE p + 1]
      BY <2>1, <2>2, WithoutSelfShifts
    <2>4. \A p \in at .. (Len(headers) - 1) :
             block[p] = headers[p + 1] /\ Rank(block, p) = Rank(headers, p + 1)
      BY <2>1, <2>2, RankShifts
    <2>5. consumed[SigName] = listed
      <3>1. SigName \in Names
        BY <2>1, FieldShape
      <3>2. consumed[SigName] = Cardinality(Met(names, SigName, k - 1))
        BY <3>1 DEF Progress, Counting
      <3>3. names \in Seq(Names \cup {Empty}) /\ k - 1 = Len(names)
        BY ListShape DEF IInv, StateOK, Progress, Done
      <3>4. Met(names, SigName, k - 1) = { j \in DOMAIN names : names[j] = SigName }
        BY <3>3 DEF Met
      <3> QED BY <3>2, <3>4
    <2> HIDE DEF at, listed
    <2>6. at \in 1 .. Len(headers) /\ Len(headers) \in Nat
      BY <2>1, <2>2
    <2>7. ASSUME NEW p
          PROVE  p \in taken <=> /\ p \in at .. (Len(headers) - 1) /\ headers[p + 1] = sig
                                 /\ Rank(headers, p + 1) < listed
      <3>1. p \in taken <=> /\ p \in 1 .. (Len(headers) - 1) /\ block[p] = sig
                            /\ Rank(block, p) < listed
        <4>1. PickedSet \subseteq DOMAIN block /\ DOMAIN block = 1 .. (Len(headers) - 1)
          BY <2>1, <2>3 DEF IInv, StateOK, PickedSet
        <4>2. \A q \in DOMAIN block : block[q] = sig
                 => (q \in PickedSet <=> Rank(block, q) < listed)
          BY <2>1, <2>5 DEF IInv, PickedByRank
        <4> QED BY <4>1, <4>2
      <3>2. p \in 1 .. (Len(headers) - 1) /\ block[p] = sig => ~(p < at)
        <4> SUFFICES ASSUME p \in 1 .. (Len(headers) - 1), block[p] = sig, p < at PROVE FALSE
          OBVIOUS
        <4>1. block[p] = headers[p] /\ p \in 1 .. (at - 1)
          BY <2>3, <2>6
        <4> QED BY <2>2, <4>1
      <3> QED BY <2>4, <2>6, <3>1, <3>2
    <2>8. ASSUME NEW p
          PROVE  p \in reached <=> /\ p \in (at + 1) .. Len(headers) /\ headers[p] = sig
                                   /\ Rank(headers, p) < listed
      <3>1. \A q \in copies : q \in 1 .. Len(headers) /\ ~(q < at)
        BY <2>1, <2>2, <2>6
      <3>2. at \in copies
        BY <2>2
      <3>3. p \in copies <=> p \in 1 .. Len(headers) /\ headers[p] = sig
        BY <2>1
      <3>4. p \in copies => ((\E q \in copies : q < p) <=> p \in (at + 1) .. Len(headers))
        <4> HIDE DEF copies
        <4> QED BY <2>6, <3>1, <3>2
      <3> HIDE DEF copies
      <3>5. p \in (at + 1) .. Len(headers) => p \in 1 .. Len(headers)
        BY <2>6
      <3> QED BY <3>3, <3>4, <3>5
    <2> HIDE DEF taken, reached
    <2>9. ExistsBijection(taken, reached)
      <3>1. \A p \in taken : move[p] \in reached
        BY <2>6, <2>7, <2>8
      <3>2. \A p, q \in taken : move[p] = move[q] => p = q
        BY <2>6, <2>7
      <3>3. ASSUME NEW r \in reached PROVE \E p \in taken : move[p] = r
        <4>1. r \in (at + 1) .. Len(headers) /\ (r - 1) + 1 = r /\ r - 1 \in at .. (Len(headers) - 1)
          BY <2>6, <2>8
        <4>2. r - 1 \in taken
          BY <2>7, <2>8, <4>1
        <4> QED BY <4>1, <4>2
      <3>4. move \in [taken -> reached]
        BY <3>1
      <3> HIDE DEF move
      <3>5. move \in Bijection(taken, reached)
        BY <3>2, <3>3, <3>4 DEF Bijection, Injection, IsInjective, Surjection
      <3> QED BY <3>5 DEF ExistsBijection
    <2>10. IsFiniteSet(taken)
      <3>1. taken \in SUBSET (1 .. Len(headers))
        BY <2>6, <2>7
      <3>2. IsFiniteSet(1 .. Len(headers))
        BY <2>6, FS_Interval
      <3> QED BY <3>1, <3>2, FS_Subset
    <2> QED BY <2>9, <2>10, FS_Bijection
  <1> QED BY <1>1, Invariance, ProgressInvariance, PTL
===============================================================================
