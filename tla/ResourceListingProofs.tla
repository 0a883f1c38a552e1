------------------------- MODULE ResourceListingProofs -------------------------
(***************************************************************************)
(* What GetResourceWithLabel promises for every set of API groups and of   *)
(* kinds, however the cluster changes and whichever Lists fail.            *)
(***************************************************************************)
EXTENDS ResourceListing, FiniteSetTheorems, WellFoundedInduction, TLAPS

Distinct(s) == \A i, j \in DOMAIN s : i # j => s[i] # s[j]

(* The goroutines that have not called Done.                                *)
Active == {g \in Groups : at[g] \notin {"none", "done"}}

Types ==
  /\ objs \in Seq(Items)
  /\ store \in Stores
  /\ main \in {"discover", "wait", "returned", "failed"}
  /\ lock \in Groups \cup {Nobody}
  /\ at \in [Groups -> {"none", "list", "lock", "read", "append", "done"}]
  /\ todo \in [Groups -> SUBSET Kinds]
  /\ list \in [Groups -> Seq(Items)] /\ base \in [Groups -> Seq(Items)]
  /\ spent \in [{"change", "missed"} -> Nat]
  /\ steady \subseteq store /\ missed \subseteq Groups \X Kinds
  /\ seen \subseteq Items

(* The WaitGroup counts the goroutines at work, and Wait waits for them.    *)
Counted ==
  /\ wg = Cardinality(Active)
  /\ main = "returned" => wg = 0
  /\ \A g \in Groups : at[g] = "none" <=> main \in {"discover", "failed"}
  /\ \A g \in Groups : at[g] = "done" => todo[g] = {}

(* Who appends holds the mutex, and writes to the slice it has read.        *)
Exclusive ==
  /\ \A g \in Groups : lock = g <=> at[g] \in {"read", "append"}
  /\ \A g \in Groups : at[g] = "append" => base[g] = objs /\ list[g] # <<>>
  /\ \A g \in Groups : list[g] # <<>> => at[g] \in {"lock", "read", "append"}

(* An item that was found is in the slice or in one list of items, once.    *)
Once ==
  /\ ToSet(objs) \subseteq seen
  /\ \A o \in seen : o \in ToSet(objs) \/ \E g \in Groups : o \in ToSet(list[g])
  /\ Len(objs) = Cardinality(ToSet(objs)) /\ IsFiniteSet(ToSet(objs))
  /\ \A g \in Groups :
       /\ ToSet(list[g]) \subseteq seen /\ ToSet(list[g]) \cap ToSet(objs) = {}
       /\ Distinct(list[g])
       /\ \A o \in ToSet(list[g]) : o.group = g

(* Each group lists each of its kinds once; what was there all the time is  *)
(* found then.                                                              *)
Listed ==
  /\ main = "discover" => seen = {}
  /\ \A g \in Groups :
       /\ todo[g] \subseteq KindsOf[g]
       /\ \A i \in seen : i.group = g => i.kind \notin todo[g]
       /\ main \in {"wait", "returned"} =>
            \A o \in steady : o.kind \in KindsOf[g] \ todo[g] =>
                                As(g, o) \in seen \/ <<g, o.kind>> \in missed

ListingInv == Types /\ Counted /\ Exclusive /\ Once /\ Listed

-----------------------------------------------------------------------------
LEMMA AppendIsUnion ==
  ASSUME NEW S, NEW s \in Seq(S), NEW x \in S
  PROVE  /\ Append(s, x) \in Seq(S) /\ ToSet(Append(s, x)) = ToSet(s) \cup {x}
         /\ Len(Append(s, x)) = Len(s) + 1
<1>1. /\ Append(s, x) \in Seq(S) /\ Len(Append(s, x)) = Len(s) + 1 /\ Len(s) \in Nat
      /\ DOMAIN s = 1 .. Len(s) /\ DOMAIN Append(s, x) = 1 .. Len(s) + 1
  OBVIOUS
<1>2. /\ \A i \in 1 .. Len(s) : Append(s, x)[i] = s[i]
      /\ Append(s, x)[Len(s) + 1] = x
  OBVIOUS
<1>3. ToSet(Append(s, x)) \subseteq ToSet(s) \cup {x}
  BY <1>1, <1>2 DEF ToSet
<1>4. ToSet(s) \cup {x} \subseteq ToSet(Append(s, x))
  <2>1. 1 .. Len(s) \subseteq 1 .. Len(s) + 1 /\ Len(s) + 1 \in 1 .. Len(s) + 1
    BY <1>1
  <2>2. QED
    BY <1>1, <1>2, <2>1 DEF ToSet
<1>5. QED
  BY <1>1, <1>3, <1>4

LEMMA HeadAndTail ==
  ASSUME NEW S, NEW s \in Seq(S), s # <<>>, Distinct(s)
  PROVE  /\ Head(s) \in S /\ Tail(s) \in Seq(S) /\ Distinct(Tail(s))
         /\ ToSet(s) = ToSet(Tail(s)) \cup {Head(s)}
         /\ Head(s) \notin ToSet(Tail(s))
<1>1. /\ Head(s) = s[1] /\ Head(s) \in S /\ Tail(s) \in Seq(S) /\ Len(s) \in Nat \ {0}
      /\ DOMAIN s = 1 .. Len(s) /\ DOMAIN Tail(s) = 1 .. Len(s) - 1
  OBVIOUS
<1>2. \A i \in 1 .. Len(s) - 1 : Tail(s)[i] = s[i + 1] /\ i + 1 \in 1 .. Len(s) /\ i + 1 # 1
  BY <1>1
<1>3. \A i \in 1 .. Len(s) : i = 1 \/ (i - 1 \in 1 .. Len(s) - 1 /\ i = (i - 1) + 1)
  BY <1>1
<1>4. Distinct(Tail(s))
  BY <1>1, <1>2 DEF Distinct
<1>5. Head(s) \notin ToSet(Tail(s))
  BY <1>1, <1>2 DEF Distinct, ToSet
<1>6. ToSet(s) \subseteq ToSet(Tail(s)) \cup {Head(s)}
  <2> SUFFICES ASSUME NEW i \in 1 .. Len(s) PROVE s[i] \in ToSet(Tail(s)) \cup {Head(s)}
    BY <1>1 DEF ToSet
  <2>1. i = 1 \/ (s[i] = Tail(s)[i - 1] /\ i - 1 \in DOMAIN Tail(s))
    <3>1. CASE i # 1
      <4>1. i - 1 \in 1 .. Len(s) - 1 /\ (i - 1) + 1 = i
        BY <1>1, <3>1
      <4>2. QED
        BY <1>1, <1>2, <4>1
    <3>2. QED
      BY <3>1
  <2>2. QED
    BY <1>1, <2>1 DEF ToSet
<1>7. ToSet(Tail(s)) \cup {Head(s)} \subseteq ToSet(s)
  BY <1>1, <1>2 DEF ToSet
<1>8. QED
  BY <1>1, <1>4, <1>5, <1>6, <1>7

(* Whatever the order of the items, each object is there once.              *)
LEMMA ItemsOfList ==
  ASSUME NEW S, IsFiniteSet(S), NEW items \in SetToSeqs(S)
  PROVE  items \in Seq(S) /\ Distinct(items) /\ ToSet(items) = S
<1>1. Cardinality(S) \in Nat
  BY FS_CardinalityType
<1>2. items \in [1 .. Cardinality(S) -> S] /\ Distinct(items)
  BY DEF SetToSeqs, Distinct
<1>3. items \in Seq(S)
  BY <1>1, <1>2
<1>4. IsFiniteSet(1 .. Cardinality(S)) /\ Cardinality(1 .. Cardinality(S)) = Cardinality(S)
  BY <1>1, FS_Interval
<1>5. items \in Injection(1 .. Cardinality(S), S)
  BY <1>2 DEF Injection, IsInjective, Distinct
<1>6. items \in Surjection(1 .. Cardinality(S), S)
  BY <1>4, <1>5, FS_Injection
<1>7. QED
  BY <1>2, <1>3, <1>6 DEF Surjection, ToSet

LEMMA EmptyLists == ToSet(<<>>) = {} /\ Distinct(<<>>)
BY DEF ToSet, Distinct

LEMMA ActiveIsFinite == IsFiniteSet(Active) /\ Cardinality(Active) \in 0 .. Cardinality(Groups)
<1>1. IsFiniteSet(Active) /\ Cardinality(Active) <= Cardinality(Groups)
  BY ListingAssumption, FS_Subset DEF Active
<1>2. QED
  BY <1>1, ListingAssumption, FS_CardinalityType

LEMMA ListingInit == Init => ListingInv
<1> SUFFICES ASSUME Init PROVE ListingInv
  OBVIOUS
<1>1. Types
  BY DEF Init, Types, Stores
<1>2. Active = {}
  BY DEF Init, Active
<1>3. Counted
  BY <1>2, FS_EmptySet DEF Init, Counted
<1>4. Exclusive
  BY ListingAssumption DEF Init, Exclusive
<1>5. Once
  <2>1. objs = <<>> /\ seen = {} /\ \A g \in Groups : list[g] = <<>>
    BY DEF Init
  <2>2. QED
    BY <2>1, EmptyLists, FS_EmptySet DEF Once
<1>6. Listed
  BY DEF Init, Listed
<1>7. QED
  BY <1>1, <1>3, <1>4, <1>5, <1>6 DEF ListingInv

LEMMA ChangeStep == ListingInv /\ Change => ListingInv'
<1> SUFFICES ASSUME ListingInv, Change PROVE ListingInv'
  OBVIOUS
<1>1. /\ UNCHANGED <<main, objs, lock, wg, at, todo, list, base, missed, seen>>
      /\ store' \in Stores /\ steady' = steady \cap store'
      /\ spent' = [spent EXCEPT !["change"] = @ + 1]
  BY DEF Change, groupVars
<1>2. Types'
  BY <1>1 DEF ListingInv, Types
<1>3. Counted' /\ Exclusive' /\ Once'
  BY <1>1 DEF ListingInv, Counted, Active, Exclusive, Once
<1>4. Listed'
  BY <1>1 DEF ListingInv, Listed
<1>5. QED
  BY <1>2, <1>3, <1>4 DEF ListingInv

LEMMA DiscoverStep == ListingInv /\ Discover => ListingInv'
<1> SUFFICES ASSUME ListingInv, Discover PROVE ListingInv'
  OBVIOUS
<1>0. CASE main' = "failed" /\ UNCHANGED <<wg, at, todo>>
  <2>1. /\ UNCHANGED <<store, objs, lock, list, base, spent, steady, missed, seen>>
        /\ main = "discover"
    BY DEF Discover, historyVars
  <2>2. Types' /\ Counted'
    BY <1>0, <2>1 DEF ListingInv, Types, Counted, Active
  <2>3. Exclusive' /\ Once' /\ Listed'
    BY <1>0, <2>1 DEF ListingInv, Exclusive, Once, Listed
  <2>4. QED
    BY <2>2, <2>3 DEF ListingInv
<1> SUFFICES ASSUME ~ (main' = "failed" /\ UNCHANGED <<wg, at, todo>>) PROVE ListingInv'
  BY <1>0
<1>1. /\ UNCHANGED <<store, objs, lock, list, base, spent, steady, missed, seen>>
      /\ main = "discover" /\ main' = "wait" /\ todo' = KindsOf
      /\ at' = [g \in Groups |-> "list"] /\ wg' = Cardinality(Groups)
  BY DEF Discover, Added, historyVars
<1>2. Types'
  BY <1>1, ListingAssumption DEF ListingInv, Types
<1>3. Active' = Groups
  BY <1>1 DEF Active
<1>4. Counted'
  BY <1>1, <1>3 DEF Counted
<1>5. Exclusive'
  BY <1>1 DEF ListingInv, Exclusive, Counted
<1>6. Once'
  BY <1>1 DEF ListingInv, Once
<1>7. Listed'
  BY <1>1 DEF ListingInv, Listed
<1>8. QED
  BY <1>2, <1>4, <1>5, <1>6, <1>7 DEF ListingInv

LEMMA ReturnStep == ListingInv /\ ReturnObjs => ListingInv'
<1> SUFFICES ASSUME ListingInv, ReturnObjs PROVE ListingInv'
  OBVIOUS
<1>1. /\ UNCHANGED <<store, objs, lock, wg, at, todo, list, base, spent, steady, missed, seen>>
      /\ main = "wait" /\ wg = 0 /\ main' = "returned"
  BY DEF ReturnObjs, groupVars, historyVars
<1>2. QED
  BY <1>1 DEF ListingInv, Types, Counted, Active, Exclusive, Once, Listed

(* A goroutine that goes from one place to another keeps its wg.Add.        *)
LEMMA StaysCounted ==
  ASSUME ListingInv, NEW g \in Groups, NEW l \in {"list", "lock", "read", "append"},
         at[g] \in {"list", "lock", "read", "append"}, Goto(g, l),
         UNCHANGED <<wg, main>>, \A h \in Groups : at[h] = "done" => todo'[h] = todo[h]
  PROVE  Counted' /\ at' \in [Groups -> {"none", "list", "lock", "read", "append", "done"}]
<1>1. at' = [at EXCEPT ![g] = l] /\ at \in [Groups -> {"none", "list", "lock", "read", "append", "done"}]
  BY DEF Goto, ListingInv, Types
<1>2. Active' = Active
  BY <1>1 DEF Active
<1>3. QED
  BY <1>1, <1>2 DEF ListingInv, Counted

(* What group g shows of the objects of kind k.                             *)
Found(g, k) == {As(g, o) : o \in {p \in store : p.kind = k}}

LEMMA FoundIsFinite ==
  ASSUME NEW g \in Groups, NEW k, store \in Stores
  PROVE  IsFiniteSet(Found(g, k)) /\ Found(g, k) \subseteq Items
<1> DEFINE some == {p \in store : p.kind = k}
<1>1. IsFiniteSet(some) /\ some \subseteq Objects
  BY FS_Subset DEF Stores
<1> HIDE DEF some
<1>2. IsFiniteSet({As(g, o) : o \in some})
  <2> DEFINE f == [o \in some |-> As(g, o)]
             T == {As(g, o) : o \in some}
  <2>1. f \in Surjection(some, T)
    BY DEF Surjection
  <2> HIDE DEF f, T
  <2>2. IsFiniteSet(T)
    BY <1>1, <2>1, FS_Surjection
  <2>3. QED
    BY <2>2 DEF T
<1>3. \A o \in Objects : As(g, o) \in Items
  BY DEF As, Objects, Items
<1>4. QED
  BY <1>1, <1>2, <1>3 DEF Found, some

LEMMA ListStep == ASSUME ListingInv, NEW g \in Groups, List(g) PROVE ListingInv'
<1> USE DEF ListingInv
<1>1. /\ UNCHANGED <<store, main, objs, lock, wg, base, steady>>
      /\ at[g] = "list" /\ list[g] = <<>> /\ main \notin {"discover", "failed"}
  BY DEF List, Exclusive, Counted, Types
<1>2. PICK k \in todo[g] :
       \/ /\ \E items \in SetToSeqs(Found(g, k)) : list' = [list EXCEPT ![g] = items]
          /\ todo' = [todo EXCEPT ![g] = @ \ {k}]
          /\ seen' = seen \cup Found(g, k)
          /\ Goto(g, "lock") /\ UNCHANGED <<missed, spent>>
       \/ /\ spent' = [spent EXCEPT !["missed"] = @ + 1]
          /\ missed' = missed \cup {<<g, k>>}
          /\ todo' = [todo EXCEPT ![g] = @ \ {k}]
          /\ UNCHANGED <<at, list, seen>>
  BY DEF List, Found
<1>3. k \in KindsOf[g] /\ k \in Kinds /\ todo' = [todo EXCEPT ![g] = @ \ {k}]
  BY <1>2 DEF Listed, Types
<1>4. CASE /\ spent' = [spent EXCEPT !["missed"] = @ + 1]
           /\ missed' = missed \cup {<<g, k>>} /\ UNCHANGED <<at, list, seen>>
  <2>1. Types'
    BY <1>1, <1>3, <1>4 DEF Types
  <2>2. Active' = Active
    BY <1>4 DEF Active
  <2>3. Counted'
    BY <1>1, <1>3, <1>4, <2>2 DEF Counted, Types
  <2>4. Exclusive' /\ Once'
    BY <1>1, <1>4 DEF Exclusive, Once
  <2>5. Listed'
    BY <1>1, <1>3, <1>4 DEF Listed, Types
  <2>6. QED
    BY <2>1, <2>3, <2>4, <2>5
<1>5. CASE /\ \E items \in SetToSeqs(Found(g, k)) : list' = [list EXCEPT ![g] = items]
           /\ seen' = seen \cup Found(g, k)
           /\ Goto(g, "lock") /\ UNCHANGED <<missed, spent>>
  <2> DEFINE found == Found(g, k)
  <2>1. PICK items \in SetToSeqs(found) : list' = [list EXCEPT ![g] = items]
    BY <1>5
  <2> HIDE DEF ListingInv
  <2>a. list'[g] = items /\ \A h \in Groups \ {g} : list'[h] = list[h]
    <3>1. list \in [Groups -> Seq(Items)]
      BY DEF ListingInv, Types
    <3>2. QED
      BY <2>1, <3>1
  <2>0. /\ at' = [at EXCEPT ![g] = "lock"] /\ UNCHANGED <<missed, spent>>
        /\ Goto(g, "lock") /\ list \in [Groups -> Seq(Items)]
        /\ at \in [Groups -> {"none", "list", "lock", "read", "append", "done"}]
    BY <1>5 DEF Goto, ListingInv, Types
  <2>2. IsFiniteSet(found) /\ found \subseteq Items
    BY FoundIsFinite DEF ListingInv, Types
  <2> HIDE DEF found
  <2>3. items \in Seq(found) /\ Distinct(items) /\ ToSet(items) = found
    BY <2>2, ItemsOfList
  <2>4. items \in Seq(Items)
    BY <2>2, <2>3
  <2>5. /\ \A i \in found : i.group = g /\ i.kind = k /\ i \notin seen
        /\ \A o \in steady : o.kind = k => As(g, o) \in found
        /\ seen' = seen \cup found
    <3>1. \A i \in found : i.group = g /\ i.kind = k
      BY DEF Found, As, found
    <3>2. \A i \in found : i \notin seen
      BY <3>1 DEF ListingInv, Listed
    <3>3. \A o \in steady : o.kind = k => As(g, o) \in found
      BY DEF ListingInv, Types, Found, found
    <3>4. QED
      BY <1>5, <3>1, <3>2, <3>3 DEF found
  <2>6. Types'
    BY <1>1, <1>3, <2>0, <2>1, <2>2, <2>4, <2>5 DEF ListingInv, Types
  <2>7. Counted'
    BY <1>1, <1>3, <2>0, StaysCounted DEF ListingInv, Types
  <2>8. Exclusive'
    BY <1>1, <2>0, <2>1 DEF ListingInv, Exclusive
  <2>9. Once'
    <3>1. list[g] = <<>> /\ objs' = objs
      BY <1>1
    <3>2. ToSet(list'[g]) = found /\ ToSet(list[g]) = {}
      BY <2>3, <2>a, <3>1, EmptyLists
    <3>3. found \cap ToSet(objs) = {}
      BY <2>5 DEF ListingInv, Once
    <3>4. ToSet(objs') \subseteq seen'
      BY <2>5, <3>1 DEF ListingInv, Once
    <3>5. \A o \in seen' : o \in ToSet(objs') \/ \E h \in Groups : o \in ToSet(list'[h])
      BY <2>5, <2>a, <3>1, <3>2 DEF ListingInv, Once
    <3>6. ASSUME NEW h \in Groups PROVE Once!4!(h)'
      BY <1>3, <2>3, <2>5, <2>a, <3>1, <3>2, <3>3 DEF ListingInv, Once
    <3>7. QED
      BY <3>1, <3>4, <3>5, <3>6 DEF ListingInv, Once
  <2>10. Listed'
    <3>1. todo'[g] = todo[g] \ {k} /\ \A h \in Groups \ {g} : todo'[h] = todo[h]
      BY <1>3 DEF ListingInv, Types
    <3>2. ASSUME NEW h \in Groups, NEW i \in seen', i.group = h PROVE i.kind \notin todo'[h]
      BY <2>5, <3>1, <3>2 DEF ListingInv, Listed
    <3>3. ASSUME NEW h \in Groups, NEW o \in steady', o.kind \in KindsOf[h] \ todo'[h]
          PROVE  As(h, o) \in seen' \/ <<h, o.kind>> \in missed'
      <4>1. CASE h = g /\ o.kind = k
        BY <1>1, <2>5, <4>1
      <4>2. CASE ~ (h = g /\ o.kind = k)
        <5>1. o \in steady /\ o.kind \in KindsOf[h] \ todo[h]
          BY <1>1, <3>1, <3>3, <4>2
        <5>2. As(h, o) \in seen \/ <<h, o.kind>> \in missed
          BY <1>1, <5>1 DEF ListingInv, Listed, Types
        <5>3. QED
          BY <2>0, <2>5, <5>2
      <4>3. QED
        BY <4>1, <4>2
    <3>4. \A h \in Groups : todo'[h] \subseteq KindsOf[h]
      BY <3>1 DEF ListingInv, Listed
    <3>5. QED
      BY <1>1, <3>2, <3>3, <3>4 DEF Listed
  <2>11. QED
    BY <2>6, <2>7, <2>8, <2>9, <2>10 DEF ListingInv
<1>6. QED
  BY <1>2, <1>4, <1>5

LEMMA LockStep == ASSUME ListingInv, NEW g \in Groups, Lock(g) PROVE ListingInv'
<1> USE DEF ListingInv
<1>1. /\ UNCHANGED <<store, main, objs, wg, todo, list, base, spent, steady, missed, seen>>
      /\ at[g] = "lock" /\ lock = Nobody /\ lock' = g /\ Goto(g, "read")
  BY DEF Lock, historyVars
<1>2. Counted'
  BY <1>1, StaysCounted
<1>3. Types'
  BY <1>1 DEF Types, Goto
<1>4. Exclusive'
  BY <1>1, ListingAssumption DEF Exclusive, Goto, Types
<1>5. Once' /\ Listed'
  BY <1>1 DEF Once, Listed
<1>6. QED
  BY <1>2, <1>3, <1>4, <1>5

LEMMA AppendStep == ASSUME ListingInv, NEW g \in Groups, AppendItems(g) PROVE ListingInv'
<1> USE DEF ListingInv
<1>1. UNCHANGED <<store, main, wg, todo, spent, steady, missed, seen>>
  BY DEF AppendItems, historyVars
<1>2. CASE /\ at[g] = "read" /\ list[g] # <<>> /\ base' = [base EXCEPT ![g] = objs]
           /\ Goto(g, "append") /\ UNCHANGED <<objs, lock, list>>
  <2>1. Counted'
    BY <1>1, <1>2, StaysCounted
  <2>2. Types'
    BY <1>1, <1>2 DEF Types, Goto
  <2>3. Exclusive'
    BY <1>1, <1>2 DEF Exclusive, Goto, Types
  <2>4. Once' /\ Listed'
    BY <1>1, <1>2 DEF Once, Listed
  <2>5. QED
    BY <2>1, <2>2, <2>3, <2>4
<1>3. CASE /\ at[g] = "read" /\ list[g] = <<>> /\ lock' = Nobody
           /\ Goto(g, "list") /\ UNCHANGED <<objs, base, list>>
  <2>1. Counted'
    BY <1>1, <1>3, StaysCounted
  <2>2. Types'
    BY <1>1, <1>3 DEF Types, Goto
  <2>3. Exclusive'
    BY <1>1, <1>3, ListingAssumption DEF Exclusive, Goto, Types
  <2>4. Once' /\ Listed'
    BY <1>1, <1>3 DEF Once, Listed
  <2>5. QED
    BY <2>1, <2>2, <2>3, <2>4
<1>4. CASE /\ at[g] = "append" /\ objs' = Append(base[g], Head(list[g]))
           /\ base' = [base EXCEPT ![g] = <<>>]
           /\ list' = [list EXCEPT ![g] = Tail(@)]
           /\ Goto(g, "read") /\ UNCHANGED lock
  <2> DEFINE x == Head(list[g])
  <2>1. /\ objs' = Append(objs, x) /\ list[g] # <<>> /\ list[g] \in Seq(Items)
        /\ objs \in Seq(Items) /\ Distinct(list[g])
    BY <1>4 DEF Exclusive, Types, Once
  <2>2. /\ x \in Items /\ Tail(list[g]) \in Seq(Items) /\ Distinct(Tail(list[g]))
        /\ ToSet(list[g]) = ToSet(Tail(list[g])) \cup {x}
        /\ x \notin ToSet(Tail(list[g]))
    BY <2>1, HeadAndTail
  <2> HIDE DEF x
  <2>3. /\ objs' \in Seq(Items) /\ ToSet(objs') = ToSet(objs) \cup {x}
        /\ Len(objs') = Len(objs) + 1
    BY <2>1, <2>2, AppendIsUnion
  <2>4. Types'
    BY <1>1, <1>4, <2>2, <2>3 DEF Types, Goto
  <2>5. Counted'
    BY <1>1, <1>4, StaysCounted
  <2>6. Exclusive'
    BY <1>1, <1>4 DEF Exclusive, Goto, Types
  <2>7. Once'
    <3>1. /\ list'[g] = Tail(list[g])
          /\ \A h \in Groups \ {g} : list'[h] = list[h]
      BY <1>4 DEF Types
    <3>2. x.group = g /\ x \notin ToSet(objs)
      BY <2>2 DEF Once
    <3>3. \A h \in Groups \ {g} : x \notin ToSet(list[h])
      BY <3>2 DEF Once
    <3>4. /\ ToSet(objs') \subseteq seen'
          /\ \A o \in seen' : o \in ToSet(objs') \/ \E h \in Groups : o \in ToSet(list'[h])
      BY <1>1, <2>2, <2>3, <3>1 DEF Once
    <3>5. /\ IsFiniteSet(ToSet(objs'))
          /\ Cardinality(ToSet(objs')) = Cardinality(ToSet(objs)) + 1
      BY <2>3, <3>2, FS_AddElement DEF Once
    <3>6. \A h \in Groups : /\ Distinct(list'[h]) /\ ToSet(list'[h]) \subseteq ToSet(list[h])
                            /\ x \notin ToSet(list'[h])
      BY <2>2, <3>1, <3>3 DEF Once
    <3>7. ASSUME NEW h \in Groups PROVE Once!4!(h)'
      <4>1. seen' = seen
        BY <1>1
      <4>2. ToSet(list'[h]) \subseteq seen' /\ ToSet(list'[h]) \cap ToSet(objs') = {}
        <5>1. ToSet(list[h]) \subseteq seen /\ ToSet(list[h]) \cap ToSet(objs) = {}
          BY DEF Once
        <5>2. QED
          BY <2>3, <3>6, <4>1, <5>1
      <4>3. \A o \in ToSet(list'[h]) : o.group = h
        BY <3>6 DEF Once
      <4>4. QED
        BY <3>6, <4>2, <4>3
    <3>8. Len(objs') = Cardinality(ToSet(objs'))
      BY <2>3, <3>5 DEF Once
    <3>9. QED
      BY <3>4, <3>5, <3>7, <3>8 DEF Once
  <2>8. Listed'
    BY <1>1, <1>4 DEF Listed
  <2>9. QED
    BY <2>4, <2>5, <2>6, <2>7, <2>8
<1>5. QED
  BY <1>2, <1>3, <1>4 DEF AppendItems, Append1

LEMMA DoneStep == ASSUME ListingInv, NEW g \in Groups, GroupDone(g) PROVE ListingInv'
<1> USE DEF ListingInv
<1>1. /\ UNCHANGED <<store, main, objs, lock, todo, list, base, spent, steady, missed, seen>>
      /\ at[g] = "list" /\ todo[g] = {} /\ Goto(g, "done") /\ wg' = wg - 1
  BY DEF GroupDone, historyVars
<1>2. Types'
  BY <1>1 DEF Types, Goto
<1>3. Active' = Active \ {g} /\ g \in Active
  BY <1>1 DEF Active, Goto, Types
<1>4. Cardinality(Active') = wg' /\ wg # 0
  BY <1>1, <1>3, ActiveIsFinite, FS_RemoveElement, FS_EmptySet DEF Counted
<1>5. Counted'
  BY <1>1, <1>4 DEF Counted, Goto, Types
<1>6. Exclusive'
  BY <1>1 DEF Exclusive, Goto, Types
<1>7. Once' /\ Listed'
  BY <1>1 DEF Once, Listed
<1>8. QED
  BY <1>2, <1>5, <1>6, <1>7

LEMMA ListingInvariant == Spec => []ListingInv
<1>1. ListingInv /\ [Next]_vars => ListingInv'
  <2> SUFFICES ASSUME ListingInv, [Next]_vars PROVE ListingInv'
    OBVIOUS
  <2>1. CASE Change \/ Discover \/ ReturnObjs
    BY <2>1, ChangeStep, DiscoverStep, ReturnStep
  <2>2. CASE \E g \in Groups : Group(g)
    BY <2>2, ListStep, LockStep, AppendStep, DoneStep DEF Group
  <2>3. CASE UNCHANGED vars
    BY <2>3 DEF vars, groupVars, historyVars, ListingInv, Types, Counted, Active,
       Exclusive, Once, Listed
  <2>4. QED
    BY <2>1, <2>2, <2>3 DEF Next
<1>2. QED
  BY <1>1, ListingInit, PTL DEF Spec

(* Every variable keeps its type; the WaitGroup never goes below zero.      *)
THEOREM TypeCorrect == Spec => []TypeOK
<1>1. ListingInv => TypeOK
  BY ActiveIsFinite DEF ListingInv, Types, Counted, TypeOK
<1>2. QED
  BY <1>1, ListingInvariant, PTL

LEMMA ListingIsExactNow == ListingInv => ListingIsExact
<1> SUFFICES ASSUME ListingInv, main = "returned" PROVE ListingIsExact
  BY DEF ListingIsExact, Returned
<1>1. Active = {}
  BY ActiveIsFinite, FS_EmptySet DEF ListingInv, Counted
<1>2. \A g \in Groups : at[g] = "done" /\ todo[g] = {} /\ list[g] = <<>>
  BY <1>1 DEF ListingInv, Counted, Active, Exclusive
<1>3. ToSet(objs) = seen /\ Len(objs) = Cardinality(seen)
  <2>1. \A g \in Groups : ToSet(list[g]) = {}
    BY <1>2, EmptyLists
  <2>2. ToSet(objs) = seen
    BY <2>1 DEF ListingInv, Once
  <2>3. Len(objs) = Cardinality(ToSet(objs))
    BY DEF ListingInv, Once
  <2>4. QED
    BY <2>2, <2>3
<1>4. ASSUME NEW g \in Groups, NEW o \in steady,
             o.kind \in KindsOf[g], <<g, o.kind>> \notin missed
      PROVE  As(g, o) \in seen
  BY <1>2, <1>4 DEF ListingInv, Listed
<1>5. QED
  BY <1>2, <1>3, <1>4 DEF ListingIsExact

(* The answer has each object that was there all the time once for every    *)
(* group that serves its kind and could list it, nothing but what was       *)
(* found, and nothing twice, however the goroutines interleave and whether  *)
(* or not two groups serve one kind.                                        *)
THEOREM ListingIsExactEver == Spec => []ListingIsExact
BY ListingIsExactNow, ListingInvariant, PTL

-----------------------------------------------------------------------------
(***************************************************************************)
(* Induction over lists, by the least-element principle: a set that has 0  *)
(* and, with n, also n + 1 has every natural number.                       *)
(***************************************************************************)
Less == {ss \in Nat \X Nat : ss[1] < ss[2]}

LEMMA LessWellFounded == IsWellFoundedOn(Less, Nat)
BY NatLessThanWellFounded DEF OpToRel, Less

LEMMA LeastElement ==
  ASSUME NEW T, T \subseteq Nat, T # {}
  PROVE  \E x \in T : \A y \in T : x <= y
<1>1. PICK x \in T : \A y \in T : <<y, x>> \notin Less
  BY LessWellFounded, WFMin
<1>2. ASSUME NEW y \in T PROVE x <= y
  <2>1. ~ (y < x)
    BY <1>1 DEF Less
  <2>3. QED
    BY <2>1
<1>3. QED
  BY <1>2

(* To be cited with the set of all numbers for which a formula is true.     *)
LEMMA Induction ==
  ASSUME NEW T, 0 \in T, \A n \in Nat : n \in T => n + 1 \in T
  PROVE  Nat \subseteq T
<1> SUFFICES ASSUME Nat \ T # {} PROVE FALSE
  OBVIOUS
<1>1. PICK x \in Nat \ T : \A y \in Nat \ T : x <= y
  BY LeastElement
<1>2. x # 0 /\ x - 1 \in Nat
  BY SMT
<1>3. x - 1 \in T
  BY <1>1, <1>2
<1>4. QED
  BY <1>2, <1>3

LEMMA MaxOfIndices ==
  ASSUME NEW n \in Nat, NEW s \in SUBSET (1 .. n), s # {}
  PROVE  Max(s) \in s /\ \A i \in s : i <= Max(s)
<1> DEFINE T == {n - i : i \in s}
<1>0. ASSUME NEW i \in s PROVE n - i \in Nat
  BY SMT
<1>1. T \subseteq Nat /\ T # {}
  BY <1>0
<1>2. PICK x \in T : \A y \in T : x <= y
  BY <1>1, LeastElement
<1>3. PICK i \in s : x = n - i
  BY <1>2
<1>4. \A j \in s : n - i <= n - j
  BY <1>2, <1>3
<1>5. \A j \in s : i >= j
  BY <1>4
<1>6. QED
  BY <1>5 DEF Max

-----------------------------------------------------------------------------
(***************************************************************************)
(* FoldLeft recurses over the subsets of the indices, from the largest one *)
(* down.  f folds the subsets of 1 .. n with the function step.            *)
(***************************************************************************)
Folds(f, step, first, seq, n) ==
  \A s \in SUBSET (1 .. n) :
    f[s] = IF s = {} THEN first ELSE step[<<f[s \ {Max(s)}], seq[Max(s)]>>]

(* The recursive definition of a fold defines something.                    *)
LEMMA FoldExists ==
  ASSUME NEW S, NEW E, NEW step \in [S \X E -> S], NEW first \in S, NEW seq \in Seq(E)
  PROVE  \E f \in [SUBSET (1 .. Len(seq)) -> S] : Folds(f, step, first, seq, Len(seq))
<1> DEFINE P(n) == n <= Len(seq) =>
                     \E f \in [SUBSET (1 .. n) -> S] : Folds(f, step, first, seq, n)
           T == {n \in Nat : P(n)}
<1>1. P(0)
  <2> DEFINE f == [s \in SUBSET (1 .. 0) |-> first]
  <2>1. f \in [SUBSET (1 .. 0) -> S] /\ Folds(f, step, first, seq, 0)
    BY DEF Folds
  <2>2. QED
    BY <2>1
<1>2. ASSUME NEW n \in Nat, P(n) PROVE P(n + 1)
  <2> SUFFICES ASSUME n + 1 <= Len(seq)
               PROVE  \E f \in [SUBSET (1 .. n + 1) -> S] : Folds(f, step, first, seq, n + 1)
    OBVIOUS
  <2>0. n <= Len(seq) /\ n + 1 \in Nat
    BY SMT
  <2>1. PICK f \in [SUBSET (1 .. n) -> S] : Folds(f, step, first, seq, n)
    BY <1>2, <2>0, Zenon
  <2> DEFINE x == seq[n + 1]
             g == [s \in SUBSET (1 .. n + 1) |->
                     IF n + 1 \in s THEN step[<<f[s \ {n + 1}], x>>] ELSE f[s]]
  <2>2. x \in E
    OBVIOUS
  <2>3. ASSUME NEW s \in SUBSET (1 .. n + 1)
        PROVE  /\ n + 1 \in s => s \ {n + 1} \in SUBSET (1 .. n) /\ Max(s) = n + 1
               /\ n + 1 \notin s => s \in SUBSET (1 .. n)
    <3>1. n + 1 \in s => s \ {n + 1} \in SUBSET (1 .. n)
      OBVIOUS
    <3>2. ASSUME n + 1 \in s PROVE Max(s) = n + 1
      <4>1. Max(s) \in s /\ n + 1 <= Max(s)
        <5>1. s # {} /\ s \in SUBSET (1 .. n + 1)
          BY <3>2
        <5>2. QED
          BY <2>0, <3>2, <5>1, MaxOfIndices
      <4>2. Max(s) \in 1 .. n + 1
        BY <4>1
      <4>3. QED
        BY <2>0, <4>1, <4>2
    <3>3. n + 1 \notin s => s \in SUBSET (1 .. n)
      OBVIOUS
    <3>4. QED
      BY <3>1, <3>2, <3>3
  <2>4. g \in [SUBSET (1 .. n + 1) -> S]
    <3>1. ASSUME NEW s \in SUBSET (1 .. n + 1)
          PROVE  (IF n + 1 \in s THEN step[<<f[s \ {n + 1}], x>>] ELSE f[s]) \in S
      BY <2>1, <2>2, <2>3
    <3>2. QED
      BY <3>1
  <2>5. ASSUME NEW s \in SUBSET (1 .. n + 1)
        PROVE  g[s] = IF s = {} THEN first ELSE step[<<g[s \ {Max(s)}], seq[Max(s)]>>]
    <3>1. CASE n + 1 \in s
      <4>1. g[s] = step[<<f[s \ {n + 1}], x>>] /\ Max(s) = n + 1 /\ s # {}
        BY <2>3, <3>1
      <4>2. g[s \ {n + 1}] = f[s \ {n + 1}]
        OBVIOUS
      <4>3. QED
        BY <4>1, <4>2
    <3>2. CASE n + 1 \notin s
      <4>1. s \in SUBSET (1 .. n) /\ g[s] = f[s]
        BY <2>3, <3>2
      <4>2. f[s] = IF s = {} THEN first ELSE step[<<f[s \ {Max(s)}], seq[Max(s)]>>]
        BY <2>1, <4>1 DEF Folds
      <4>3. g[s \ {Max(s)}] = f[s \ {Max(s)}]
        BY <3>2
      <4>4. QED
        BY <4>1, <4>2, <4>3
    <3>3. QED
      BY <3>1, <3>2
  <2> HIDE DEF g
  <2>6. QED
    BY <2>4, <2>5 DEF Folds
<1> HIDE DEF P
<1>3. Nat \subseteq T
  <2>1. 0 \in T
    BY <1>1
  <2>2. \A n \in Nat : n \in T => n + 1 \in T
    BY <1>2
  <2> HIDE DEF T
  <2>3. QED
    BY <2>1, <2>2, Induction
<1>4. P(Len(seq))
  BY <1>3
<1>5. Len(seq) <= Len(seq)
  OBVIOUS
<1>6. QED
  BY <1>4, <1>5, Zenon DEF P

(* The indices of a sequence are taken from the last one down to the first. *)
LEMMA LastIndex ==
  ASSUME NEW i \in Nat, i # 0
  PROVE  Max(1 .. i) = i /\ (1 .. i) \ {i} = 1 .. i - 1 /\ 1 .. i # {}
<1>1. i \in 1 .. i
  OBVIOUS
<1>2. Max(1 .. i) \in 1 .. i /\ i <= Max(1 .. i)
  BY <1>1, MaxOfIndices
<1>3. QED
  BY <1>1, <1>2

LEMMA BoundedInduction ==
  ASSUME NEW n \in Nat, NEW T, 0 \in T, \A i \in 1 .. n : i - 1 \in T => i \in T
  PROVE  0 .. n \subseteq T
<1> DEFINE U == {i \in Nat : i <= n => i \in T}
<1>1. 0 \in U
  OBVIOUS
<1>2. ASSUME NEW i \in Nat, i \in U PROVE i + 1 \in U
  <2> SUFFICES ASSUME i + 1 <= n PROVE i + 1 \in T
    OBVIOUS
  <2>1. i + 1 \in 1 .. n /\ (i + 1) - 1 = i /\ i <= n
    OBVIOUS
  <2>2. i \in T
    BY <1>2, <2>1
  <2>3. QED
    BY <2>1, <2>2
<1>3. Nat \subseteq U
  <2> HIDE DEF U
  <2>1. QED
    BY <1>1, <1>2, Induction
<1>4. QED
  BY <1>3

(* What a recursive function that folds is known to do before its type is.  *)
FoldsWithin(S, f, step, first, seq) ==
  /\ f[{}] = first
  /\ \A s \in SUBSET (1 .. Len(seq)) : s # {} /\ f[s \ {Max(s)}] \in S =>
       f[s] = step[<<f[s \ {Max(s)}], seq[Max(s)]>>]

(* r[i] is the fold of the first i elements.                                *)
Rounds(r, step, first, seq, last) ==
  /\ r[0] = first /\ r[Len(seq)] = last
  /\ \A i \in 1 .. Len(seq) : r[i] = step[<<r[i - 1], seq[i]>>]

(* The fold, round by round. *)
LEMMA FoldRounds ==
  ASSUME NEW S, NEW E, NEW step \in [S \X E -> S], NEW first \in S, NEW seq \in Seq(E),
         NEW f, FoldsWithin(S, f, step, first, seq)
  PROVE  \E r \in [0 .. Len(seq) -> S] : Rounds(r, step, first, seq, f[1 .. Len(seq)])
<1> DEFINE r == [i \in 0 .. Len(seq) |-> f[1 .. i]]
           T == {i \in 0 .. Len(seq) : r[i] \in S}
<1>1. r[0] = first
  <2>1. 1 .. 0 = {} /\ r[0] = f[1 .. 0]
    OBVIOUS
  <2>2. QED
    BY <2>1 DEF FoldsWithin
<1>2. ASSUME NEW i \in 1 .. Len(seq), r[i - 1] \in S
      PROVE  r[i] = step[<<r[i - 1], seq[i]>>]
  <2>1. Max(1 .. i) = i /\ (1 .. i) \ {i} = 1 .. i - 1 /\ 1 .. i # {}
    BY LastIndex
  <2>2. r[i] = f[1 .. i] /\ r[i - 1] = f[1 .. i - 1]
    OBVIOUS
  <2>3. 1 .. i \in SUBSET (1 .. Len(seq))
    OBVIOUS
  <2> HIDE DEF r
  <2>4. QED
    BY <1>2, <2>1, <2>2, <2>3 DEF FoldsWithin
<1>3. 0 .. Len(seq) \subseteq T
  <2>1. 0 \in T
    BY <1>1
  <2>2. ASSUME NEW i \in 1 .. Len(seq), i - 1 \in T PROVE i \in T
    <3> HIDE DEF r
    <3>1. r[i] = step[<<r[i - 1], seq[i]>>] /\ r[i - 1] \in S /\ seq[i] \in E
      BY <1>2, <2>2
    <3>2. QED
      BY <3>1
  <2> HIDE DEF T
  <2>3. Len(seq) \in Nat
    OBVIOUS
  <2>4. QED
    BY <2>1, <2>2, <2>3, BoundedInduction
<1>4. \A i \in 0 .. Len(seq) : r[i] \in S
  <2> HIDE DEF r
  <2>1. QED
    BY <1>3
<1>5. r \in [0 .. Len(seq) -> S]
  BY <1>4
<1>6. \A i \in 1 .. Len(seq) : i - 1 \in 0 .. Len(seq)
  OBVIOUS
<1>7. r[Len(seq)] = f[1 .. Len(seq)]
  OBVIOUS
<1> HIDE DEF r
<1>8. QED
  BY <1>1, <1>2, <1>4, <1>5, <1>6, <1>7 DEF Rounds

-----------------------------------------------------------------------------
(* The loop of ServerResourceForGroupVersionKind.                           *)
Answers == {"NotFound", "found", "MethodNotSupported"}

(* The answer after each round of FindResource.                             *)
Matched(r, l, kind, verb) ==
  /\ r[0] = "NotFound" /\ r[Len(l)] = FindResource(l, kind, verb)
  /\ \A i \in 1 .. Len(l) : r[i] = Match(r[i - 1], l[i], kind, verb)

LEMMA ResourceRounds ==
  ASSUME NEW l \in Seq(APIResources), NEW kind, NEW verb
  PROVE  \E r \in [0 .. Len(l) -> Answers] : Matched(r, l, kind, verb)
<1> DEFINE step == [x \in Answers \X APIResources |-> Match(x[1], x[2], kind, verb)]
<1>1. step \in [Answers \X APIResources -> Answers] /\ "NotFound" \in Answers
  BY DEF Match, Answers
<1>2. PICK f \in [SUBSET (1 .. Len(l)) -> Answers] : Folds(f, step, "NotFound", l, Len(l))
  BY <1>1, FoldExists
<1> DEFINE Loop(g) == g = [s \in SUBSET (DOMAIN l) |-> IF s = {} THEN "NotFound"
                             ELSE Match(g[s \ {Max(s)}], l[Max(s)], kind, verb)]
           iter == CHOOSE g : Loop(g)
<1>3. FindResource(l, kind, verb) = iter[DOMAIN l]
  BY DEF FindResource, FoldLeft, MapThenFoldSet
<1>4. DOMAIN l = 1 .. Len(l) /\ Len(l) \in Nat
  OBVIOUS
<1>5. ASSUME NEW s \in SUBSET (DOMAIN l), s # {} PROVE l[Max(s)] \in APIResources
  <2>1. Max(s) \in DOMAIN l
    BY <1>4, <1>5, MaxOfIndices
  <2>2. QED
    BY <2>1
<1>6. Loop(f)
  <2>1. ASSUME NEW s \in SUBSET (DOMAIN l), s # {}
        PROVE  f[s] = Match(f[s \ {Max(s)}], l[Max(s)], kind, verb)
    <3>1. f[s \ {Max(s)}] \in Answers /\ l[Max(s)] \in APIResources
      BY <1>2, <1>4, <1>5, <2>1
    <3>2. f[s] = step[<<f[s \ {Max(s)}], l[Max(s)]>>]
      BY <1>2, <1>4, <2>1 DEF Folds
    <3>3. QED
      BY <3>1, <3>2
  <2>2. f[{}] = "NotFound"
    BY <1>2, <1>4 DEF Folds
  <2>3. QED
    BY <1>2, <1>4, <2>1, <2>2
<1>7. Loop(iter)
  <2> HIDE DEF Loop
  <2>1. QED
    BY <1>6, Zenon
<1> HIDE DEF iter
<1>8. iter[{}] = "NotFound"
  BY <1>7
<1>9. ASSUME NEW s \in SUBSET (1 .. Len(l)), s # {}, iter[s \ {Max(s)}] \in Answers
      PROVE  iter[s] = step[<<iter[s \ {Max(s)}], l[Max(s)]>>]
  BY <1>4, <1>5, <1>7, <1>9
<1>10. PICK r \in [0 .. Len(l) -> Answers] : Rounds(r, step, "NotFound", l, iter[1 .. Len(l)])
  <2>1. FoldsWithin(Answers, iter, step, "NotFound", l)
    BY <1>8, <1>9 DEF FoldsWithin
  <2> HIDE DEF step
  <2>2. QED
    BY <1>1, <2>1, FoldRounds
<1>11. ASSUME NEW i \in 1 .. Len(l) PROVE r[i] = Match(r[i - 1], l[i], kind, verb)
  <2>1. r[i - 1] \in Answers /\ l[i] \in APIResources
    OBVIOUS
  <2>2. QED
    BY <1>10, <2>1 DEF Rounds
<1>12. QED
  BY <1>3, <1>4, <1>10, <1>11 DEF Rounds, Matched

(* What is found is that of the whole list, whatever its length.            *)
LEMMA Resolves ==
  ASSUME NEW l \in Seq(APIResources), NEW kind, NEW verb
  PROVE  LET same == {r \in ToSet(l) : r.kind = kind} IN
         FindResource(l, kind, verb) =
           IF \E r \in same : verb \in r.verbs \cup {"", "*"} THEN "found"
           ELSE IF same = {} THEN "NotFound" ELSE "MethodNotSupported"
<1>0. PICK a \in [0 .. Len(l) -> Answers] : Matched(a, l, kind, verb)
  BY ResourceRounds
<1>1. /\ a[0] = "NotFound" /\ a[Len(l)] = FindResource(l, kind, verb)
      /\ \A i \in 1 .. Len(l) : a[i] = Match(a[i - 1], l[i], kind, verb)
  BY <1>0 DEF Matched
<1> DEFINE Same(i) == {j \in 1 .. i : l[j].kind = kind}
           Right(i) == /\ a[i] = "found" <=> \E j \in Same(i) : verb \in l[j].verbs \cup {"", "*"}
                       /\ a[i] = "NotFound" <=> Same(i) = {}
           T == {i \in 0 .. Len(l) : Right(i)}
<1>2. Right(0)
  <2>1. Same(0) = {}
    OBVIOUS
  <2>2. QED
    BY <1>1, <2>1
<1>3. ASSUME NEW i \in 1 .. Len(l), Right(i - 1) PROVE Right(i)
  <2>1. Same(i) = IF l[i].kind = kind THEN Same(i - 1) \cup {i} ELSE Same(i - 1)
    OBVIOUS
  <2> HIDE DEF Same
  <2>2. a[i] = Match(a[i - 1], l[i], kind, verb) /\ a[i - 1] \in Answers
    BY <1>1
  <2>3. QED
    BY <1>3, <2>1, <2>2 DEF Match, isSupportedVerb, Answers
<1>4. Right(Len(l))
  <2> HIDE DEF Right
  <2>1. 0 \in T /\ Len(l) \in Nat
    BY <1>2
  <2>2. \A i \in 1 .. Len(l) : i - 1 \in T => i \in T
    BY <1>3
  <2> HIDE DEF T
  <2>3. 0 .. Len(l) \subseteq T
    BY <2>1, <2>2, BoundedInduction
  <2>4. Len(l) \in T
    BY <2>1, <2>3
  <2>5. QED
    BY <2>4 DEF T
<1> DEFINE same == {r \in ToSet(l) : r.kind = kind}
<1>5. /\ \A j \in Same(Len(l)) : l[j] \in same
      /\ \A r \in same : \E j \in Same(Len(l)) : r = l[j]
  BY DEF ToSet
<1>6. a[Len(l)] \in Answers
  BY <1>1
<1> HIDE DEF same, Same
<1>7. FindResource(l, kind, verb) =
        IF \E r \in same : verb \in r.verbs \cup {"", "*"} THEN "found"
        ELSE IF same = {} THEN "NotFound" ELSE "MethodNotSupported"
  BY <1>1, <1>4, <1>5, <1>6 DEF Answers
<1>8. QED
  BY <1>7 DEF same

LEMMA BoundedLists == ASSUME NEW S, NEW n \in Nat PROVE SeqOf(S, n) \subseteq Seq(S)
<1> SUFFICES ASSUME NEW m \in 0 .. n, NEW l \in [1 .. m -> S] PROVE l \in Seq(S)
  BY DEF SeqOf
<1>1. QED
  OBVIOUS

(* A kind and a verb are resolved wherever in the list the resource is that *)
(* supports them, whatever else has the kind.                               *)
THEOREM ResolvesAnywhereEver == Spec => []ResolvesAnywhere
<1>1. ResolvesAnywhere
  <2> SUFFICES ASSUME NEW l \in SeqOf(APIResources, 3),
                      NEW kind \in {"Deployment", "Scale"}, NEW verb \in Asked
               PROVE  LET same == {r \in ToSet(l) : r.kind = kind} IN
                      ServerResource(TRUE, l, kind, verb) =
                        IF \E r \in same : verb \in r.verbs \cup {"", "*"} THEN "found"
                        ELSE IF same = {} THEN "NotFound" ELSE "MethodNotSupported"
    BY DEF ResolvesAnywhere
  <2>1. l \in Seq(APIResources)
    BY BoundedLists
  <2>2. ServerResource(TRUE, l, kind, verb) = FindResource(l, kind, verb)
    BY DEF ServerResource
  <2>3. LET same == {r \in ToSet(l) : r.kind = kind} IN
        FindResource(l, kind, verb) =
          IF \E r \in same : verb \in r.verbs \cup {"", "*"} THEN "found"
          ELSE IF same = {} THEN "NotFound" ELSE "MethodNotSupported"
    BY <2>1, Resolves, Zenon
  <2>4. QED
    BY <2>2, <2>3
<1>2. QED
  BY <1>1, PTL

-----------------------------------------------------------------------------
(* The two loops of DiffResources.                                          *)
Tables == UNION {[K -> SpecValues] : K \in SUBSET Kinds}

Put(t, c) == [k \in DOMAIN t \cup {Key(c)} |-> IF k = Key(c) THEN c.spec ELSE t[k]]

EmptyTable == [k \in {} |-> Nobody]

LEMMA PutInTable ==
  ASSUME NEW t \in Tables, NEW c \in Items
  PROVE  /\ Put(t, c) \in Tables /\ DOMAIN Put(t, c) = DOMAIN t \cup {c.kind}
         /\ Put(t, c)[c.kind] = c.spec
         /\ \A k \in DOMAIN t \ {c.kind} : Put(t, c)[k] = t[k]
<1>1. PICK K \in SUBSET Kinds : t \in [K -> SpecValues]
  BY DEF Tables
<1>2. c.kind \in Kinds /\ c.spec \in SpecValues
  BY DEF Items
<1>3. Put(t, c) \in [K \cup {c.kind} -> SpecValues] /\ K \cup {c.kind} \in SUBSET Kinds
  BY <1>1, <1>2 DEF Put, Key
<1>4. QED
  BY <1>1, <1>3 DEF Put, Key, Tables

(* The hash table after each round of the first loop of DiffResources.      *)
Filled(r, current) ==
  /\ r[0] = EmptyTable /\ r[Len(current)] = HashTable(current)
  /\ \A i \in 1 .. Len(current) : r[i] = Put(r[i - 1], current[i])

LEMMA TableRounds ==
  ASSUME NEW l \in Seq(Items)
  PROVE  \E r \in [0 .. Len(l) -> Tables] : Filled(r, l)
<1> DEFINE step == [x \in Tables \X Items |-> Put(x[1], x[2])]
<1>1. step \in [Tables \X Items -> Tables]
  BY PutInTable
<1>a. EmptyTable \in Tables
  <2>1. EmptyTable \in [{} -> SpecValues]
    BY DEF EmptyTable
  <2>2. QED
    BY <2>1 DEF Tables
<1>2. PICK f \in [SUBSET (1 .. Len(l)) -> Tables] : Folds(f, step, EmptyTable, l, Len(l))
  <2> HIDE DEF step
  <2>1. QED
    BY <1>1, <1>a, FoldExists
<1> DEFINE Loop(g) == g = [s \in SUBSET (DOMAIN l) |-> IF s = {} THEN EmptyTable
                             ELSE Put(g[s \ {Max(s)}], l[Max(s)])]
           iter == CHOOSE g : Loop(g)
<1>3. HashTable(l) = iter[DOMAIN l]
  BY DEF HashTable, FoldLeft, MapThenFoldSet, Put, EmptyTable
<1>4. DOMAIN l = 1 .. Len(l) /\ Len(l) \in Nat
  OBVIOUS
<1>5. ASSUME NEW s \in SUBSET (DOMAIN l), s # {} PROVE l[Max(s)] \in Items
  <2>1. Max(s) \in DOMAIN l
    BY <1>4, <1>5, MaxOfIndices
  <2>2. QED
    BY <2>1
<1>6. Loop(f)
  <2>1. ASSUME NEW s \in SUBSET (DOMAIN l), s # {}
        PROVE  f[s] = Put(f[s \ {Max(s)}], l[Max(s)])
    <3>1. f[s \ {Max(s)}] \in Tables /\ l[Max(s)] \in Items
      BY <1>2, <1>4, <1>5, <2>1
    <3>2. f[s] = step[<<f[s \ {Max(s)}], l[Max(s)]>>]
      BY <1>2, <1>4, <2>1 DEF Folds
    <3>3. QED
      BY <3>1, <3>2
  <2>2. f[{}] = EmptyTable
    BY <1>2, <1>4 DEF Folds
  <2>3. QED
    BY <1>2, <1>4, <2>1, <2>2
<1>7. Loop(iter)
  <2> HIDE DEF Loop
  <2>1. QED
    BY <1>6, Zenon
<1> HIDE DEF iter
<1>8. iter[{}] = EmptyTable
  BY <1>7
<1>9. ASSUME NEW s \in SUBSET (1 .. Len(l)), s # {}, iter[s \ {Max(s)}] \in Tables
      PROVE  iter[s] = step[<<iter[s \ {Max(s)}], l[Max(s)]>>]
  BY <1>4, <1>5, <1>7, <1>9
<1>10. PICK r \in [0 .. Len(l) -> Tables] : Rounds(r, step, EmptyTable, l, iter[1 .. Len(l)])
  <2>1. FoldsWithin(Tables, iter, step, EmptyTable, l)
    BY <1>8, <1>9 DEF FoldsWithin
  <2> HIDE DEF step
  <2>2. QED
    BY <1>1, <1>a, <2>1, FoldRounds
<1>11. ASSUME NEW i \in 1 .. Len(l) PROVE r[i] = Put(r[i - 1], l[i])
  <2>1. r[i - 1] \in Tables /\ l[i] \in Items
    OBVIOUS
  <2>2. QED
    BY <1>10, <2>1 DEF Rounds
<1>12. QED
  BY <1>3, <1>4, <1>10, <1>11 DEF Rounds, Filled

(* The slice has its last object of the kind k at the index i.               *)
LastOfKind(l, k, i) == l[i].kind = k /\ \A j \in i + 1 .. Len(l) : l[j].kind # k

(* The hash table has the kinds of the slice, each with its last spec.       *)
LEMMA TableOf ==
  ASSUME NEW l \in Seq(Items)
  PROVE  /\ HashTable(l) \in Tables
         /\ DOMAIN HashTable(l) = {o.kind : o \in ToSet(l)}
         /\ \A k \in DOMAIN HashTable(l) : \E i \in 1 .. Len(l) :
              LastOfKind(l, k, i) /\ HashTable(l)[k] = l[i].spec
<1>0. PICK r \in [0 .. Len(l) -> Tables] : Filled(r, l)
  BY TableRounds
<1>1. /\ r[0] = EmptyTable /\ r[Len(l)] = HashTable(l)
      /\ \A i \in 1 .. Len(l) : r[i] = Put(r[i - 1], l[i])
  BY <1>0 DEF Filled
<1> DEFINE LastAt(i, k, m) == /\ l[m].kind = k /\ r[i][k] = l[m].spec
                              /\ \A j \in m + 1 .. i : l[j].kind # k
           Right(i) == /\ DOMAIN r[i] = {l[m].kind : m \in 1 .. i}
                       /\ \A k \in DOMAIN r[i] : \E m \in 1 .. i : LastAt(i, k, m)
           T == {i \in 0 .. Len(l) : Right(i)}
<1>2. Right(0)
  BY <1>1 DEF EmptyTable
<1>3. ASSUME NEW i \in 1 .. Len(l), Right(i - 1) PROVE Right(i)
  <2>1. r[i - 1] \in Tables /\ l[i] \in Items /\ r[i] = Put(r[i - 1], l[i])
    BY <1>1
  <2>2. /\ DOMAIN r[i] = DOMAIN r[i - 1] \cup {l[i].kind}
        /\ r[i][l[i].kind] = l[i].spec
        /\ \A k \in DOMAIN r[i - 1] \ {l[i].kind} : r[i][k] = r[i - 1][k]
    BY <2>1, PutInTable
  <2>3. 1 .. i = (1 .. i - 1) \cup {i}
    OBVIOUS
  <2>4. DOMAIN r[i] = {l[m].kind : m \in 1 .. i}
    BY <1>3, <2>2, <2>3
  <2>5. ASSUME NEW k \in DOMAIN r[i] PROVE \E m \in 1 .. i : LastAt(i, k, m)
    <3>1. CASE k = l[i].kind
      <4>1. LastAt(i, k, i) /\ i \in 1 .. i
        BY <2>2, <3>1
      <4>2. QED
        BY <4>1
    <3>2. CASE k # l[i].kind
      <4>1. k \in DOMAIN r[i - 1] /\ r[i][k] = r[i - 1][k]
        BY <2>2, <3>2
      <4>2. PICK m \in 1 .. i - 1 : LastAt(i - 1, k, m)
        BY <1>3, <4>1
      <4>3. \A j \in m + 1 .. i : j = i \/ j \in m + 1 .. i - 1
        OBVIOUS
      <4>4. LastAt(i, k, m) /\ m \in 1 .. i
        BY <3>2, <4>1, <4>2, <4>3
      <4>5. QED
        BY <4>4
    <3>3. QED
      BY <3>1, <3>2
  <2>6. QED
    BY <2>4, <2>5
<1>4. Right(Len(l))
  <2> HIDE DEF Right
  <2>1. 0 \in T /\ Len(l) \in Nat
    BY <1>2
  <2>2. \A i \in 1 .. Len(l) : i - 1 \in T => i \in T
    BY <1>3
  <2> HIDE DEF T
  <2>3. 0 .. Len(l) \subseteq T
    BY <2>1, <2>2, BoundedInduction
  <2>4. Len(l) \in T
    BY <2>1, <2>3
  <2>5. QED
    BY <2>4 DEF T
<1>5. HashTable(l) \in Tables
  BY <1>1
<1>6. {l[m].kind : m \in 1 .. Len(l)} = {o.kind : o \in ToSet(l)}
  BY DEF ToSet
<1>7. ASSUME NEW k \in DOMAIN HashTable(l)
      PROVE  \E i \in 1 .. Len(l) : LastOfKind(l, k, i) /\ HashTable(l)[k] = l[i].spec
  <2>1. PICK m \in 1 .. Len(l) : LastAt(Len(l), k, m)
    BY <1>1, <1>4
  <2>2. LastOfKind(l, k, m) /\ HashTable(l)[k] = l[m].spec
    BY <1>1, <2>1 DEF LastOfKind
  <2>3. QED
    BY <2>2
<1>8. DOMAIN HashTable(l) = {o.kind : o \in ToSet(l)}
  BY <1>1, <1>4, <1>6
<1>9. QED
  BY <1>5, <1>7, <1>8

ManifestSpecs == [kind : Kinds, spec : SpecValues]
Comparisons == [table : Tables, changed : BOOLEAN]

(* The comparison c is d after one more manifest.                            *)
After(c, d, n) ==
  /\ DOMAIN c.table = DOMAIN d.table \ {n.kind}
  /\ \A k \in DOMAIN d.table \ {n.kind} : c.table[k] = d.table[k]
  /\ c.changed <=> d.changed \/ n.kind \notin DOMAIN d.table \/ d.table[n.kind] # n.spec

LEMMA CompareOne ==
  ASSUME NEW d \in Comparisons, NEW n \in ManifestSpecs
  PROVE  Compare(d, n) \in Comparisons /\ After(Compare(d, n), d, n)
<1>1. PICK K \in SUBSET Kinds : d.table \in [K -> SpecValues]
  BY DEF Tables, Comparisons
<1> DEFINE t == [k \in DOMAIN d.table \ {Key(n)} |-> d.table[k]]
<1>2. t \in [K \ {n.kind} -> SpecValues] /\ K \ {n.kind} \in SUBSET Kinds
  BY <1>1 DEF Key
<1>3. t \in Tables
  BY <1>2 DEF Tables
<1>4. Compare(d, n).table = t /\ DOMAIN t = DOMAIN d.table \ {n.kind}
  BY DEF Compare, Key
<1>5. Compare(d, n).changed <=>
        d.changed \/ n.kind \notin DOMAIN d.table \/ d.table[n.kind] # n.spec
  BY DEF Compare, Key
<1>6. Compare(d, n) \in Comparisons
  BY <1>3 DEF Compare, Comparisons
<1>7. QED
  BY <1>4, <1>5, <1>6 DEF Key, After

(* What is compared after each round of the second loop of DiffResources.   *)
Compared(r, table, new) ==
  /\ r[0] = [table |-> table, changed |-> FALSE]
  /\ r[Len(new)] = FoldLeft(Compare, [table |-> table, changed |-> FALSE], new)
  /\ \A i \in 1 .. Len(new) : r[i] = Compare(r[i - 1], new[i])

LEMMA CompareRounds ==
  ASSUME NEW table \in Tables, NEW l \in Seq(ManifestSpecs)
  PROVE  \E r \in [0 .. Len(l) -> Comparisons] : Compared(r, table, l)
<1> DEFINE step == [x \in Comparisons \X ManifestSpecs |-> Compare(x[1], x[2])]
           first == [table |-> table, changed |-> FALSE]
<1>1. step \in [Comparisons \X ManifestSpecs -> Comparisons]
  BY CompareOne
<1>a. first \in Comparisons
  BY DEF Comparisons
<1>2. PICK f \in [SUBSET (1 .. Len(l)) -> Comparisons] : Folds(f, step, first, l, Len(l))
  <2> HIDE DEF step, first
  <2>1. QED
    BY <1>1, <1>a, FoldExists
<1> DEFINE Loop(g) == g = [s \in SUBSET (DOMAIN l) |-> IF s = {} THEN first
                             ELSE Compare(g[s \ {Max(s)}], l[Max(s)])]
           iter == CHOOSE g : Loop(g)
<1>3. FoldLeft(Compare, first, l) = iter[DOMAIN l]
  BY DEF FoldLeft, MapThenFoldSet
<1> HIDE DEF first
<1>4. DOMAIN l = 1 .. Len(l) /\ Len(l) \in Nat
  OBVIOUS
<1>5. ASSUME NEW s \in SUBSET (DOMAIN l), s # {} PROVE l[Max(s)] \in ManifestSpecs
  <2>1. Max(s) \in DOMAIN l
    BY <1>4, <1>5, MaxOfIndices
  <2>2. QED
    BY <2>1
<1>6. Loop(f)
  <2>1. ASSUME NEW s \in SUBSET (DOMAIN l), s # {}
        PROVE  f[s] = Compare(f[s \ {Max(s)}], l[Max(s)])
    <3>1. f[s \ {Max(s)}] \in Comparisons /\ l[Max(s)] \in ManifestSpecs
      BY <1>2, <1>4, <1>5, <2>1
    <3>2. f[s] = step[<<f[s \ {Max(s)}], l[Max(s)]>>]
      BY <1>2, <1>4, <2>1 DEF Folds
    <3>3. QED
      BY <3>1, <3>2
  <2>2. f[{}] = first
    BY <1>2, <1>4 DEF Folds
  <2>3. QED
    BY <1>2, <1>4, <2>1, <2>2
<1>7. Loop(iter)
  <2> HIDE DEF Loop
  <2>1. QED
    BY <1>6, Zenon
<1> HIDE DEF iter
<1>8. iter[{}] = first
  BY <1>7
<1>9. ASSUME NEW s \in SUBSET (1 .. Len(l)), s # {}, iter[s \ {Max(s)}] \in Comparisons
      PROVE  iter[s] = step[<<iter[s \ {Max(s)}], l[Max(s)]>>]
  BY <1>4, <1>5, <1>7, <1>9
<1>10. PICK r \in [0 .. Len(l) -> Comparisons] : Rounds(r, step, first, l, iter[1 .. Len(l)])
  <2>1. FoldsWithin(Comparisons, iter, step, first, l)
    BY <1>8, <1>9 DEF FoldsWithin
  <2> HIDE DEF step
  <2>2. QED
    BY <1>1, <1>a, <2>1, FoldRounds
<1>11. ASSUME NEW i \in 1 .. Len(l) PROVE r[i] = Compare(r[i - 1], l[i])
  <2>1. r[i - 1] \in Comparisons /\ l[i] \in ManifestSpecs
    OBVIOUS
  <2>2. QED
    BY <1>10, <2>1 DEF Rounds
<1>12. r[0] = first /\ r[Len(l)] = FoldLeft(Compare, first, l)
  BY <1>3, <1>4, <1>10 DEF Rounds
<1>13. QED
  BY <1>11, <1>12 DEF Compared, first

(* Manifests take their entries out, and are a change without an equal one.  *)
Outcome(d, table, l) ==
  /\ DOMAIN d.table = DOMAIN table \ {n.kind : n \in ToSet(l)}
  /\ ~ d.changed => \A n \in ToSet(l) : n.kind \in DOMAIN table /\ table[n.kind] = n.spec
  /\ d.changed => \E i \in 1 .. Len(l) :
       \/ l[i].kind \notin DOMAIN table \/ table[l[i].kind] # l[i].spec
       \/ \E j \in 1 .. i - 1 : l[j].kind = l[i].kind

LEMMA ComparedAll ==
  ASSUME NEW table \in Tables, NEW l \in Seq(ManifestSpecs)
  PROVE  Outcome(FoldLeft(Compare, [table |-> table, changed |-> FALSE], l), table, l)
<1>0. PICK r \in [0 .. Len(l) -> Comparisons] : Compared(r, table, l)
  BY CompareRounds
<1> DEFINE first == [table |-> table, changed |-> FALSE]
           Taken(i) == {l[j].kind : j \in 1 .. i}
           Same(i) == l[i].kind \in DOMAIN table /\ table[l[i].kind] = l[i].spec
           Right(i) == /\ DOMAIN r[i].table = DOMAIN table \ Taken(i)
                       /\ \A k \in DOMAIN r[i].table : r[i].table[k] = table[k]
                       /\ ~ r[i].changed => \A j \in 1 .. i : Same(j)
                       /\ r[i].changed => \E j \in 1 .. i : ~ Same(j) \/ l[j].kind \in Taken(j - 1)
           T == {i \in 0 .. Len(l) : Right(i)}
<1>1. /\ r[0] = first /\ r[Len(l)] = FoldLeft(Compare, first, l)
      /\ \A i \in 1 .. Len(l) : r[i] = Compare(r[i - 1], l[i])
  BY <1>0 DEF Compared
<1>2. Right(0)
  <2>1. r[0].table = table /\ r[0].changed = FALSE /\ Taken(0) = {}
    BY <1>1
  <2>2. QED
    BY <2>1
<1>3. ASSUME NEW i \in 1 .. Len(l), Right(i - 1) PROVE Right(i)
  <2> DEFINE n == l[i]
             d == r[i - 1]
  <2>1. d \in Comparisons /\ n \in ManifestSpecs /\ r[i] = Compare(d, n)
    BY <1>1
  <2> HIDE DEF d
  <2>2. /\ DOMAIN r[i].table = DOMAIN d.table \ {n.kind}
        /\ \A k \in DOMAIN d.table \ {n.kind} : r[i].table[k] = d.table[k]
        /\ r[i].changed <=> d.changed \/ n.kind \notin DOMAIN d.table \/ d.table[n.kind] # n.spec
    <3>1. After(r[i], d, n)
      BY <2>1, CompareOne
    <3>2. QED
      BY <3>1 DEF After
  <2>3. 1 .. i = (1 .. i - 1) \cup {i}
    OBVIOUS
  <2>4. Taken(i) = Taken(i - 1) \cup {n.kind}
    BY <2>3
  <2> HIDE DEF Taken
  <2>5. /\ DOMAIN r[i].table = DOMAIN table \ Taken(i)
        /\ \A k \in DOMAIN r[i].table : r[i].table[k] = table[k]
    BY <1>3, <2>2, <2>4 DEF d
  <2>6. ASSUME ~ r[i].changed PROVE \A j \in 1 .. i : Same(j)
    BY <1>3, <2>2, <2>3, <2>6 DEF d
  <2>7. ASSUME r[i].changed
        PROVE  \E j \in 1 .. i : ~ Same(j) \/ l[j].kind \in Taken(j - 1)
    <3>1. CASE d.changed
      <4>1. \E j \in 1 .. i - 1 : ~ Same(j) \/ l[j].kind \in Taken(j - 1)
        BY <1>3, <3>1 DEF d
      <4>2. QED
        BY <2>3, <4>1
    <3>2. CASE ~ d.changed
      <4>1. n.kind \notin DOMAIN d.table \/ d.table[n.kind] # n.spec
        BY <2>2, <2>7, <3>2
      <4>2. ~ Same(i) \/ l[i].kind \in Taken(i - 1)
        BY <1>3, <4>1 DEF d
      <4>3. QED
        BY <2>3, <4>2
    <3>3. QED
      BY <3>1, <3>2
  <2>8. QED
    BY <2>5, <2>6, <2>7
<1>4. Right(Len(l))
  <2> HIDE DEF Right
  <2>1. 0 \in T /\ Len(l) \in Nat
    BY <1>2
  <2>2. \A i \in 1 .. Len(l) : i - 1 \in T => i \in T
    BY <1>3
  <2> HIDE DEF T
  <2>3. 0 .. Len(l) \subseteq T
    BY <2>1, <2>2, BoundedInduction
  <2>4. Len(l) \in T
    BY <2>1, <2>3
  <2>5. QED
    BY <2>4 DEF T
<1> DEFINE d == FoldLeft(Compare, first, l)
<1>5. d = r[Len(l)]
  BY <1>1
<1> HIDE DEF d
<1>6. /\ Taken(Len(l)) = {n.kind : n \in ToSet(l)}
      /\ \A n \in ToSet(l) : \E j \in 1 .. Len(l) : n = l[j]
  BY DEF ToSet
<1>7. Outcome(d, table, l)
  <2>1. DOMAIN d.table = DOMAIN table \ {n.kind : n \in ToSet(l)}
    BY <1>4, <1>5, <1>6
  <2>2. ASSUME ~ d.changed, NEW n \in ToSet(l)
        PROVE  n.kind \in DOMAIN table /\ table[n.kind] = n.spec
    BY <1>4, <1>5, <1>6, <2>2
  <2>3. ASSUME d.changed
        PROVE  \E i \in 1 .. Len(l) :
                 \/ l[i].kind \notin DOMAIN table \/ table[l[i].kind] # l[i].spec
                 \/ \E j \in 1 .. i - 1 : l[j].kind = l[i].kind
    <3>1. PICK j \in 1 .. Len(l) : ~ Same(j) \/ l[j].kind \in Taken(j - 1)
      BY <1>4, <1>5, <2>3
    <3>2. QED
      BY <3>1
  <2>4. QED
    BY <2>1, <2>2, <2>3 DEF Outcome
<1>8. QED
  BY <1>7 DEF d

(* DiffResources says "no change" only if each manifest has an equal object, *)
(* and each object a manifest, whatever the length of the two lists.         *)
LEMMA DiffDecides ==
  ASSUME NEW current \in Seq(Items), NEW new \in Seq(ManifestSpecs)
  PROVE  /\ ~ DiffResources(current, new) =>
              /\ \A n \in ToSet(new) : \E o \in ToSet(current) :
                   o.kind = n.kind /\ o.spec = n.spec
              /\ \A o \in ToSet(current) : \E n \in ToSet(new) : o.kind = n.kind
         /\ /\ (\A o, p \in ToSet(current) : Key(o) = Key(p) => o.spec = p.spec)
            /\ IsInjective([i \in DOMAIN new |-> Key(new[i])])
            /\ DiffResources(current, new)
            => {<<Key(o), o.spec>> : o \in ToSet(current)} # {<<Key(n), n.spec>> : n \in ToSet(new)}
<1> DEFINE table == HashTable(current)
           d == FoldLeft(Compare, [table |-> table, changed |-> FALSE], new)
<1>1. /\ table \in Tables
      /\ DOMAIN table = {o.kind : o \in ToSet(current)}
      /\ \A k \in DOMAIN table : \E i \in 1 .. Len(current) :
           current[i].kind = k /\ table[k] = current[i].spec
  <2>1. HashTable(current) \in Tables
    BY TableOf
  <2>2. DOMAIN HashTable(current) = {o.kind : o \in ToSet(current)}
    BY TableOf
  <2>3. \A k \in DOMAIN HashTable(current) : \E i \in 1 .. Len(current) :
          LastOfKind(current, k, i) /\ HashTable(current)[k] = current[i].spec
    BY TableOf
  <2>4. QED
    BY <2>1, <2>2, <2>3 DEF LastOfKind
<1>2. DiffResources(current, new) <=> d.changed \/ DOMAIN d.table # {}
  BY DEF DiffResources, Changed
<1> HIDE DEF table
<1>3. /\ DOMAIN d.table = DOMAIN table \ {n.kind : n \in ToSet(new)}
      /\ ~ d.changed => \A n \in ToSet(new) : n.kind \in DOMAIN table /\ table[n.kind] = n.spec
      /\ d.changed => \E i \in 1 .. Len(new) :
           \/ new[i].kind \notin DOMAIN table \/ table[new[i].kind] # new[i].spec
           \/ \E j \in 1 .. i - 1 : new[j].kind = new[i].kind
  <2>1. Outcome(d, table, new)
    BY <1>1, ComparedAll
  <2> HIDE DEF d
  <2>2. QED
    BY <2>1 DEF Outcome
<1> HIDE DEF d
<1>4. /\ ToSet(current) = {current[i] : i \in 1 .. Len(current)}
      /\ ToSet(new) = {new[i] : i \in 1 .. Len(new)}
      /\ DOMAIN current = 1 .. Len(current) /\ DOMAIN new = 1 .. Len(new)
  BY DEF ToSet
<1>5. ASSUME ~ DiffResources(current, new)
      PROVE  /\ \A n \in ToSet(new) : \E o \in ToSet(current) : o.kind = n.kind /\ o.spec = n.spec
             /\ \A o \in ToSet(current) : \E n \in ToSet(new) : o.kind = n.kind
  <2>1. ~ d.changed /\ DOMAIN d.table = {}
    BY <1>2, <1>5
  <2>2. ASSUME NEW n \in ToSet(new)
        PROVE  \E o \in ToSet(current) : o.kind = n.kind /\ o.spec = n.spec
    <3>1. n.kind \in DOMAIN table /\ table[n.kind] = n.spec
      BY <1>3, <2>1
    <3>2. PICK i \in 1 .. Len(current) :
            current[i].kind = n.kind /\ table[n.kind] = current[i].spec
      BY <1>1, <3>1
    <3>3. QED
      BY <1>4, <3>1, <3>2
  <2>3. ASSUME NEW o \in ToSet(current) PROVE \E n \in ToSet(new) : o.kind = n.kind
    <3>1. o.kind \in DOMAIN table
      BY <1>1
    <3>2. o.kind \in {n.kind : n \in ToSet(new)}
      BY <1>3, <2>1, <3>1
    <3>3. QED
      BY <3>2
  <2>4. QED
    BY <2>2, <2>3
<1>6. ASSUME (\A o, p \in ToSet(current) : Key(o) = Key(p) => o.spec = p.spec),
             IsInjective([i \in DOMAIN new |-> Key(new[i])]),
             DiffResources(current, new),
             {<<Key(o), o.spec>> : o \in ToSet(current)} = {<<Key(n), n.spec>> : n \in ToSet(new)}
      PROVE  FALSE
  <2>1. /\ \A i, j \in 1 .. Len(current) :
             current[i].kind = current[j].kind => current[i].spec = current[j].spec
        /\ \A i, j \in 1 .. Len(new) : new[i].kind = new[j].kind => i = j
    BY <1>4, <1>6 DEF IsInjective, Key
  <2>2. ASSUME NEW n \in ToSet(new)
        PROVE  \E o \in ToSet(current) : o.kind = n.kind /\ o.spec = n.spec
    <3>1. <<n.kind, n.spec>> \in {<<o.kind, o.spec>> : o \in ToSet(current)}
      BY <1>6 DEF Key
    <3>2. QED
      BY <3>1
  <2>3. ASSUME NEW o \in ToSet(current) PROVE \E n \in ToSet(new) : o.kind = n.kind
    <3>1. <<o.kind, o.spec>> \in {<<n.kind, n.spec>> : n \in ToSet(new)}
      BY <1>6 DEF Key
    <3>2. QED
      BY <3>1
  <2>4. DOMAIN d.table = {}
    <3>1. \A k \in DOMAIN table : \E n \in ToSet(new) : k = n.kind
      BY <1>1, <2>3
    <3>2. \A k \in DOMAIN table : k \in {n.kind : n \in ToSet(new)}
      BY <3>1
    <3>3. QED
      BY <1>3, <3>2
  <2>5. PICK i \in 1 .. Len(new) :
           \/ new[i].kind \notin DOMAIN table \/ table[new[i].kind] # new[i].spec
           \/ \E j \in 1 .. i - 1 : new[j].kind = new[i].kind
    BY <1>2, <1>3, <1>6, <2>4
  <2>6. PICK m \in 1 .. Len(current) :
          current[m].kind = new[i].kind /\ current[m].spec = new[i].spec
    BY <1>4, <2>2
  <2>7. new[i].kind \in DOMAIN table
    BY <1>1, <1>4, <2>6
  <2>8. table[new[i].kind] = new[i].spec
    BY <1>1, <2>1, <2>6, <2>7
  <2>9. \A j \in 1 .. i - 1 : j \in 1 .. Len(new) /\ j # i
    OBVIOUS
  <2>10. QED
    BY <2>1, <2>5, <2>7, <2>8, <2>9
<1>7. QED
  BY <1>5, <1>6

(* After every listing, whatever it missed and however it ordered the slice: *)
(* "no change" is true, and "changed" has a reason.                          *)
THEOREM DiffIsRightEver == Spec => []DiffIsRight
<1>1. ListingInv => DiffIsRight
  <2> SUFFICES ASSUME ListingInv, Returned, NEW new \in Manifests
               PROVE  NoChangeIsTrue(new) /\ ChangeIsReal(new)
    BY DEF DiffIsRight
  <2>1. objs \in Seq(Items) /\ ToSet(objs) = seen
    BY ListingIsExactNow DEF ListingInv, Types, ListingIsExact
  <2>2. new \in Seq(ManifestSpecs)
    BY BoundedLists DEF Manifests, ManifestSpecs
  <2>3. ASSUME ~ DiffResources(objs, new)
        PROVE  /\ \A n \in ToSet(new) : \E o \in ToSet(objs) : o.kind = n.kind /\ o.spec = n.spec
               /\ \A o \in ToSet(objs) : \E n \in ToSet(new) : o.kind = n.kind
    BY <2>1, <2>2, <2>3, DiffDecides
  <2>4. NoChangeIsTrue(new)
    BY <2>1, <2>3 DEF NoChangeIsTrue
  <2>5. ChangeIsReal(new)
    BY <2>1, <2>2, DiffDecides DEF ChangeIsReal
  <2>6. QED
    BY <2>4, <2>5
<1>2. QED
  BY <1>1, ListingInvariant, PTL

================================================================================
