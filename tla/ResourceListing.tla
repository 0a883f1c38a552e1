--------------------------- MODULE ResourceListing ---------------------------
(***************************************************************************)
(* GetResourceWithLabel and DiffResources of gitops/utils/kube/kube.go.    *)
(*                                                                         *)
(* GetResourceWithLabel starts a goroutine for every API group, each of    *)
(* which lists its resource kinds one after the other and appends what it  *)
(* finds to one slice, under a mutex, while the cluster goes on changing;  *)
(* DiffResources compares the slice with the manifests of a repository.    *)
(***************************************************************************)
EXTENDS Naturals, Sequences, SequencesExt

CONSTANTS
  Groups,      \* API groups, one goroutine each
  KindsOf,     \* [Groups -> the kinds the group serves]: core and
               \* events.k8s.io both serve the kind Event
  Namespaces,
  SpecValues,  \* contents of an object under the key "spec"
  Nobody,      \* the holder of a free mutex
  MaxObjects,  \* bound: labelled objects at a time
  MaxChanges,  \* bound: changes of the cluster during the call
  MaxMissed    \* bound: List calls that fail

Kinds == UNION {KindsOf[g] : g \in Groups}

(* A labelled object.  All have the name the manifests give it, so that    *)
(* kind and namespace identify one.                                        *)
Objects == [kind : Kinds, ns : Namespaces, spec : SpecValues]

(* An item of a list: the object as a group shows it, by its apiVersion.   *)
Items == [group : Groups, kind : Kinds, ns : Namespaces, spec : SpecValues]
As(g, o) == [group |-> g, kind |-> o.kind, ns |-> o.ns, spec |-> o.spec]

(* At most one object of a kind and a namespace. *)
Stores == {s \in SUBSET Objects :
             /\ IsFiniteSet(s) /\ Cardinality(s) <= MaxObjects
             /\ \A o, p \in s : o.kind = p.kind /\ o.ns = p.ns => o = p}

ASSUME ListingAssumption ==
  /\ IsFiniteSet(Groups)
  /\ KindsOf \in [Groups -> SUBSET Kinds] /\ Nobody \notin Groups
  /\ MaxObjects \in Nat /\ MaxChanges \in Nat /\ MaxMissed \in Nat

VARIABLES
  store,    \* the labelled objects of the API server
  main,     \* GetResourceWithLabel: "discover", "wait", "returned", "failed"
  objs,     \* the slice
  lock,     \* who holds the mutex
  wg,       \* the counter of the WaitGroup
  at,       \* per goroutine, where it is
  todo,     \* per goroutine, the kinds it has not listed
  list,     \* per goroutine, the items it has still to append
  base,     \* per goroutine, the slice as append has read it
  spent,    \* how often each bounded thing has happened
  steady,   \* history: the objects that were there during the whole call ...
  missed,   \* ... and the groups and kinds that could not be listed
  seen      \* ... and what the Lists returned

groupVars == <<at, todo, list, base>>
historyVars == <<steady, missed, seen>>
vars == <<store, main, objs, lock, wg, groupVars, spent, historyVars>>

TypeOK ==
  /\ store \in Stores /\ objs \in Seq(Items)
  /\ main \in {"discover", "wait", "returned", "failed"}
  /\ lock \in Groups \cup {Nobody} /\ wg \in 0 .. Cardinality(Groups)
  /\ at \in [Groups -> {"none", "list", "lock", "read", "append", "done"}]
  /\ todo \in [Groups -> SUBSET Kinds]
  /\ list \in [Groups -> Seq(Items)] /\ base \in [Groups -> Seq(Items)]
  /\ spent \in [{"change", "missed"} -> Nat]
  /\ steady \subseteq store /\ missed \subseteq Groups \X Kinds
  /\ seen \subseteq Items

Init ==
  /\ store \in Stores
  /\ main = "discover" /\ objs = <<>> /\ lock = Nobody /\ wg = 0
  /\ at = [g \in Groups |-> "none"] /\ todo = [g \in Groups |-> {}]
  /\ list = [g \in Groups |-> <<>>] /\ base = [g \in Groups |-> <<>>]
  /\ spent = [k \in {"change", "missed"} |-> 0]
  /\ steady = store /\ missed = {} /\ seen = {}

-----------------------------------------------------------------------------
(* Users and other workers create, replace and delete objects meanwhile.   *)
Change ==
  /\ main = "wait" /\ spent["change"] < MaxChanges
  /\ spent' = [spent EXCEPT !["change"] = @ + 1]
  /\ \E o \in Objects : store' = IF o \in store THEN store \ {o} ELSE
       {p \in store : p.kind # o.kind \/ p.ns # o.ns} \cup {o}
  /\ store' \in Stores
  /\ steady' = steady \cap store'
  /\ UNCHANGED <<main, objs, lock, wg, groupVars, missed, seen>>

(* Mutants of Added: once for all groups, and once more in the loop. *)
AddedOnce == 1
AddedInLoop == Cardinality(Groups) + 1

Added == Cardinality(Groups)

(* ServerPreferredResources, wg.Add and the go statements; or its error, of *)
(* one group that cannot be discovered, which makes the whole call fail.   *)
Discover ==
  /\ main = "discover"
  /\ \/ /\ main' = "wait"
        /\ wg' = Added
        /\ at' = [g \in Groups |-> "list"]
        /\ todo' = KindsOf
     \/ main' = "failed" /\ UNCHANGED <<wg, at, todo>>
  /\ UNCHANGED <<store, objs, lock, list, base, spent, historyVars>>

Goto(g, l) == at' = [at EXCEPT ![g] = l]

(***************************************************************************)
(* The objects of one kind, in any order.  A List that fails is logged.    *)
(***************************************************************************)
List(g) ==
  /\ at[g] = "list"
  /\ \E k \in todo[g] :
       \/ LET found == {As(g, o) : o \in {p \in store : p.kind = k}} IN
          \E items \in SetToSeqs(found) :
            /\ list' = [list EXCEPT ![g] = items]
            /\ todo' = [todo EXCEPT ![g] = @ \ {k}]
            /\ seen' = seen \cup found
            /\ Goto(g, "lock")
            /\ UNCHANGED <<missed, spent>>
       \/ /\ spent["missed"] < MaxMissed
          /\ spent' = [spent EXCEPT !["missed"] = @ + 1]
          /\ missed' = missed \cup {<<g, k>>}
          /\ todo' = [todo EXCEPT ![g] = @ \ {k}]
          /\ UNCHANGED <<at, list, seen>>
  /\ UNCHANGED <<store, main, objs, lock, wg, base, steady>>

(* Mutant of Lock: there is no mutex. *)
LockNothing(g) ==
  /\ at[g] = "lock" /\ lock' = g
  /\ Goto(g, "read")
  /\ UNCHANGED <<store, main, objs, wg, todo, list, base, spent, historyVars>>

Lock(g) ==
  /\ at[g] = "lock" /\ lock = Nobody /\ lock' = g
  /\ Goto(g, "read")
  /\ UNCHANGED <<store, main, objs, wg, todo, list, base, spent, historyVars>>

(* append reads the slice, then writes it: other steps may come between. *)
Append1(g) ==
  \/ /\ at[g] = "read" /\ list[g] # <<>>
     /\ base' = [base EXCEPT ![g] = objs]
     /\ Goto(g, "append")
     /\ UNCHANGED <<objs, lock, list>>
  \/ /\ at[g] = "append"
     /\ objs' = Append(base[g], Head(list[g]))
     /\ base' = [base EXCEPT ![g] = <<>>]
     /\ list' = [list EXCEPT ![g] = Tail(@)]
     /\ Goto(g, "read")
     /\ UNCHANGED lock
  \/ /\ at[g] = "read" /\ list[g] = <<>>
     /\ lock' = Nobody
     /\ Goto(g, "list")
     /\ UNCHANGED <<objs, base, list>>

AppendItems(g) ==
  /\ Append1(g)
  /\ UNCHANGED <<store, main, wg, todo, spent, historyVars>>

(* The deferred Done. *)
GroupDone(g) ==
  /\ at[g] = "list" /\ todo[g] = {}
  /\ Goto(g, "done") /\ wg' = wg - 1
  /\ UNCHANGED <<store, main, objs, lock, todo, list, base, spent, historyVars>>

(* wg.Wait, and the return with apiError, which nothing ever sets. *)
ReturnObjs ==
  /\ main = "wait" /\ wg = 0
  /\ main' = "returned"
  /\ UNCHANGED <<store, objs, lock, wg, groupVars, spent, historyVars>>

Group(g) == List(g) \/ Lock(g) \/ AppendItems(g) \/ GroupDone(g)

Next == \/ Change \/ Discover \/ ReturnObjs
        \/ \E g \in Groups : Group(g)

(* Every List is answered: the configuration has a timeout. *)
Fairness == WF_vars(Discover) /\ WF_vars(ReturnObjs) /\ \A g \in Groups : WF_vars(Group(g))

Spec == Init /\ [][Next]_vars /\ Fairness

-----------------------------------------------------------------------------
(***************************************************************************)
(* DiffResources: the hash table has one object per key, the last one of   *)
(* the slice; a manifest takes its entry out, whether or not it is equal.  *)
(***************************************************************************)
Key(o) == o.kind

HashTable(current) ==
  FoldLeft(LAMBDA t, c : [k \in DOMAIN t \cup {Key(c)} |->
                            IF k = Key(c) THEN c.spec ELSE t[k]],
           [k \in {} |-> Nobody], current)

Compare(d, n) ==
  [table |-> [k \in DOMAIN d.table \ {Key(n)} |-> d.table[k]],
   changed |-> \/ d.changed
               \/ Key(n) \notin DOMAIN d.table
               \/ d.table[Key(n)] # n.spec]

(* Mutant of Changed: what is left in the table is logged only. *)
ChangedOrNew(d) == d.changed

Changed(d) == d.changed \/ DOMAIN d.table # {}

DiffResources(current, new) ==
  Changed(FoldLeft(Compare, [table |-> HashTable(current), changed |-> FALSE], new))

(* Manifests of a repository: they have no namespace yet. *)
Manifests == SeqOf([kind : Kinds, spec : SpecValues], 2)

-----------------------------------------------------------------------------
(***************************************************************************)
(* ServerResourceForGroupVersionKind, which CreateResource and             *)
(* DeleteResource start with: the first resource of the kind that supports *)
(* the verb.  A kind has several: deployments, deployments/status, ...     *)
(***************************************************************************)
Verbs == {"create", "delete"}
Asked == Verbs \cup {"", "*"}
APIResources == [kind : {"Deployment", "Scale"}, verbs : SUBSET Verbs]

(* The names of verbs are compared without regard to case.                 *)
isSupportedVerb(r, verb) == verb \in {"", "*"} \/ verb \in r.verbs

(* Mutant of Match: the first resource of the kind decides. *)
MatchFirst(result, r, kind, verb) ==
  IF result # "NotFound" \/ r.kind # kind THEN result
  ELSE IF isSupportedVerb(r, verb) THEN "found" ELSE "MethodNotSupported"

(* One round of the loop: found returns at once, other answers are memorized. *)
Match(result, r, kind, verb) ==
  IF result = "found" \/ r.kind # kind THEN result
  ELSE IF isSupportedVerb(r, verb) THEN "found" ELSE "MethodNotSupported"

FindResource(resources, kind, verb) ==
  FoldLeft(LAMBDA result, r : Match(result, r, kind, verb), "NotFound", resources)

(* discovered: ServerResourcesForGroupVersion has answered.                *)
ServerResource(discovered, resources, kind, verb) ==
  IF discovered THEN FindResource(resources, kind, verb) ELSE "Undiscovered"

-----------------------------------------------------------------------------
Returned == main = "returned"

(***************************************************************************)
(* GetResourceWithLabel returns when every goroutine is done.  An object   *)
(* that was there all the time is returned once for every group that       *)
(* serves its kind, unless that List failed; nothing else is returned than *)
(* what some List did, and nothing twice: deleteResources deletes exactly  *)
(* these, one after the other, so that an object of two groups is deleted  *)
(* twice, and the second deletion is an error.                             *)
(***************************************************************************)
ListingIsExact == Returned =>
  /\ \A g \in Groups : at[g] = "done"
  /\ \A g \in Groups, o \in steady :
       o.kind \in KindsOf[g] /\ <<g, o.kind>> \notin missed =>
         As(g, o) \in ToSet(objs)
  /\ ToSet(objs) = seen /\ Len(objs) = Cardinality(seen)

(***************************************************************************)
(* DiffResources: "No changes in resources" is never said while a manifest *)
(* has no object or another spec than all its objects, or while there is   *)
(* an object without a manifest, however the slice is ordered and whatever *)
(* the listing missed; and "changed" is said only for a difference, or     *)
(* because two manifests have one key, or two listed objects with one key  *)
(* differ: an object that two groups list is no difference.                *)
(***************************************************************************)
NoChangeIsTrue(new) == ~ DiffResources(objs, new) =>
  /\ \A n \in ToSet(new) : \E o \in seen : o.kind = n.kind /\ o.spec = n.spec
  /\ \A o \in seen : \E n \in ToSet(new) : o.kind = n.kind

ChangeIsReal(new) ==
  (\A o, p \in ToSet(objs) : Key(o) = Key(p) => o.spec = p.spec)
  /\ IsInjective([i \in DOMAIN new |-> Key(new[i])])
  /\ DiffResources(objs, new) =>
       {<<Key(o), o.spec>> : o \in ToSet(objs)} # {<<Key(n), n.spec>> : n \in ToSet(new)}

DiffIsRight == Returned =>
  \A new \in Manifests : NoChangeIsTrue(new) /\ ChangeIsReal(new)

(***************************************************************************)
(* "default is to return a not found"; "We have a match, but the API does  *)
(* not support the action": what is found does not depend on where in the  *)
(* list it is, or on what other resources have the same kind.              *)
(***************************************************************************)
ResolvesAnywhere == main = "discover" /\ store = {} =>
  \A l \in SeqOf(APIResources, 3), kind \in {"Deployment", "Scale"}, verb \in Asked :
    LET same == {r \in ToSet(l) : r.kind = kind} IN
    ServerResource(TRUE, l, kind, verb) =
      IF \E r \in same : verb \in r.verbs \cup {"", "*"} THEN "found"
      ELSE IF same = {} THEN "NotFound" ELSE "MethodNotSupported"

(***************************************************************************)
(* GetResourceWithLabel returns: no goroutine waits for the mutex for      *)
(* ever, and the WaitGroup comes back to zero.                             *)
(***************************************************************************)
ListingReturns == main = "wait" ~> Returned
=============================================================================
