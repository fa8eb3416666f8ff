------------------------- MODULE HookedEmulatorProofs -------------------------
(***************************************************************************)
(* For any number of hooks and any budgets: hooks are called while they    *)
(* are registered and never after their removal, removals are complete     *)
(* when emulate() returns, and a stop is not lost.                         *)
(***************************************************************************)
EXTENDS HookedEmulator, SetInduction

Entry == [id : Nat \ {0}, hook : Hook]

In(t)   == {hooks[t][i] : i \in DOMAIN hooks[t]}
Entries == UNION {In(t) : t \in HookType}

RegistryType ==
  /\ hooks \in [HookType -> Seq(Entry)]
  /\ has \in [HookType -> BOOLEAN]
  /\ next_id \in Nat \ {0}
  /\ queue \in Seq(Nat \ {0})
  /\ requested \in BOOLEAN
  /\ added \in 0 .. MaxHooks
  /\ live \subseteq Hook /\ dead \subseteq 1 .. added

(* The cached flags, the map of types and the ids agree with the lists.     *)
ListsInv ==
  /\ \A t \in HookType : has[t] <=> hooks[t] # <<>>
  /\ requested <=> queue # <<>>
  /\ \A id \in Queued : id < next_id
  /\ \A t \in HookType : \A e \in In(t) :
       /\ e.id < next_id /\ e.hook <= added
       /\ e.id \in DOMAIN type_of /\ type_of[e.id] = t
  /\ \A e, f \in Entries : e.id = f.id <=> e.hook = f.hook

(* The hooks in use are those registered under an id that is not queued.    *)
LiveInv ==
  /\ live \subseteq Registered
  /\ \A e \in Entries : e.hook \in live <=> e.id \notin Queued

(* What was removed while no emulation was running is queued until the next *)
(* one starts, and not registered from then on.                             *)
DeadInv ==
  /\ dead \cap live = {}
  /\ phase # "idle" => dead \cap Registered = {}

(* The hooks before the position of a walk have been called.                *)
WalkInv ==
  /\ pos \in Nat \ {0}
  /\ phase \in Walks =>
       \A i \in DOMAIN hooks[phase] : i < pos => hooks[phase][i].hook \in called

-----------------------------------------------------------------------------
Has(s, x) == \E i \in DOMAIN s : s[i] = x

(* Erasing hooks from a list leaves a list of exactly the others.           *)
LEMMA WithoutElements ==
  ASSUME NEW R, NEW list \in Seq(R), NEW ids
  PROVE  /\ Without(list, ids) \in Seq(R)
         /\ \A x : Has(Without(list, ids), x) <=> Has(list, x) /\ x.id \notin ids
<1> DEFINE N == Len(list)
           Drops(n) == list[n].id \in ids
           Next1(n, s) == IF Drops(n) THEN s ELSE Append(s, list[n])
           Table(f) == [n \in 0 .. N |-> IF n = 0 THEN <<>> ELSE Next1(n, f[n - 1])]
           kept == CHOOSE f : f = Table(f)
<1>1. N \in Nat /\ DOMAIN list = 1 .. N /\ \A n \in 1 .. N : list[n] \in R
  OBVIOUS
<1>2. Without(list, ids) = kept[N]
  BY DEF Without
<1>3. <<>> \in Seq(R) /\ \A n \in 1 .. N : \A s \in Seq(R) : Next1(n, s) \in Seq(R)
  BY <1>1
<1> HIDE DEF N, Next1
<1>4. kept = Table(kept)
  <2> DEFINE step == [n \in 1 .. N |-> [s \in Seq(R) |-> Next1(n, s)]]
  <2>1. step \in [1 .. N -> [Seq(R) -> Seq(R)]]
    BY <1>3
  <2>2. \A n \in 1 .. N : \A s \in Seq(R) : step[n][s] = Next1(n, s)
    OBVIOUS
  <2> HIDE DEF step
  <2>3. PICK f \in [0 .. N -> Seq(R)] :
          f[0] = <<>> /\ \A n \in 1 .. N : f[n] = step[n][f[n - 1]]
    <3>1. N \in Nat /\ <<>> \in Seq(R)
      BY <1>1, <1>3
    <3> DEFINE S == Seq(R)
               base == <<>>
    <3>2. N \in Nat /\ base \in S /\ step \in [1 .. N -> [S -> S]]
      BY <2>1, <3>1
    <3> HIDE DEF S, base
    <3>3. \E f \in [0 .. N -> S] : f[0] = base /\ \A n \in 1 .. N : f[n] = step[n][f[n - 1]]
      BY <3>2, RecursionByStep
    <3>4. QED
      BY <3>3 DEF S, base
  <2>4. ASSUME NEW n \in 0 .. N, n # 0 PROVE f[n] = Next1(n, f[n - 1])
    <3>1. n \in 1 .. N /\ n - 1 \in 0 .. N
      BY <1>1, <2>4
    <3>2. f[n - 1] \in Seq(R)
      BY <3>1
    <3>3. QED
      BY <2>2, <2>3, <3>1, <3>2
  <2>5. f = Table(f)
    <3>1. \A n \in 0 .. N : f[n] = IF n = 0 THEN <<>> ELSE Next1(n, f[n - 1])
      BY <2>3, <2>4
    <3>2. QED
      BY <3>1
  <2>6. QED
    BY <2>5
<1> HIDE DEF kept
<1>5. kept[0] = <<>>
  BY <1>1, <1>4
<1>6. ASSUME NEW n \in 0 .. N, n < N PROVE kept[n + 1] = Next1(n + 1, kept[n])
  <2>1. n + 1 \in 0 .. N /\ n + 1 # 0 /\ (n + 1) - 1 = n
    BY <1>1, <1>6
  <2>2. QED
    BY <1>4, <2>1
<1> DEFINE Left(n, x) == \E j \in 1 .. n : ~Drops(j) /\ list[j] = x
           Good(n) == kept[n] \in Seq(R) /\ \A x : Has(kept[n], x) <=> Left(n, x)
           T == {n \in 0 .. N : Good(n)}
<1>7. 0 \in T
  <2>1. 0 \in 0 .. N /\ kept[0] \in Seq(R)
    BY <1>1, <1>3, <1>5
  <2>2. \A x : ~Has(kept[0], x) /\ ~Left(0, x)
    BY <1>5 DEF Has
  <2>3. QED
    BY <2>1, <2>2
<1>8. ASSUME NEW n \in T, n < N PROVE n + 1 \in T
  <2>1. n \in 0 .. N /\ n + 1 \in 0 .. N /\ n + 1 \in 1 .. N /\ Good(n)
    BY <1>1, <1>8
  <2>2. kept[n + 1] = Next1(n + 1, kept[n])
    BY <1>6, <1>8, <2>1
  <2>3. CASE Drops(n + 1)
    <3>1. kept[n + 1] = kept[n]
      BY <2>2, <2>3 DEF Next1
    <3>2. \A x : Left(n + 1, x) <=> Left(n, x)
      BY <2>1, <2>3
    <3>3. QED
      BY <2>1, <3>1, <3>2
  <2>4. CASE ~Drops(n + 1)
    <3> DEFINE s == kept[n]
               e == list[n + 1]
    <3>1. kept[n + 1] = Append(s, e)
      BY <2>2, <2>4 DEF Next1
    <3>2. \A x : Left(n + 1, x) <=> Left(n, x) \/ x = e
      BY <2>1, <2>4
    <3>3. s \in Seq(R) /\ e \in R /\ \A x : Has(s, x) <=> Left(n, x)
      BY <1>1, <2>1
    <3> HIDE DEF s, e, Left
    <3>4. Append(s, e) \in Seq(R) /\ \A x : Has(Append(s, e), x) <=> Has(s, x) \/ x = e
      <4>1. s \in Seq(R) /\ e \in R
        BY <3>3
      <4>2. /\ Append(s, e) \in Seq(R) /\ DOMAIN s = 1 .. Len(s) /\ Len(s) \in Nat
            /\ DOMAIN Append(s, e) = 1 .. Len(s) + 1
            /\ Append(s, e)[Len(s) + 1] = e /\ \A i \in 1 .. Len(s) : Append(s, e)[i] = s[i]
        BY <4>1
      <4>3. QED
        BY <4>2 DEF Has
    <3>5. QED
      BY <2>1, <3>1, <3>2, <3>3, <3>4
  <2>5. QED
    BY <2>3, <2>4
<1>9. N \in T
  <2> HIDE DEF T
  <2>1. T \in SUBSET (0 .. N)
    BY DEF T
  <2>2. T = 0 .. N
    BY <1>1, <1>7, <1>8, <2>1, IntervalInduct
  <2>3. QED
    BY <1>1, <2>2
<1>10. \A x : Left(N, x) <=> Has(list, x) /\ x.id \notin ids
  BY <1>1 DEF Has
<1>11. QED
  BY <1>2, <1>9, <1>10

(* cleanup_hooks keeps the hooks whose ids are not queued. *)
LEMMA KeptElements ==
  ASSUME RegistryType, ListsInv, NEW t \in HookType
  PROVE  /\ Kept(t) \in Seq(Entry)
         /\ \A e : Has(Kept(t), e) <=> e \in In(t) /\ e.id \notin Queued
<1> DEFINE ids == {id \in Queued : type_of[id] = t}
           rest == Without(hooks[t], ids)
<1>1. hooks[t] \in Seq(Entry) /\ Kept(t) = rest
  BY DEF RegistryType, Kept
<1>2. \A e \in In(t) : e.id \in ids <=> e.id \in Queued
  BY DEF ListsInv
<1> HIDE DEF ids
<1>3. rest \in Seq(Entry) /\ \A x : Has(rest, x) <=> Has(hooks[t], x) /\ x.id \notin ids
  BY <1>1, WithoutElements
<1>4. \A x : Has(hooks[t], x) <=> x \in In(t)
  BY DEF In, Has
<1>5. QED
  BY <1>1, <1>2, <1>3, <1>4

RegistryInv == RegistryType /\ ListsInv /\ LiveInv

(* The lists as sets of hooks. *)
LEMMA Listed ==
  /\ \A e : e \in Entries <=> \E t \in HookType : e \in In(t)
  /\ Registered = {e.hook : e \in Entries}
  BY DEF Entries, In, Registered

-----------------------------------------------------------------------------
(* After cleanup_hooks nothing is queued, and what is left is what is live. *)
LEMMA CleanupKeeps ==
  ASSUME RegistryInv, Cleanup, UNCHANGED <<added, live, dead>>
  PROVE  /\ RegistryInv'
         /\ queue' = <<>> /\ Registered' = live
         /\ \A t \in HookType : In(t)' \subseteq In(t)
<1>0. RegistryType /\ ListsInv /\ LiveInv
  BY DEF RegistryInv
<1>1. \A t \in HookType : In(t)' = {e \in In(t) : e.id \notin Queued}
  <2>1. CASE requested
    <3>1. \A t \in HookType : hooks'[t] = Kept(t)
      BY <2>1 DEF Cleanup
    <3>2. QED
      <4>1. ASSUME NEW t \in HookType PROVE \A e : e \in In(t)' <=> Has(Kept(t), e)
        BY <3>1 DEF In, Has
      <4>2. QED
        BY <1>0, <4>1, KeptElements
  <2>2. CASE ~requested
    <3>1. Queued = {} /\ hooks' = hooks
      BY <1>0, <2>2 DEF Cleanup, registry, ListsInv, Queued
    <3>2. QED
      BY <3>1 DEF In
  <2>3. QED
    BY <2>1, <2>2
<1>2. queue' = <<>> /\ requested' = FALSE /\ next_id' = next_id /\ Queued' = {}
  <2>1. queue' = <<>> /\ requested' = FALSE /\ next_id' = next_id
    <3>1. CASE requested
      BY <3>1 DEF Cleanup
    <3>2. CASE ~requested
      BY <1>0, <3>2 DEF Cleanup, registry, ListsInv, RegistryType
    <3>3. QED
      BY <3>1, <3>2
  <2>2. QED
    BY <2>1 DEF Queued
<1>3. \A e : e \in Entries' <=> e \in Entries /\ e.id \notin Queued
  BY <1>1, Listed DEF Entries
<1>4. Registered' = live
  <2>1. Registered' = {e.hook : e \in Entries'}
    BY DEF Entries, In, Registered
  <2>2. \A x \in live : \E e \in Entries : e.hook = x
    BY <1>0, Listed DEF LiveInv
  <2>3. QED
    BY <1>0, <1>3, <2>1, <2>2 DEF LiveInv
<1>5. RegistryType'
  <2>1. hooks' \in [HookType -> Seq(Entry)] /\ has' \in [HookType -> BOOLEAN]
    <3>1. CASE requested
      <4>1. \A t \in HookType : Kept(t) \in Seq(Entry)
        BY <1>0, KeptElements
      <4>2. hooks' = [t \in HookType |-> Kept(t)]
        BY <3>1 DEF Cleanup
      <4>3. has' = [t \in HookType |-> IF Kept(t) = hooks[t] THEN has[t] ELSE Kept(t) # <<>>]
        BY <3>1 DEF Cleanup
      <4>4. QED
        BY <1>0, <4>1, <4>2, <4>3 DEF RegistryType
    <3>2. CASE ~requested
      BY <1>0, <3>2 DEF Cleanup, registry, RegistryType
    <3>3. QED
      BY <3>1, <3>2
  <2>2. <<>> \in Seq(Nat \ {0})
    OBVIOUS
  <2>3. queue' \in Seq(Nat \ {0}) /\ requested' \in BOOLEAN
    BY <1>2, <2>2
  <2>4. QED
    BY <1>0, <1>2, <2>1, <2>3 DEF RegistryType
<1>6. ListsInv'
  <2>1. \A t \in HookType : has'[t] <=> hooks'[t] # <<>>
    <3>1. CASE requested
      <4>1. \A t \in HookType : /\ hooks'[t] = Kept(t)
                                /\ has'[t] = IF Kept(t) = hooks[t] THEN has[t] ELSE Kept(t) # <<>>
        BY <3>1 DEF Cleanup
      <4>2. ASSUME NEW t \in HookType PROVE has'[t] <=> hooks'[t] # <<>>
        <5>1. CASE Kept(t) = hooks[t]
          BY <1>0, <4>1, <5>1 DEF ListsInv
        <5>2. CASE Kept(t) # hooks[t]
          BY <4>1, <5>2
        <5>3. QED
          BY <5>1, <5>2
      <4>3. QED
        BY <4>2
    <3>2. CASE ~requested
      BY <1>0, <3>2 DEF Cleanup, registry, ListsInv
    <3>3. QED
      BY <3>1, <3>2
  <2>2. \A t \in HookType : \A e \in In(t)' :
          e.id < next_id' /\ e.hook <= added' /\ e.id \in DOMAIN type_of' /\ type_of'[e.id] = t
    BY <1>0, <1>1 DEF Cleanup, registry, ListsInv
  <2>3. \A e, f \in Entries' : e.id = f.id <=> e.hook = f.hook
    BY <1>0, <1>3 DEF ListsInv
  <2>4. QED
    BY <1>2, <2>1, <2>2, <2>3 DEF ListsInv
<1>7. LiveInv'
  BY <1>0, <1>2, <1>3, <1>4 DEF LiveInv
<1>8. QED
  BY <1>1, <1>2, <1>4, <1>5, <1>6, <1>7 DEF RegistryInv

(* A hook that is added gets an id and a number no registered hook has.     *)
LEMMA AddKeeps ==
  ASSUME RegistryInv, NEW t \in HookType, AddTo(t), dead' = dead
  PROVE  /\ RegistryInv'
         /\ live' = live \union {added + 1} /\ Registered' = Registered \union {added + 1}
         /\ added + 1 \notin dead
         /\ \A u \in HookType : u # t => hooks'[u] = hooks[u]
<1> DEFINE new == [id |-> next_id, hook |-> added + 1]
<1>0. RegistryType /\ ListsInv /\ LiveInv
  BY DEF RegistryInv
<1>1. new \in Entry /\ added' \in 0 .. MaxHooks /\ added + 1 \in Hook /\ added' = added + 1
  BY <1>0, HookAssumption DEF AddTo, RegistryType, Entry, Hook
<1>2. /\ hooks'[t] = Append(hooks[t], new) /\ hooks[t] \in Seq(Entry)
      /\ \A u \in HookType : u # t => hooks'[u] = hooks[u]
  BY <1>0 DEF AddTo, RegistryType
<1> HIDE DEF new
<1>3. /\ hooks'[t] \in Seq(Entry) /\ hooks'[t] # <<>>
      /\ Len(hooks[t]) \in Nat /\ DOMAIN hooks[t] = 1 .. Len(hooks[t])
      /\ DOMAIN hooks'[t] = 1 .. Len(hooks[t]) + 1
      /\ hooks'[t][Len(hooks[t]) + 1] = new
      /\ \A i \in 1 .. Len(hooks[t]) : hooks'[t][i] = hooks[t][i]
  BY <1>1, <1>2
<1>4. \A e : e \in In(t)' <=> e \in In(t) \/ e = new
  <2>1. /\ \A e : e \in In(t) <=> \E i \in DOMAIN hooks[t] : hooks[t][i] = e
        /\ \A e : e \in In(t)' <=> \E i \in DOMAIN hooks'[t] : hooks'[t][i] = e
    BY DEF In
  <2>2. QED
    BY <1>3, <2>1
<1>5. \A u \in HookType : u # t => In(u)' = In(u)
  BY <1>2 DEF In
<1>6. \A e : e \in Entries' <=> e \in Entries \/ e = new
  BY <1>4, <1>5 DEF Entries
<1>7. new.id = next_id /\ new.hook = added + 1
  BY DEF new
<1>8. Queued' = Queued /\ next_id \notin Queued
  <2>1. queue' = queue /\ next_id \in Nat /\ \A id \in Queued : id < next_id
    BY <1>0 DEF AddTo, ListsInv, RegistryType
  <2>2. QED
    BY <2>1 DEF Queued
<1>9. \A e \in Entries : /\ e.id < next_id /\ e.hook <= added
                         /\ e.id # next_id /\ e.hook # added + 1 /\ e.id \in DOMAIN type_of
  BY <1>0, Listed DEF ListsInv, RegistryType
<1>10. RegistryType'
  <2>1. hooks' \in [HookType -> Seq(Entry)] /\ has' \in [HookType -> BOOLEAN]
    BY <1>0, <1>3 DEF AddTo, RegistryType
  <2>2. QED
    BY <1>0, <1>1, <2>1 DEF AddTo, RegistryType
<1>11. ListsInv'
  <2>1. \A u \in HookType : has'[u] <=> hooks'[u] # <<>>
    BY <1>0, <1>2, <1>3 DEF AddTo, RegistryType, ListsInv
  <2>2. requested' <=> queue' # <<>>
    BY <1>0 DEF AddTo, ListsInv
  <2>3. next_id' = next_id + 1 /\ next_id \in Nat /\ added \in Nat
    BY <1>0 DEF AddTo, RegistryType
  <2>4. \A id \in Queued' : id < next_id'
    <3>1. \A id \in Queued : id \in Nat /\ id < next_id
      BY <1>0 DEF ListsInv, RegistryType, Queued
    <3>2. QED
      BY <1>8, <2>3, <3>1
  <2>5. type_of'[next_id] = t /\ next_id \in DOMAIN type_of'
        /\ \A id \in DOMAIN type_of : id \in DOMAIN type_of' /\ (id # next_id => type_of'[id] = type_of[id])
    BY DEF AddTo
  <2>6. ASSUME NEW u \in HookType, NEW e \in In(u)'
        PROVE  e.id < next_id' /\ e.hook <= added' /\ e.id \in DOMAIN type_of' /\ type_of'[e.id] = u
    <3>1. CASE e = new /\ u = t
      BY <1>1, <1>7, <2>3, <2>5, <3>1
    <3>2. CASE e \in In(u)
      <4>1. e \in Entry
        BY <1>0, <3>2 DEF In, RegistryType
      <4>2. e.id \in Nat /\ e.hook \in Nat
        BY <4>1 DEF Entry, Hook
      <4>3. e.id < next_id /\ e.hook <= added /\ e.id \in DOMAIN type_of /\ type_of[e.id] = u
        BY <1>0, <3>2 DEF ListsInv
      <4>4. QED
        BY <1>1, <2>3, <2>5, <4>2, <4>3
    <3>3. QED
      BY <1>4, <1>5, <3>1, <3>2
  <2>7. \A e, f \in Entries' : e.id = f.id <=> e.hook = f.hook
    BY <1>0, <1>6, <1>7, <1>9 DEF ListsInv
  <2>8. QED
    BY <2>1, <2>2, <2>4, <2>6, <2>7 DEF ListsInv
<1>12. live' = live \union {added + 1} /\ Registered' = Registered \union {added + 1}
  <2>1. Registered' = {e.hook : e \in Entries'}
    BY DEF Entries, In, Registered
  <2>2. QED
    BY <1>6, <1>7, <2>1, Listed DEF AddTo
<1>13. LiveInv'
  BY <1>0, <1>6, <1>7, <1>8, <1>9, <1>12 DEF LiveInv
<1>14. QED
  BY <1>0, <1>2, <1>10, <1>11, <1>12, <1>13 DEF RegistryInv, RegistryType

(* A hook whose removal is requested is queued and no longer live. *)
LEMMA RequestKeeps ==
  ASSUME RegistryInv, NEW t \in HookType, NEW i \in DOMAIN hooks[t], Request(t, i),
         dead' \subseteq 1 .. added
  PROVE  /\ RegistryInv'
         /\ live' = live \ {hooks[t][i].hook} /\ Registered' = Registered
         /\ hooks[t][i].hook \in 1 .. added
<1> DEFINE e0 == hooks[t][i]
<1>0. RegistryType /\ ListsInv /\ LiveInv
  BY DEF RegistryInv
<1>1. e0 \in Entry /\ e0 \in In(t) /\ e0 \in Entries
  BY <1>0, Listed DEF RegistryType, In
<1>2. e0.id \in Nat \ {0} /\ e0.id < next_id /\ e0.hook \in 1 .. added
  <2>1. e0.id \in Nat \ {0} /\ e0.hook \in Hook
    BY <1>1 DEF Entry
  <2>2. e0.id < next_id /\ e0.hook <= added /\ added \in Nat
    BY <1>0, <1>1 DEF ListsInv, RegistryType
  <2>3. QED
    BY <2>1, <2>2 DEF Hook
<1>3. queue' = Append(queue, e0.id) /\ live' = live \ {e0.hook} /\ requested'
  BY DEF Request
<1>4. UNCHANGED <<hooks, has, type_of, next_id, added>>
  BY DEF Request
<1> HIDE DEF e0
<1>5. queue' \in Seq(Nat \ {0}) /\ queue' # <<>> /\ \A id : id \in Queued' <=> id \in Queued \/ id = e0.id
  <2>1. queue \in Seq(Nat \ {0}) /\ Len(queue) \in Nat /\ DOMAIN queue = 1 .. Len(queue)
    BY <1>0 DEF RegistryType
  <2>2. /\ queue' \in Seq(Nat \ {0}) /\ queue' # <<>> /\ DOMAIN queue' = 1 .. Len(queue) + 1
        /\ queue'[Len(queue) + 1] = e0.id /\ \A k \in 1 .. Len(queue) : queue'[k] = queue[k]
    BY <1>2, <1>3, <2>1
  <2>3. QED
    BY <2>1, <2>2 DEF Queued
<1>6. Entries' = Entries /\ Registered' = Registered /\ \A u \in HookType : In(u)' = In(u)
  BY <1>4 DEF Entries, In, Registered
<1>7. RegistryType'
  BY <1>0, <1>3, <1>4, <1>5 DEF RegistryType
<1>8. ListsInv'
  BY <1>0, <1>2, <1>3, <1>4, <1>5, <1>6 DEF ListsInv
<1>9. LiveInv'
  BY <1>0, <1>1, <1>3, <1>5, <1>6 DEF LiveInv, ListsInv
<1>10. QED
  BY <1>2, <1>3, <1>6, <1>7, <1>8, <1>9 DEF RegistryInv, e0

-----------------------------------------------------------------------------
HookIndInv == RegistryInv /\ DeadInv /\ WalkInv

LEMMA InitKeeps ==
  ASSUME Init PROVE HookIndInv
<1>1. /\ \A t \in HookType : hooks[t] = <<>> /\ has[t] = FALSE
      /\ queue = <<>> /\ live = {} /\ dead = {} /\ added = 0
  BY DEF Init
<1>2. Queued = {} /\ Entries = {} /\ Registered = {} /\ \A t \in HookType : In(t) = {}
  BY <1>1 DEF Queued, Entries, In, Registered
<1>3. RegistryType
  <2>1. <<>> \in Seq(Entry) /\ <<>> \in Seq(Nat \ {0})
    OBVIOUS
  <2>2. hooks \in [HookType -> Seq(Entry)] /\ has \in [HookType -> BOOLEAN]
    BY <2>1 DEF Init
  <2>3. queue \in Seq(Nat \ {0}) /\ added \in 0 .. MaxHooks
    BY <1>1, <2>1, HookAssumption
  <2>4. /\ next_id \in Nat \ {0} /\ requested \in BOOLEAN
        /\ live \subseteq Hook /\ dead \subseteq 1 .. added
    <3>1. next_id = 1 /\ requested = FALSE
      BY DEF Init
    <3>2. live \subseteq Hook /\ dead \subseteq 1 .. added
      BY <1>1, Zenon
    <3>3. next_id \in Nat \ {0}
      BY <3>1
    <3>4. requested \in BOOLEAN
      BY <3>1, Zenon
    <3>5. QED
      BY <3>2, <3>3, <3>4
  <2>5. QED
    BY <2>2, <2>3, <2>4 DEF RegistryType
<1>4. ListsInv /\ LiveInv
  BY <1>1, <1>2 DEF Init, ListsInv, LiveInv
<1>5. DeadInv /\ WalkInv
  BY <1>1, <1>2 DEF Init, DeadInv, WalkInv, Walks
<1>6. QED
  BY <1>3, <1>4, <1>5 DEF HookIndInv, RegistryInv

(* What reads the registry only keeps it as it is.                          *)
LEMMA RegistryUnchanged ==
  ASSUME RegistryInv, UNCHANGED <<registry, added, live, dead>>
  PROVE  RegistryInv' /\ Registered' = Registered
<1>1. UNCHANGED <<hooks, has, type_of, next_id, queue, requested, added, live, dead>>
  BY DEF registry
<1>2. /\ Queued' = Queued /\ Entries' = Entries /\ Registered' = Registered
      /\ \A t \in HookType : In(t)' = In(t)
  BY <1>1 DEF Queued, Entries, In, Registered
<1>3. QED
  BY <1>1, <1>2 DEF RegistryInv, RegistryType, ListsInv, LiveInv

(* A stage of an instruction that only decides where to go next.            *)
LEMMA StageKeeps ==
  ASSUME HookIndInv, UNCHANGED <<registry, added, live, dead>>, phase # "idle", pos' = 1
  PROVE  HookIndInv'
<1>1. RegistryInv' /\ Registered' = Registered
  BY RegistryUnchanged DEF HookIndInv
<1>2. DeadInv'
  BY <1>1 DEF HookIndInv, DeadInv
<1>3. WalkInv'
  <2>1. phase' \in Walks => hooks'[phase'] \in Seq(Entry)
    BY <1>1 DEF RegistryInv, RegistryType, Walks, HookType
  <2>2. phase' \in Walks => \A i \in DOMAIN hooks'[phase'] : ~(i < 1)
    BY <2>1
  <2>3. QED
    BY <2>2 DEF WalkInv
<1>4. QED
  BY <1>1, <1>2, <1>3 DEF HookIndInv

(* The three places at which emulate() cleans up. *)
LEMMA CleanupStageKeeps ==
  ASSUME HookIndInv, Cleanup, UNCHANGED <<added, live, dead>>, pos' = 1
  PROVE  HookIndInv' /\ queue' = <<>> /\ Registered' = live'
<1>1. RegistryInv' /\ queue' = <<>> /\ Registered' = live
  BY CleanupKeeps DEF HookIndInv
<1>2. DeadInv'
  BY <1>1 DEF HookIndInv, DeadInv
<1>3. WalkInv'
  <2>1. phase' \in Walks => hooks'[phase'] \in Seq(Entry)
    BY <1>1 DEF RegistryInv, RegistryType, Walks, HookType
  <2>2. phase' \in Walks => \A i \in DOMAIN hooks'[phase'] : ~(i < 1)
    BY <2>1
  <2>3. QED
    BY <2>2 DEF WalkInv
<1>4. QED
  BY <1>1, <1>2, <1>3 DEF HookIndInv

(* The calls of the user while nothing is emulated. *)
LEMMA UserKeeps ==
  ASSUME HookIndInv, User \/ (queue = <<>> /\ ClearHooks)
  PROVE  HookIndInv'
<1>0. RegistryInv /\ DeadInv /\ WalkInv
  BY DEF HookIndInv
<1>1. ASSUME NEW t \in HookType, Add(t) PROVE HookIndInv'
  <2>1. AddTo(t) /\ dead' = dead /\ phase = "idle" /\ UNCHANGED <<phase, pos, called>>
    BY <1>1 DEF Add, loop
  <2>2. RegistryInv' /\ live' = live \union {added + 1} /\ added + 1 \notin dead
    BY <1>0, <2>1, AddKeeps
  <2>3. DeadInv'
    BY <1>0, <2>1, <2>2 DEF DeadInv
  <2>4. WalkInv'
    BY <1>0, <2>1 DEF WalkInv, Walks
  <2>5. QED
    BY <2>2, <2>3, <2>4 DEF HookIndInv
<1>2. ASSUME NEW t \in HookType, NEW i \in DOMAIN hooks[t], Remove(t, i) PROVE HookIndInv'
  <2> DEFINE h == hooks[t][i].hook
  <2>1. /\ Request(t, i) /\ dead' = dead \union {h} /\ phase = "idle"
        /\ UNCHANGED <<phase, pos, called>>
    BY <1>2 DEF Remove, loop
  <2>2. h \in 1 .. added
    <3>1. /\ hooks[t] \in Seq(Entry) /\ hooks[t][i] \in In(t) /\ added \in Nat
      BY <1>0 DEF RegistryInv, RegistryType, In
    <3>2. hooks[t][i] \in Entry
      BY <3>1
    <3>3. h \in Nat \ {0} /\ h <= added
      BY <1>0, <3>1, <3>2, HookAssumption DEF RegistryInv, ListsInv, Entry, Hook
    <3>4. QED
      BY <3>1, <3>3
  <2>3. dead' \subseteq 1 .. added
    BY <1>0, <2>1, <2>2 DEF RegistryInv, RegistryType
  <2>4. RegistryInv' /\ live' = live \ {h}
    BY <1>0, <2>1, <2>3, RequestKeeps
  <2>5. DeadInv'
    BY <1>0, <2>1, <2>4 DEF DeadInv
  <2>6. WalkInv'
    BY <1>0, <2>1 DEF WalkInv, Walks
  <2>7. QED
    BY <2>4, <2>5, <2>6 DEF HookIndInv
<1>3. ASSUME queue = <<>>, ClearHooks PROVE HookIndInv'
  <2>1. /\ \A t \in HookType : hooks'[t] = <<>> /\ has'[t] = FALSE
        /\ hooks' = [t \in HookType |-> <<>>] /\ has' = [t \in HookType |-> FALSE]
        /\ next_id' = 1 /\ live' = {} /\ phase = "idle"
        /\ UNCHANGED <<type_of, queue, requested, phase, pos, called, added, dead>>
    BY <1>3 DEF ClearHooks, loop
  <2>2. Queued' = {} /\ Entries' = {} /\ Registered' = {} /\ \A t \in HookType : In(t)' = {}
    BY <1>3, <2>1 DEF Queued, Entries, In, Registered
  <2>3. RegistryType'
    <3>1. <<>> \in Seq(Entry)
      OBVIOUS
    <3>2. hooks' \in [HookType -> Seq(Entry)] /\ has' \in [HookType -> BOOLEAN]
      BY <2>1, <3>1
    <3>3. QED
      BY <1>0, <2>1, <3>2 DEF RegistryInv, RegistryType
  <2>4. ListsInv' /\ LiveInv'
    BY <1>0, <2>1, <2>2 DEF RegistryInv, ListsInv, LiveInv
  <2>5. DeadInv' /\ WalkInv'
    BY <1>0, <2>1, <2>2 DEF DeadInv, WalkInv, Walks
  <2>6. QED
    BY <2>3, <2>4, <2>5 DEF HookIndInv, RegistryInv
<1>4. QED
  BY <1>1, <1>2, <1>3 DEF User

(* A callback may ask for removals and add hooks to the other lists: the    *)
(* list that is walked stays, and the hook at the position is called.       *)
LEMMA CallbackKeeps ==
  ASSUME HookIndInv, NEW t \in Walks, Callback(t)
  PROVE  HookIndInv'
<1>0. RegistryInv /\ DeadInv /\ WalkInv
  BY DEF HookIndInv
<1>1. /\ phase = t /\ phase' = t /\ dead' = dead /\ pos' = pos + 1 /\ t \in HookType
      /\ called' = (IF pos = 1 THEN {} ELSE called) \union {hooks[t][pos].hook}
  BY DEF Callback, Walking, Walks, HookType
<1>2. dead \cap Registered = {} /\ dead \cap live = {} /\ dead \subseteq 1 .. added
  BY <1>0, <1>1 DEF DeadInv, Walks, RegistryInv, RegistryType
<1>3. RegistryInv' /\ dead' \cap live' = {} /\ dead' \cap Registered' = {} /\ hooks'[t] = hooks[t]
  <2>1. CASE UNCHANGED <<registry, added, live>>
    <3>1. RegistryInv' /\ Registered' = Registered
      BY <1>0, <1>1, <2>1, RegistryUnchanged
    <3>2. QED
      BY <1>1, <1>2, <2>1, <3>1 DEF registry
  <2>2. ASSUME NEW u \in HookType, NEW i \in DOMAIN hooks[u], Request(u, i)
        PROVE  RegistryInv' /\ dead' \cap live' = {} /\ dead' \cap Registered' = {}
               /\ hooks'[t] = hooks[t]
    <3>1. RegistryInv' /\ live' = live \ {hooks[u][i].hook} /\ Registered' = Registered
      BY <1>0, <1>1, <1>2, <2>2, RequestKeeps
    <3>2. QED
      BY <1>1, <1>2, <2>2, <3>1 DEF Request
  <2>3. ASSUME NEW u \in HookType \ {t}, AddTo(u)
        PROVE  RegistryInv' /\ dead' \cap live' = {} /\ dead' \cap Registered' = {}
               /\ hooks'[t] = hooks[t]
    <3>1. /\ RegistryInv' /\ live' = live \union {added + 1}
          /\ Registered' = Registered \union {added + 1} /\ added + 1 \notin dead
          /\ hooks'[t] = hooks[t]
      BY <1>0, <1>1, <2>3, AddKeeps
    <3>2. QED
      BY <1>1, <1>2, <3>1
  <2>4. QED
    BY <2>1, <2>2, <2>3 DEF Callback
<1>4. WalkInv'
  <2>1. hooks[t] \in Seq(Entry) /\ pos \in Nat \ {0}
    BY <1>0, <1>1 DEF RegistryInv, RegistryType, WalkInv
  <2>2. ASSUME NEW i \in DOMAIN hooks[t], i < pos + 1 PROVE hooks[t][i].hook \in called'
    <3>1. i \in Nat \ {0}
      BY <2>1
    <3>2. CASE i = pos
      BY <1>1, <3>2
    <3>3. CASE i # pos
      <4>1. i < pos /\ pos # 1
        BY <2>1, <2>2, <3>1, <3>3
      <4>2. hooks[t][i].hook \in called
        BY <1>0, <1>1, <4>1 DEF WalkInv
      <4>3. QED
        BY <1>1, <4>1, <4>2
    <3>4. QED
      BY <3>2, <3>3
  <2>3. QED
    BY <1>1, <1>3, <2>1, <2>2 DEF WalkInv
<1>5. DeadInv'
  BY <1>3 DEF DeadInv
<1>6. QED
  BY <1>3, <1>4, <1>5 DEF HookIndInv

LEMMA HookIndInvStep ==
  ASSUME HookIndInv, [Next]_vars PROVE HookIndInv'
<1>1. ASSUME NEW n \in 1 .. MaxCycles, EmulateStart(n) PROVE HookIndInv'
  BY <1>1, CleanupStageKeeps DEF EmulateStart, Goto
<1>2. CASE LoopHead
  <2>1. phase # "idle" /\ pos' = 1 /\ UNCHANGED <<registry, ghosts>>
    BY <1>2 DEF LoopHead, Goto
  <2>2. QED
    BY <2>1, StageKeeps DEF ghosts
<1>3. CASE Validate
  <2>1. phase # "idle" /\ pos' = 1 /\ UNCHANGED <<registry, ghosts>>
    BY <1>3 DEF Validate, Goto
  <2>2. QED
    BY <2>1, StageKeeps DEF ghosts
<1>4. CASE Fetched
  <2>1. phase # "idle" /\ pos' = 1 /\ UNCHANGED <<registry, ghosts>>
    BY <1>4 DEF Fetched, Goto
  <2>2. QED
    BY <2>1, StageKeeps DEF ghosts
<1>5. CASE Revalidate
  <2>1. phase # "idle" /\ pos' = 1 /\ UNCHANGED <<registry, ghosts>>
    BY <1>5 DEF Revalidate, Goto
  <2>2. QED
    BY <2>1, StageKeeps DEF ghosts
<1>6. CASE Decode \/ Decoded
  <2>1. phase # "idle" /\ pos' = 1 /\ UNCHANGED <<registry, ghosts>>
    BY <1>6 DEF Decode, Decoded, Goto
  <2>2. QED
    BY <2>1, StageKeeps DEF ghosts
<1>7. CASE Execute \/ Executed
  <2>1. phase # "idle" /\ pos' = 1 /\ UNCHANGED <<registry, ghosts>>
    BY <1>7 DEF Execute, Executed, Goto
  <2>2. QED
    BY <2>1, StageKeeps DEF ghosts
<1>8. CASE EmulateEnd
  BY <1>8, CleanupStageKeeps DEF EmulateEnd, Goto, ghosts
<1>9. ASSUME NEW t \in Walks, Callback(t) PROVE HookIndInv'
  BY <1>9, CallbackKeeps
<1>10. ASSUME NEW t \in Walks, WalkEnd(t) PROVE HookIndInv'
  BY <1>10, CleanupStageKeeps DEF WalkEnd, Goto, ghosts
<1>11. ASSUME NEW t \in Walks, NoWalk(t) PROVE HookIndInv'
  <2>1. phase # "idle" /\ pos' = 1 /\ UNCHANGED <<registry, added, live, dead>>
    BY <1>11 DEF NoWalk, Goto, Walks
  <2>2. QED
    BY <2>1, StageKeeps
<1>12. CASE User \/ (queue = <<>> /\ ClearHooks)
  BY <1>12, UserKeeps
<1>13. CASE UNCHANGED vars
  <2>1. UNCHANGED <<registry, added, live, dead>> /\ UNCHANGED <<phase, pos, called, hooks>>
    BY <1>13 DEF vars, loop, ghosts, registry
  <2>2. RegistryInv' /\ Registered' = Registered
    BY <2>1, RegistryUnchanged DEF HookIndInv
  <2>3. DeadInv' /\ WalkInv'
    BY <2>1, <2>2 DEF HookIndInv, DeadInv, WalkInv
  <2>4. QED
    BY <2>2, <2>3 DEF HookIndInv
<1>14. QED
  BY <1>1, <1>2, <1>3, <1>4, <1>5, <1>6, <1>7, <1>8, <1>9, <1>10, <1>11, <1>12, <1>13
     DEF Next, Emulate

(* The registry, what was removed and the walk are consistent in every      *)
(* state of the emulator.                                                   *)
THEOREM RegistryConsistent == Spec => []HookIndInv
<1>1. Init => HookIndInv
  BY InitKeeps
<1>2. HookIndInv /\ [Next]_vars => HookIndInv'
  BY HookIndInvStep
<1>3. QED
  BY <1>1, <1>2, PTL DEF Spec

-----------------------------------------------------------------------------
(* A hook that was removed between two calls of emulate() is never called   *)
(* again, however many hooks there are and whatever the callbacks do.       *)
THEOREM NeverCalledAfterRemoval == Spec => []NoDeadCall
<1>1. HookIndInv => NoDeadCall
  <2>1. SUFFICES ASSUME HookIndInv, NEW t \in Walks, Walking(t)
                 PROVE  hooks[t][pos].hook \notin dead
    BY DEF NoDeadCall
  <2>2. t \in HookType /\ phase # "idle"
    BY <2>1 DEF Walking, Walks, HookType
  <2>3. pos \in DOMAIN hooks[t]
    BY <2>1, <2>2 DEF HookIndInv, WalkInv, RegistryInv, RegistryType, Walking
  <2>4. hooks[t][pos].hook \in Registered
    BY <2>2, <2>3 DEF Registered
  <2>5. QED
    BY <2>1, <2>2, <2>4 DEF HookIndInv, DeadInv
<1>2. QED
  BY <1>1, RegistryConsistent, PTL

(* Cleaning up erases nothing but what was asked to be removed: a hook that *)
(* is in use stays in its list.                                             *)
THEOREM StaysRegistered == Spec => []LiveHooksRegistered
<1>1. HookIndInv => LiveHooksRegistered
  BY DEF HookIndInv, RegistryInv, LiveInv, LiveHooksRegistered
<1>2. QED
  BY <1>1, RegistryConsistent, PTL

(* Whenever the walk of a list ends, or is skipped because of its flag, all *)
(* hooks of the list have been called.                                      *)
THEOREM CalledWhileRegistered == Spec => RegisteredHooksCalled
<1> DEFINE AllCalled == \A t \in Walks : (phase = t /\ phase' # t)
                          => {hooks[t][i].hook : i \in DOMAIN hooks[t]} \subseteq called'
<1>1. HookIndInv /\ [Next]_vars => AllCalled
  <2>1. SUFFICES ASSUME HookIndInv, [Next]_vars, NEW t \in Walks, phase = t, phase' # t
                 PROVE  {hooks[t][i].hook : i \in DOMAIN hooks[t]} \subseteq called'
    OBVIOUS
  <2>2. t \in HookType /\ pos \in Nat /\ hooks[t] \in Seq(Entry)
    BY <2>1 DEF HookIndInv, RegistryInv, RegistryType, WalkInv, Walks, HookType
  <2>3. WalkEnd(t) \/ NoWalk(t)
    <3>1. phase \notin {"idle", "loop", "validate", "fetched", "revalidate", "decoding", "decoded",
                        "executing", "executed_all", "end"}
      BY <2>1 DEF Walks
    <3>2. ~User /\ ~(queue = <<>> /\ ClearHooks)
      BY <3>1 DEF User, Add, Remove, ClearHooks
    <3>3. ~\E n \in 1 .. MaxCycles : EmulateStart(n)
      BY <3>1 DEF EmulateStart
    <3>4. ~(LoopHead \/ Validate \/ Fetched \/ Revalidate \/ Decode \/ Decoded \/ Execute \/ Executed
            \/ EmulateEnd)
      BY <3>1 DEF LoopHead, Validate, Fetched, Revalidate, Decode, Decoded, Execute, Executed, EmulateEnd
    <3>5. ~UNCHANGED vars
      BY <2>1 DEF vars, loop
    <3>6. PICK u \in Walks : Callback(u) \/ WalkEnd(u) \/ NoWalk(u)
      BY <2>1, <3>2, <3>3, <3>4, <3>5 DEF Next, Emulate
    <3>7. u = t /\ ~Callback(u)
      BY <2>1, <3>6 DEF Callback, Walking, WalkEnd, NoWalk
    <3>8. QED
      BY <3>6, <3>7
  <2>4. CASE WalkEnd(t)
    <3>1. pos > Len(hooks[t]) /\ called' = called
      BY <2>4 DEF WalkEnd, ghosts
    <3>2. \A i \in DOMAIN hooks[t] : i < pos
      BY <2>2, <3>1
    <3>3. QED
      BY <2>1, <3>1, <3>2 DEF HookIndInv, WalkInv
  <2>5. CASE NoWalk(t)
    <3>1. hooks[t] = <<>>
      BY <2>1, <2>2, <2>5 DEF NoWalk, HookIndInv, RegistryInv, ListsInv
    <3>2. QED
      BY <3>1
  <2>6. QED
    BY <2>3, <2>4, <2>5
<1>2. HookIndInv /\ [Next]_vars => [AllCalled]_vars
  BY <1>1
<1>3. Spec => [][AllCalled]_vars
  BY <1>2, RegistryConsistent, PTL DEF Spec
<1>4. QED
  BY <1>3, PTL DEF RegisteredHooksCalled

(* When emulate() returns nothing is queued for removal, and the registered *)
(* hooks are exactly those in use.                                          *)
THEOREM RemovalsDone == Spec => RemovalsCompleted
<1> DEFINE Done == (phase = "end" /\ phase' = "idle") => queue' = <<>> /\ Registered' = live'
<1>1. HookIndInv /\ [Next]_vars => Done
  <2>1. SUFFICES ASSUME HookIndInv, [Next]_vars, phase = "end", phase' = "idle"
                 PROVE  queue' = <<>> /\ Registered' = live'
    OBVIOUS
  <2>2. EmulateEnd
    <3>1. ~User /\ ~(queue = <<>> /\ ClearHooks)
      BY <2>1 DEF User, Add, Remove, ClearHooks
    <3>2. ~\E n \in 1 .. MaxCycles : EmulateStart(n)
      BY <2>1 DEF EmulateStart
    <3>3. ~(LoopHead \/ Validate \/ Fetched \/ Revalidate \/ Decode \/ Decoded \/ Execute \/ Executed)
      BY <2>1 DEF LoopHead, Validate, Fetched, Revalidate, Decode, Decoded, Execute, Executed
    <3>4. ~\E t \in Walks : Callback(t) \/ WalkEnd(t) \/ NoWalk(t)
      BY <2>1 DEF Walks, Callback, Walking, WalkEnd, NoWalk
    <3>5. ~UNCHANGED vars
      BY <2>1 DEF vars, loop
    <3>6. QED
      BY <2>1, <3>1, <3>2, <3>3, <3>4, <3>5 DEF Next, Emulate
  <2>3. QED
    BY <2>1, <2>2, CleanupStageKeeps DEF EmulateEnd, Goto, ghosts
<1>2. HookIndInv /\ [Next]_vars => [Done]_vars
  BY <1>1
<1>3. Spec => [][Done]_vars
  BY <1>2, RegistryConsistent, PTL DEF Spec
<1>4. QED
  BY <1>3 DEF RemovalsCompleted

(* Once a callback has called stop_emulation, no stage and no test of the   *)
(* loop puts another return code in its place, except for an error.         *)
THEOREM StopsAreKept == Spec => []StopNotLost
<1>1. Init => StopNotLost
  BY DEF Init, StopNotLost
<1>2. StopNotLost /\ [Next]_vars => StopNotLost'
  <2>1. SUFFICES ASSUME StopNotLost, [Next]_vars, stopped'
                 PROVE  code' \in {"STOP_EMULATION_CALLED", "ERROR"}
    BY DEF StopNotLost
  <2>2. CASE \E n \in 1 .. MaxCycles : EmulateStart(n)
    BY <2>1, <2>2 DEF EmulateStart
  <2>3. CASE LoopHead
    <3>1. stopped
      BY <2>1, <2>3 DEF LoopHead, ghosts
    <3>2. code # "OK" /\ code' = code
      BY <2>1, <2>3, <3>1 DEF LoopHead, StopNotLost
    <3>3. QED
      BY <2>1, <3>1, <3>2 DEF StopNotLost
  <2>4. CASE Validate \/ Fetched \/ Revalidate \/ Decode \/ Decoded
    BY <2>1, <2>4 DEF Validate, Fetched, Revalidate, Decode, Decoded, StopNotLost, ghosts
  <2>5. CASE Execute \/ Executed \/ EmulateEnd
    BY <2>1, <2>5 DEF Execute, Executed, EmulateEnd, StopNotLost, ghosts
  <2>6. ASSUME NEW t \in Walks, Callback(t) \/ WalkEnd(t) \/ NoWalk(t)
        PROVE  code' \in {"STOP_EMULATION_CALLED", "ERROR"}
    <3>1. CASE Callback(t)
      <4>1. (code' = code /\ stopped' = stopped) \/ code' = "STOP_EMULATION_CALLED"
        BY <3>1 DEF Callback
      <4>2. QED
        BY <2>1, <4>1 DEF StopNotLost
    <3>2. CASE WalkEnd(t) \/ NoWalk(t)
      BY <2>1, <3>2 DEF WalkEnd, NoWalk, StopNotLost, ghosts
    <3>3. QED
      BY <2>6, <3>1, <3>2
  <2>7. CASE User \/ (queue = <<>> /\ ClearHooks)
    BY <2>1, <2>7 DEF User, Add, Remove, ClearHooks, StopNotLost, loop
  <2>8. CASE UNCHANGED vars
    BY <2>1, <2>8 DEF vars, loop, ghosts, StopNotLost
  <2>9. QED
    BY <2>1, <2>2, <2>3, <2>4, <2>5, <2>6, <2>7, <2>8 DEF Next, Emulate
<1>3. QED
  BY <1>1, <1>2, PTL DEF Spec
=============================================================================
