------------------------ MODULE LoaderAndTimersProofs ------------------------
(***************************************************************************)
(* The safety properties of ModuleLoader, for all threads, files, events   *)
(* attached to and lists of modules to start with, and those of            *)
(* Housekeeping, for all guilds and shards, and in both for any number of  *)
(* events, requests, changes and crashes.                                  *)
(***************************************************************************)
EXTENDS ModuleLoader, Housekeeping, SumTheorems, FiniteSetTheorems,
        SequenceTheorems, TLAPS

-----------------------------------------------------------------------------
(* Lists of objects *)

Increasing(s) == \A i, j \in DOMAIN s : i < j => s[i] < s[j]

(* An object that is made last goes to the end of an increasing list.       *)
LEMMA AppendIncreasing ==
    ASSUME NEW n \in Nat, NEW s \in Seq(1..n), Increasing(s)
    PROVE  /\ Append(s, n + 1) \in Seq(1..(n + 1))
           /\ Increasing(Append(s, n + 1))
           /\ ToSet(Append(s, n + 1)) = ToSet(s) \cup {n + 1}
  <1> DEFINE t == Append(s, n + 1)
  <1>1. /\ t \in Seq(1..(n + 1)) /\ DOMAIN t = 1..(Len(s) + 1) /\ DOMAIN s = 1..Len(s)
        /\ Len(s) \in Nat /\ t[Len(s) + 1] = n + 1
        /\ \A i \in 1..Len(s) : t[i] = s[i] /\ s[i] \in 1..n
    <2>1. n + 1 \in 1..(n + 1) /\ s \in Seq(1..(n + 1))
      OBVIOUS
    <2> QED BY <2>1
  <1> HIDE DEF t
  <1>2. ASSUME NEW i \in DOMAIN t, NEW j \in DOMAIN t, i < j PROVE t[i] < t[j]
    <2>1. i \in 1..Len(s) /\ t[i] = s[i] /\ s[i] \in 1..n
      BY <1>1, <1>2
    <2>2. CASE j \in 1..Len(s)
      <3>1. t[j] = s[j] /\ s[i] < s[j]
        BY <1>1, <1>2, <2>1, <2>2 DEF Increasing
      <3> QED BY <2>1, <3>1
    <2>3. CASE j = Len(s) + 1
      BY <1>1, <2>1, <2>3
    <2> QED BY <1>1, <2>2, <2>3
  <1>3. ToSet(t) = ToSet(s) \cup {n + 1}
    <2>1. \A i \in DOMAIN t : t[i] \in ToSet(s) \cup {n + 1}
      <3>1. \A i \in DOMAIN t : i \in DOMAIN s \/ i = Len(s) + 1
        BY <1>1
      <3>2. \A i \in DOMAIN s : t[i] \in ToSet(s)
        BY <1>1 DEF ToSet
      <3> QED BY <1>1, <3>1, <3>2
    <2>2. \A i \in DOMAIN s : i \in DOMAIN t /\ t[i] = s[i]
      BY <1>1
    <2>3. Len(s) + 1 \in DOMAIN t
      BY <1>1
    <2> QED BY <1>1, <2>1, <2>2, <2>3 DEF ToSet
  <1> QED BY <1>1, <1>2, <1>3 DEF t, Increasing

(* An increasing list holds each object once: without the first, it is the  *)
(* list without the object.                                                 *)
LEMMA RemoveFirstIncreasing ==
    ASSUME NEW n \in Nat, NEW s \in Seq(1..n), Increasing(s), NEW o
    PROVE  /\ RemoveFirst(s, o) \in Seq(1..n)
           /\ Increasing(RemoveFirst(s, o))
           /\ ToSet(RemoveFirst(s, o)) = ToSet(s) \ {o}
  <1>1. /\ Len(s) \in Nat /\ DOMAIN s = 1..Len(s) /\ \A i \in 1..Len(s) : s[i] \in 1..n
    OBVIOUS
  <1>2. CASE \A i \in 1..Len(s) : s[i] # o
    <2>1. RemoveFirst(s, o) = s
      BY <1>2 DEF RemoveFirst
    <2> QED BY <1>1, <1>2, <2>1 DEF ToSet
  <1>3. CASE \E i \in 1..Len(s) : s[i] = o
    <2>1. PICK k \in 1..Len(s) : s[k] = o
      BY <1>3
    <2>2. \A i \in 1..Len(s) : s[i] = o => i = k
      <3> SUFFICES ASSUME NEW i \in 1..Len(s), s[i] = o, i # k PROVE FALSE
        OBVIOUS
      <3>1. i < k \/ k < i
        BY <1>1
      <3>2. s[i] < s[k] \/ s[k] < s[i]
        BY <1>1, <3>1 DEF Increasing
      <3> QED BY <1>1, <2>1, <3>2
    <2>3. SelectInSeq(s, LAMBDA v : v = o) = k
      <3>1. {i \in 1..Len(s) : s[i] = o} = {k}
        BY <2>1, <2>2
      <3>2. Min({k}) = k
        BY DEF Min
      <3> QED BY <3>1, <3>2 DEF SelectInSeq
    <2> DEFINE t == SubSeq(s, 1, k - 1) \o SubSeq(s, k + 1, Len(s))
    <2>4. RemoveFirst(s, o) = t
      BY <1>3, <2>3 DEF RemoveFirst, RemoveAt
    <2>5. /\ t \in Seq(1..n) /\ DOMAIN t = 1..(Len(s) - 1)
          /\ \A i \in 1..(Len(s) - 1) : t[i] = IF i < k THEN s[i] ELSE s[i + 1]
      <3> DEFINE a == SubSeq(s, 1, k - 1)
                 b == SubSeq(s, k + 1, Len(s))
      <3>1. /\ a \in Seq(1..n) /\ Len(a) = k - 1
            /\ \A i \in 1..(k - 1) : a[i] = s[i]
        OBVIOUS
      <3>2. /\ b \in Seq(1..n) /\ Len(b) = Len(s) - k
            /\ \A i \in 1..(Len(s) - k) : b[i] = s[k + i]
        OBVIOUS
      <3> HIDE DEF a, b
      <3>3. /\ a \o b \in Seq(1..n) /\ DOMAIN (a \o b) = 1..(Len(s) - 1)
            /\ \A i \in 1..(Len(s) - 1) :
                   (a \o b)[i] = IF i <= k - 1 THEN a[i] ELSE b[i - (k - 1)]
        <4>1. /\ a \o b \in Seq(1..n) /\ Len(a \o b) = Len(a) + Len(b)
              /\ DOMAIN (a \o b) = 1..(Len(a) + Len(b))
              /\ \A i \in 1..(Len(a) + Len(b)) :
                     (a \o b)[i] = IF i <= Len(a) THEN a[i] ELSE b[i - Len(a)]
          <5>1. a \in Seq(1..n) /\ b \in Seq(1..n)
            BY <3>1, <3>2
          <5>2. /\ a \o b \in Seq(1..n) /\ Len(a \o b) = Len(a) + Len(b)
                /\ \A i \in 1..(Len(a) + Len(b)) :
                       (a \o b)[i] = IF i <= Len(a) THEN a[i] ELSE b[i - Len(a)]
            BY <5>1, ConcatProperties
          <5>3. DOMAIN (a \o b) = 1..Len(a \o b)
            BY <5>2
          <5> QED BY <5>2, <5>3
        <4>2. Len(a) + Len(b) = Len(s) - 1
          BY <1>1, <2>1, <3>1, <3>2
        <4> QED BY <3>1, <4>1, <4>2
      <3>4. ASSUME NEW i \in 1..(Len(s) - 1)
            PROVE  (a \o b)[i] = IF i < k THEN s[i] ELSE s[i + 1]
        <4>1. CASE i < k
          BY <3>1, <3>3, <4>1
        <4>2. CASE ~ (i < k)
          <5>1. (a \o b)[i] = b[i - (k - 1)]
            <6>1. ~ (i <= k - 1)
              BY <4>2
            <6> QED BY <3>3, <6>1
          <5>2. i - (k - 1) \in 1..(Len(s) - k) /\ k + (i - (k - 1)) = i + 1
            BY <4>2
          <5> QED BY <3>2, <4>2, <5>1, <5>2
        <4> QED BY <4>1, <4>2
      <3> QED BY <3>3, <3>4 DEF a, b
    <2> HIDE DEF t
    <2>6. Increasing(t)
      <3> SUFFICES ASSUME NEW i \in 1..(Len(s) - 1), NEW j \in 1..(Len(s) - 1), i < j
                   PROVE  t[i] < t[j]
        BY <2>5 DEF Increasing
      <3>1. \A p, q \in 1..Len(s) : p < q => s[p] < s[q]
        BY <1>1 DEF Increasing
      <3>2. i \in 1..Len(s) /\ j \in 1..Len(s) /\ i + 1 \in 1..Len(s) /\ j + 1 \in 1..Len(s)
        BY <1>1
      <3>3. s[i] < s[j] /\ s[i] < s[j + 1] /\ s[i + 1] < s[j + 1]
        BY <3>1, <3>2
      <3>4. t[i] = (IF i < k THEN s[i] ELSE s[i + 1]) /\ t[j] = (IF j < k THEN s[j] ELSE s[j + 1])
        BY <2>5
      <3>5. i < k \/ ~ (j < k)
        BY <1>1, <2>1
      <3> QED BY <3>3, <3>4, <3>5
    <2>7. ToSet(t) \subseteq ToSet(s) \ {o}
      <3> SUFFICES ASSUME NEW i \in 1..(Len(s) - 1) PROVE t[i] \in ToSet(s) \ {o}
        BY <2>5 DEF ToSet
      <3>1. PICK j \in 1..Len(s) : j # k /\ t[i] = s[j]
        <4>1. CASE i < k
          <5>1. i \in 1..Len(s) /\ i # k /\ t[i] = s[i]
            BY <1>1, <2>1, <2>5, <4>1, SMTT(30)
          <5> QED BY <5>1
        <4>2. CASE ~ (i < k)
          <5>1. i + 1 \in 1..Len(s) /\ i + 1 # k /\ t[i] = s[i + 1]
            BY <1>1, <2>1, <2>5, <4>2
          <5> QED BY <5>1
        <4> QED BY <4>1, <4>2
      <3> QED BY <1>1, <2>2, <3>1 DEF ToSet
    <2>8. ASSUME NEW i \in 1..Len(s), s[i] # o PROVE s[i] \in ToSet(t)
      <3>1. CASE i < k
        <4>1. i \in DOMAIN t /\ t[i] = s[i]
          BY <1>1, <2>1, <2>5, <3>1, SMTT(30)
        <4> QED BY <4>1 DEF ToSet
      <3>2. CASE i > k
        <4>1. i - 1 \in DOMAIN t /\ t[i - 1] = s[i]
          BY <1>1, <2>1, <2>5, <3>2
        <4> QED BY <4>1 DEF ToSet
      <3> QED BY <2>1, <2>8, <3>1, <3>2
    <2>9. ToSet(t) = ToSet(s) \ {o}
      BY <1>1, <2>7, <2>8 DEF ToSet
    <2> QED BY <2>4, <2>5, <2>6, <2>9
  <1> QED BY <1>2, <1>3

(* A finite set as a sequence: all its elements and no others.              *)
LEMMA SetAsSeq ==
    ASSUME NEW S, IsFiniteSet(S)
    PROVE  /\ SetToSeq(S) \in Seq(S)
           /\ \A x \in S : \E i \in DOMAIN SetToSeq(S) : SetToSeq(S)[i] = x
  <1> DEFINE n == Cardinality(S)
  <1>1. n \in Nat /\ ExistsBijection(1..n, S)
    BY FS_CardinalityType
  <1>2. PICK b \in [1..n -> S] : IsInjective(b)
    <2>1. PICK b : b \in Bijection(1..n, S)
      BY <1>1 DEF ExistsBijection
    <2>2. b \in Injection(1..n, S)
      BY <2>1 DEF Bijection
    <2> QED BY <2>2 DEF Injection, IsInjective
  <1> DEFINE f == SetToSeq(S)
  <1>3. f \in [1..n -> S] /\ IsInjective(f)
    BY <1>2 DEF SetToSeq
  <1>4. f \in Seq(S)
    BY <1>1, <1>3
  <1>5. \A x \in S : \E i \in 1..n : f[i] = x
    <2>1. IsFiniteSet(1..n) /\ Cardinality(1..n) = n
      BY <1>1, FS_Interval
    <2>2. f \in Injection(1..n, S)
      BY <1>3 DEF Injection, IsInjective
    <2>3. f \in Surjection(1..n, S)
      BY <2>1, <2>2, FS_Injection
    <2> QED BY <2>3 DEF Surjection
  <1> QED BY <1>3, <1>4, <1>5

-----------------------------------------------------------------------------
(* The handlers at start-up *)

(* The recursion defines a function: there is one for every number of       *)
(* modules, since there is one for none and each extends to the next.       *)
LEMMA HandlersAtStartDef ==
    HandlersAtStart = [i \in 0..Len(Startup) |->
                           IF i = 0 THEN [e \in Events |-> <<>>]
                           ELSE Attached(HandlersAtStart[i - 1], i, Attaches[Startup[i]])]
  <1> DEFINE Extended(h, i) == Attached(h, i, Attaches[Startup[i]])
             none == [e \in Events |-> <<>>]
             Is(f, n) == f = [i \in 0..n |-> IF i = 0 THEN none ELSE Extended(f[i - 1], i)]
  <1>1. Len(Startup) \in Nat
    BY LoaderAssumption DEF LoaderAssumption
  <1>2. \A n \in Nat : \E f : Is(f, n)
    <2> SUFFICES ASSUME {n \in Nat : ~ \E f : Is(f, n)} # {} PROVE FALSE
      OBVIOUS
    <2>1. PICK n \in Nat : /\ ~ \E f : Is(f, n)
                           /\ \A m \in Nat : (~ \E f : Is(f, m)) => n <= m
      <3> DEFINE T == {n \in Nat : ~ \E f : Is(f, n)}
      <3>1. T \subseteq Nat /\ T # {}
        OBVIOUS
      <3> HIDE DEF T
      <3>2. PICK n \in T : \A m \in T : n <= m
        BY <3>1, LeastNumber
      <3> QED BY <3>2, ZenonT(60) DEF T
    <2>2. CASE n = 0
      <3> DEFINE f == [i \in 0..0 |-> none]
      <3> HIDE DEF none, Extended
      <3>1. Is(f, 0)
        OBVIOUS
      <3> QED BY <2>1, <2>2, <3>1
    <2>3. CASE n # 0
      <3>1. n - 1 \in Nat /\ ~ (n <= n - 1)
        BY <2>3
      <3>2. PICK f : Is(f, n - 1)
        BY <2>1, <3>1
      <3> DEFINE g == [i \in 0..n |-> IF i = n THEN Extended(f[n - 1], n) ELSE f[i]]
      <3> HIDE DEF none, Extended
      <3>3. \A i \in 0..n : g[i] = IF i = 0 THEN none ELSE Extended(g[i - 1], i)
        BY <2>3, <3>2
      <3>4. Is(g, n)
        BY <3>3
      <3> QED BY <2>1, <3>4
    <2> QED BY <2>2, <2>3
  <1>3. \E f : Is(f, Len(Startup))
    BY <1>1, <1>2
  <1> QED BY <1>3, Zenon DEF HandlersAtStart

(* The first n modules loaded are attached, each where it wants to be, in   *)
(* the order of the list.                                                   *)
StartedRight(n) ==
    /\ HandlersAtStart[n] \in [Events -> Seq(1..n)]
    /\ \A e \in Events :
           /\ Increasing(HandlersAtStart[n][e])
           /\ ToSet(HandlersAtStart[n][e]) = {i \in 1..n : e \in Attaches[Startup[i]]}

(* After the last file of the list the handlers are those of the modules    *)
(* loaded.                                                                  *)
LEMMA StartUp == StartedRight(Len(Startup))
  <1>1. Len(Startup) \in Nat
    BY LoaderAssumption DEF LoaderAssumption
  <1>2. \A n \in 0..Len(Startup) : StartedRight(n)
    <2> SUFFICES ASSUME {n \in 0..Len(Startup) : ~ StartedRight(n)} # {} PROVE FALSE
      OBVIOUS
    <2>1. PICK n \in 0..Len(Startup) :
              /\ ~ StartedRight(n)
              /\ \A m \in 0..Len(Startup) : ~ StartedRight(m) => n <= m
      <3> DEFINE T == {n \in 0..Len(Startup) : ~ StartedRight(n)}
      <3>1. T \subseteq Nat /\ T # {}
        BY <1>1
      <3> HIDE DEF T
      <3>2. PICK n \in T : \A m \in T : n <= m
        BY <3>1, LeastNumber
      <3> QED BY <3>2 DEF T
    <2>2. CASE n = 0
      <3>1. HandlersAtStart[0] = [e \in Events |-> <<>>]
        BY <1>1, HandlersAtStartDef
      <3> QED BY <2>1, <2>2, <3>1 DEF StartedRight, Increasing, ToSet
    <2>3. CASE n # 0
      <3> DEFINE m == n - 1
                 h == HandlersAtStart[m]
      <3>1. m \in 0..Len(Startup) /\ m \in Nat /\ n = m + 1 /\ ~ (n <= m)
        BY <1>1, <2>3
      <3>2. StartedRight(m)
        BY <2>1, <3>1
      <3>3. HandlersAtStart[n] = Attached(h, n, Attaches[Startup[n]])
        BY <2>3, HandlersAtStartDef
      <3> HIDE DEF m
      <3>4. /\ h \in [Events -> Seq(1..m)]
            /\ \A e \in Events : /\ Increasing(h[e])
                                 /\ ToSet(h[e]) = {i \in 1..m : e \in Attaches[Startup[i]]}
        BY <3>2 DEF StartedRight
      <3>5. \A e \in Events : /\ Append(h[e], n) \in Seq(1..n)
                              /\ Increasing(Append(h[e], n))
                              /\ ToSet(Append(h[e], n)) = ToSet(h[e]) \cup {n}
        BY <3>1, <3>4, AppendIncreasing
      <3>6. \A e \in Events : h[e] \in Seq(1..n)
        BY <3>1, <3>4
      <3>7. 1..n = 1..m \cup {n}
        BY <3>1
      <3>8. HandlersAtStart[n] \in [Events -> Seq(1..n)]
        BY <3>3, <3>5, <3>6 DEF Attached
      <3>9. ASSUME NEW e \in Events
            PROVE  /\ Increasing(HandlersAtStart[n][e])
                   /\ ToSet(HandlersAtStart[n][e]) = {i \in 1..n : e \in Attaches[Startup[i]]}
        <4>1. HandlersAtStart[n][e] =
                  IF e \in Attaches[Startup[n]] THEN Append(h[e], n) ELSE h[e]
          BY <3>3 DEF Attached
        <4>2. CASE e \in Attaches[Startup[n]]
          BY <3>4, <3>5, <3>7, <4>1, <4>2
        <4>3. CASE e \notin Attaches[Startup[n]]
          BY <3>4, <3>7, <4>1, <4>3
        <4> QED BY <4>2, <4>3
      <3> QED BY <2>1, <3>8, <3>9 DEF StartedRight
    <2> QED BY <2>2, <2>3
  <1> QED BY <1>1, <1>2

-----------------------------------------------------------------------------
(* The inductive invariant of the loader *)

(* An object is that of the file it was made from.                          *)
ObjectsOfFiles == \A f \in Loaded : objects[Modules[f]].file = f

(* A thread loads outside of the list of calls only to reload.              *)
LoadsAgain == \A t \in Threads : pc[t] = "load" => command[t].name = "reload"

LoaderInv ==
    /\ TypeOK
    /\ ObjectsOfFiles
    /\ LoadsAgain
    /\ HandlersMatchModules

(* It holds whenever the process begins.                                    *)
LEMMA FreshLoader == LoadAll /\ events \in 0..MaxEvents => LoaderInv
  <1> SUFFICES ASSUME LoadAll, events \in 0..MaxEvents PROVE LoaderInv
    OBVIOUS
  <1> USE LoaderAssumption DEF LoaderAssumption, LoadAll, Fresh
  <1> DEFINE N == Len(Startup)
  <1>1. /\ N \in Nat /\ DOMAIN Startup = 1..N /\ \A i \in 1..N : Startup[i] \in Files
        /\ \A i, j \in 1..N : Startup[i] = Startup[j] => i = j
    BY DEF IsInjective
  <1>2. /\ objects \in Seq([file : Files, state : {"live", "destroyed", "leaked"}])
        /\ Objects = 1..N
        /\ \A i \in 1..N : objects[i].file = Startup[i]
    BY <1>1 DEF Objects
  <1>3. \A f \in Files : \/ Modules[f] = None /\ \A i \in 1..N : Startup[i] # f
                         \/ Modules[f] \in 1..N /\ Startup[Modules[f]] = f
    <2> SUFFICES ASSUME NEW f \in Files
                 PROVE  \/ Modules[f] = None /\ \A i \in 1..N : Startup[i] # f
                        \/ Modules[f] \in 1..N /\ Startup[Modules[f]] = f
      OBVIOUS
    <2>1. Modules[f] = IF \E i \in 1..N : Startup[i] = f
                       THEN CHOOSE i \in 1..N : Startup[i] = f ELSE None
      BY <1>1 DEF LoadedAtStart, Contains
    <2> QED BY <2>1
  <1>4. StartedRight(N)
    BY StartUp
  <1>5. TypeOK
    <2>1. Modules \in [Files -> {None} \cup Objects]
      BY <1>2, <1>3
    <2>2. EventHandlers \in [Events -> Seq(Objects)]
      BY <1>2, <1>4 DEF StartedRight
    <2>3. list_to_call \in [Threads -> Seq(Objects)]
      OBVIOUS
    <2>4. command \in [Threads -> SudoCommands \cup {Ordinary}]
      OBVIOUS
    <2>5. event \in [Threads -> Events]
      BY DEF Events
    <2> QED BY <1>2, <2>1, <2>2, <2>3, <2>4, <2>5 DEF TypeOK
  <1>6. ObjectsOfFiles
    BY <1>2, <1>3 DEF ObjectsOfFiles, Loaded, None
  <1>7. LoadsAgain
    BY DEF LoadsAgain
  <1>8. HandlersMatchModules
    <2> SUFFICES ASSUME NEW e \in Events
                 PROVE  /\ ToSet(EventHandlers[e]) =
                               {Modules[f] : f \in {g \in Loaded : e \in Attaches[g]}}
                        /\ Increasing(EventHandlers[e])
      BY DEF HandlersMatchModules, Increasing
    <2>1. /\ ToSet(EventHandlers[e]) = {i \in 1..N : e \in Attaches[Startup[i]]}
          /\ Increasing(EventHandlers[e])
      BY <1>4 DEF StartedRight
    <2>2. ASSUME NEW i \in 1..N
          PROVE  Startup[i] \in Loaded /\ Modules[Startup[i]] = i
      BY <1>1, <1>3 DEF Loaded, None
    <2>3. ASSUME NEW f \in Loaded PROVE Modules[f] \in 1..N /\ Startup[Modules[f]] = f
      BY <1>3 DEF Loaded
    <2>4. \A i \in 1..N : e \in Attaches[Startup[i]] =>
              \E f \in {g \in Loaded : e \in Attaches[g]} : Modules[f] = i
      BY <2>2
    <2>5. \A f \in {g \in Loaded : e \in Attaches[g]} :
              Modules[f] \in {i \in 1..N : e \in Attaches[Startup[i]]}
      BY <2>3
    <2>6. {i \in 1..N : e \in Attaches[Startup[i]]} =
              {Modules[f] : f \in {g \in Loaded : e \in Attaches[g]}}
      <3> DEFINE I == {i \in 1..N : e \in Attaches[Startup[i]]}
                 F == {g \in Loaded : e \in Attaches[g]}
      <3>1. /\ \A i \in I : \E f \in F : Modules[f] = i
            /\ \A f \in F : Modules[f] \in I
        BY <2>4, <2>5
      <3> HIDE DEF I, F
      <3>2. I = {Modules[f] : f \in F}
        BY <3>1
      <3> QED BY <3>2 DEF I, F
    <2> QED BY <2>1, <2>6
  <1> QED BY <1>5, <1>6, <1>7, <1>8 DEF LoaderInv

(* The invariant of the loader holds at first.                              *)
LEMMA InitLoaderInv == Init => LoaderInv
  BY FreshLoader, LoaderAssumption DEF Init, LoaderAssumption

(* A process that begins again begins as the first.                         *)
LEMMA RestartLoader == TypeOK /\ Restart => LoaderInv'
  <1>1. TypeOK /\ Restart => (LoadAll /\ events \in 0..MaxEvents)'
    BY DEF TypeOK, Restart, LoadAll, Fresh
  <1>2. (LoadAll /\ events \in 0..MaxEvents)' => LoaderInv'
    BY FreshLoader, PTL
  <1> QED BY <1>1, <1>2

(* Most steps leave the objects, their handlers and the map of the modules  *)
(* as they are.                                                             *)
LEMMA SameLoader ==
    ASSUME LoaderInv, UNCHANGED <<Modules, EventHandlers>>, TypeOK',
           \A o \in Objects : objects'[o].file = objects[o].file, LoadsAgain'
    PROVE  LoaderInv'
  <1>1. ObjectsOfFiles'
    BY DEF LoaderInv, TypeOK, ObjectsOfFiles, Loaded, None
  <1>2. HandlersMatchModules'
    BY DEF LoaderInv, HandlersMatchModules, Loaded
  <1> QED BY <1>1, <1>2 DEF LoaderInv

(* A new object is attached behind all others.                              *)
LEMMA LoadKeeps ==
    ASSUME LoaderInv, NEW t \in Threads, NEW f \in Files, Load(t, f)
    PROVE  LoaderInv'
  <1> USE LoaderAssumption DEF LoaderAssumption
  <1> USE DEF LoaderInv
  <1>1. CASE UNCHANGED <<Modules, EventHandlers, objects>>
    <2>1. TypeOK'
      BY <1>1 DEF TypeOK, Load, After, Goto, CallList, dispatch, Objects
    <2>2. LoadsAgain'
      BY DEF Load, After, Goto, dispatch, LoadsAgain, TypeOK
    <2> QED BY <1>1, <2>1, <2>2, SameLoader
  <1>2. CASE Modules[f] = None /\ LoadObject(f)
    <2> DEFINE n == Len(objects)
               o == n + 1
    <2>1. /\ n \in Nat /\ Objects = 1..n
          /\ objects' = Append(objects, [file |-> f, state |-> "live"])
          /\ Modules' = [Modules EXCEPT ![f] = o]
          /\ EventHandlers' = Attached(EventHandlers, o, Attaches[f])
      BY <1>2 DEF LoadObject, TypeOK, Objects
    <2>2. /\ objects' \in Seq([file : Files, state : {"live", "destroyed", "leaked"}])
          /\ Objects' = 1..o
          /\ objects'[o].file = f
          /\ \A i \in 1..n : objects'[i].file = objects[i].file
      BY <2>1 DEF TypeOK, Objects
    <2> HIDE DEF n
    <2>3. \A e \in Events : EventHandlers[e] \in Seq(1..n) /\ Increasing(EventHandlers[e])
      BY <2>1 DEF TypeOK, HandlersMatchModules, Increasing
    <2>4. \A e \in Events : /\ Append(EventHandlers[e], o) \in Seq(1..o)
                            /\ Increasing(Append(EventHandlers[e], o))
                            /\ ToSet(Append(EventHandlers[e], o)) = ToSet(EventHandlers[e]) \cup {o}
      BY <2>1, <2>3, AppendIncreasing
    <2>5. \A s \in Seq(1..n) : s \in Seq(1..o)
      BY <2>1
    <2>6. TypeOK'
      <3>1. Modules' \in [Files -> {None} \cup Objects']
        BY <2>1, <2>2 DEF TypeOK
      <3>2. EventHandlers' \in [Events -> Seq(Objects')]
        BY <2>1, <2>2, <2>3, <2>4, <2>5 DEF Attached
      <3>3. list_to_call' \in [Threads -> Seq(Objects')]
        <4>1. list_to_call' = [list_to_call EXCEPT ![t] = <<>>]
          BY DEF Load, After, CallList
        <4>2. \A u \in Threads : list_to_call[u] \in Seq(1..o)
          BY <2>1, <2>5 DEF TypeOK
        <4>3. \A u \in Threads : list_to_call'[u] \in Seq(1..o)
          <5>1. <<>> \in Seq(1..o) /\ list_to_call \in [Threads -> Seq(Objects)]
            BY DEF TypeOK
          <5>2. \A u \in Threads : list_to_call'[u] = IF u = t THEN <<>> ELSE list_to_call[u]
            BY <4>1, <5>1
          <5> QED BY <4>2, <5>1, <5>2
        <4> QED BY <2>2, <4>1, <4>3 DEF TypeOK
      <3>4. pc' \in [Threads -> {"idle", "copy", "call", "describe", "load", "unload",
                                 "destroy", "count", "store", "compare"}]
        BY DEF Load, After, Goto, TypeOK
      <3> QED BY <2>2, <3>1, <3>2, <3>3, <3>4 DEF TypeOK, Load, dispatch
    <2>7. LoadsAgain'
      BY DEF Load, After, Goto, dispatch, LoadsAgain, TypeOK
    <2>8. /\ Loaded' = Loaded \cup {f} /\ f \notin Loaded
          /\ Modules'[f] = o
          /\ \A g \in Loaded : Modules'[g] = Modules[g]
      BY <1>2, <2>1 DEF TypeOK, Loaded, None
    <2>9. ObjectsOfFiles'
      <3>1. \A g \in Loaded : Modules[g] \in 1..n
        BY <2>1 DEF TypeOK, Loaded
      <3> QED BY <2>2, <2>8, <3>1 DEF ObjectsOfFiles
    <2>10. HandlersMatchModules'
      <3> SUFFICES ASSUME NEW e \in Events
                   PROVE  /\ ToSet(EventHandlers'[e]) =
                                 {Modules'[g] : g \in {h \in Loaded' : e \in Attaches[h]}}
                          /\ Increasing(EventHandlers'[e])
        BY DEF HandlersMatchModules, Increasing
      <3>1. ToSet(EventHandlers[e]) = {Modules[g] : g \in {h \in Loaded : e \in Attaches[h]}}
        BY DEF HandlersMatchModules
      <3>2. EventHandlers'[e] = IF e \in Attaches[f] THEN Append(EventHandlers[e], o)
                                                     ELSE EventHandlers[e]
        BY <2>1 DEF Attached
      <3>3. CASE e \in Attaches[f]
        <4>1. {Modules'[g] : g \in {h \in Loaded' : e \in Attaches[h]}} =
                  {Modules[g] : g \in {h \in Loaded : e \in Attaches[h]}} \cup {o}
          BY <2>8, <3>3
        <4> QED BY <2>4, <3>1, <3>2, <3>3, <4>1
      <3>4. CASE e \notin Attaches[f]
        <4>1. {Modules'[g] : g \in {h \in Loaded' : e \in Attaches[h]}} =
                  {Modules[g] : g \in {h \in Loaded : e \in Attaches[h]}}
          BY <2>8, <3>4
        <4> QED BY <2>3, <3>1, <3>2, <3>4, <4>1
      <3> QED BY <3>3, <3>4
    <2> QED BY <2>6, <2>7, <2>9, <2>10
  <1> QED BY <1>1, <1>2 DEF Load

(* Unloading removes the object from every list it is in, and no other.     *)
LEMMA UnloadKeeps ==
    ASSUME LoaderInv, NEW t \in Threads, NEW f \in Files, UnloadBegin(t, f)
    PROVE  LoaderInv'
  <1> USE DEF LoaderInv
  <1> DEFINE n == Len(objects)
             o == Modules[f]
  <1>1. /\ n \in Nat /\ Objects = 1..n /\ o \in 1..n /\ f \in Loaded
        /\ Modules' = [Modules EXCEPT ![f] = None]
        /\ EventHandlers' = [e \in Events |-> RemoveFirst(EventHandlers[e], o)]
        /\ objects' = objects
    BY DEF UnloadBegin, Without, TypeOK, Objects, Loaded
  <1> HIDE DEF n, o
  <1>2. \A e \in Events : EventHandlers[e] \in Seq(1..n) /\ Increasing(EventHandlers[e])
    BY <1>1 DEF TypeOK, HandlersMatchModules, Increasing
  <1>3. \A e \in Events : /\ EventHandlers'[e] \in Seq(1..n)
                          /\ Increasing(EventHandlers'[e])
                          /\ ToSet(EventHandlers'[e]) = ToSet(EventHandlers[e]) \ {o}
    BY <1>1, <1>2, RemoveFirstIncreasing
  <1>4. TypeOK'
    <2>1. Modules' \in [Files -> {None} \cup Objects']
      BY <1>1 DEF TypeOK, Objects
    <2>2. EventHandlers' \in [Events -> Seq(Objects')]
      BY <1>1, <1>3 DEF Objects
    <2>3. local' \in [Threads -> Nat]
      BY <1>1 DEF UnloadBegin, TypeOK, o
    <2>4. pc' \in [Threads -> {"idle", "copy", "call", "describe", "load", "unload",
                               "destroy", "count", "store", "compare"}]
      BY DEF UnloadBegin, Goto, TypeOK
    <2> QED BY <1>1, <2>1, <2>2, <2>3, <2>4 DEF UnloadBegin, TypeOK, dispatch, Objects
  <1>5. LoadsAgain'
    BY DEF UnloadBegin, Goto, dispatch, LoadsAgain, TypeOK
  <1>6. /\ Loaded' = Loaded \ {f}
        /\ \A g \in Loaded \ {f} : Modules'[g] = Modules[g] /\ Modules[g] # o
    BY <1>1 DEF TypeOK, Loaded, None, ObjectsOfFiles, o
  <1>7. ObjectsOfFiles'
    BY <1>1, <1>6 DEF ObjectsOfFiles
  <1>8. HandlersMatchModules'
    <2> SUFFICES ASSUME NEW e \in Events
                 PROVE  /\ ToSet(EventHandlers'[e]) =
                               {Modules'[g] : g \in {h \in Loaded' : e \in Attaches[h]}}
                        /\ Increasing(EventHandlers'[e])
      BY DEF HandlersMatchModules, Increasing
    <2>1. ToSet(EventHandlers[e]) = {Modules[g] : g \in {h \in Loaded : e \in Attaches[h]}}
      BY DEF HandlersMatchModules
    <2>2. {Modules'[g] : g \in {h \in Loaded' : e \in Attaches[h]}} =
              {Modules[g] : g \in {h \in Loaded : e \in Attaches[h]}} \ {o}
      BY <1>6 DEF o
    <2> QED BY <1>3, <2>1, <2>2
  <1> QED BY <1>4, <1>5, <1>7, <1>8

(* Every step keeps the invariant of the loader.                            *)
LEMMA NextLoaderInv == LoaderInv /\ [Next]_vars => LoaderInv'
  <1> SUFFICES ASSUME LoaderInv, [Next]_vars PROVE LoaderInv'
    OBVIOUS
  <1> USE LoaderAssumption DEF LoaderAssumption
  <1> DEFINE Same == /\ UNCHANGED <<Modules, EventHandlers>>
                     /\ \A o \in Objects : objects'[o].file = objects[o].file
  <1>0. TypeOK /\ LoadsAgain
    BY DEF LoaderInv
  <1>a. ASSUME Same, TypeOK', LoadsAgain' PROVE LoaderInv'
    BY <1>a, SameLoader
  <1> USE DEF At, Goto, CallList, After, loader, dispatch
  <1>1. ASSUME NEW t \in Threads, OnMessage(t) \/ OnReady(t) \/ OnOther(t) PROVE LoaderInv'
    <2>1. PICK e \in Events, c \in SudoCommands \cup {Ordinary} : Receive(t, e, c)
      BY <1>1 DEF OnMessage, OnReady, OnOther, Events
    <2>2. TypeOK' /\ Same
      BY <1>0, <2>1 DEF Receive, TypeOK, Objects
    <2>3. LoadsAgain'
      BY <1>0, <2>1 DEF Receive, TypeOK, LoadsAgain
    <2> QED BY <1>a, <2>2, <2>3
  <1>2. ASSUME NEW t \in Threads, CopyHandlers(t) PROVE LoaderInv'
    <2>1. TypeOK' /\ Same
      BY <1>0, <1>2 DEF CopyHandlers, TypeOK, Objects
    <2>2. LoadsAgain'
      BY <1>0, <1>2 DEF CopyHandlers, TypeOK, LoadsAgain
    <2> QED BY <1>a, <2>1, <2>2
  <1>3. ASSUME NEW t \in Threads, CallModule(t) PROVE LoaderInv'
    <2>1. TypeOK' /\ Same
      <3>1. Tail(list_to_call[t]) \in Seq(Objects)
        BY <1>0, <1>3 DEF CallModule, TypeOK
      <3> QED BY <1>0, <1>3, <3>1 DEF CallModule, TypeOK, Objects
    <2>2. LoadsAgain'
      BY <1>0, <1>3 DEF CallModule, TypeOK, LoadsAgain
    <2> QED BY <1>a, <2>1, <2>2
  <1>4. ASSUME NEW t \in Threads, AllCalled(t) \/ LoadCount(t) \/ StoreCount(t) \/ CompareCount(t)
        PROVE  LoaderInv'
    <2>1. TypeOK' /\ Same
      <3>1. CASE AllCalled(t)
        BY <1>0, <3>1 DEF AllCalled, TypeOK, Objects
      <3>2. CASE LoadCount(t)
        BY <1>0, <3>2 DEF LoadCount, TypeOK, Objects
      <3>3. CASE StoreCount(t)
        BY <1>0, <3>3 DEF StoreCount, TypeOK, Objects
      <3>4. CASE CompareCount(t)
        BY <1>0, <3>4 DEF CompareCount, TypeOK, Objects, Events
      <3> QED BY <1>4, <3>1, <3>2, <3>3, <3>4
    <2>2. LoadsAgain'
      BY <1>0, <1>4 DEF AllCalled, LoadCount, StoreCount, CompareCount, TypeOK, LoadsAgain
    <2> QED BY <1>a, <2>1, <2>2
  <1>5. ASSUME NEW t \in Threads, ListModules(t) PROVE LoaderInv'
    <2> DEFINE L == {Modules[f] : f \in Loaded}
    <2>1. SetToSeq(L) \in Seq(Objects)
      <3>1. IsFiniteSet(L)
        <4> DEFINE g == [f \in Loaded |-> Modules[f]]
        <4>1. g \in Surjection(Loaded, L)
          BY DEF Surjection
        <4>2. IsFiniteSet(Loaded)
          BY FS_Subset DEF Loaded
        <4> QED BY <4>1, <4>2, FS_Surjection
      <3>2. L \subseteq Objects
        BY <1>0 DEF TypeOK, Loaded
      <3>3. SetToSeq(L) \in Seq(L)
        BY <3>1, SetAsSeq
      <3> HIDE DEF L
      <3> QED BY <3>2, <3>3
    <2> HIDE DEF L
    <2>2. list_to_call' = [list_to_call EXCEPT ![t] = SetToSeq(L)]
      BY <1>5 DEF ListModules, L
    <2>3. TypeOK' /\ Same
      BY <1>0, <1>5, <2>1, <2>2 DEF ListModules, TypeOK, Objects
    <2>4. LoadsAgain'
      BY <1>0, <1>5 DEF ListModules, TypeOK, LoadsAgain
    <2> QED BY <1>a, <2>3, <2>4
  <1>6. ASSUME NEW t \in Threads, DescribeModule(t) PROVE LoaderInv'
    <2>1. TypeOK' /\ Same
      <3>1. list_to_call[t] # <<>> => Tail(list_to_call[t]) \in Seq(Objects)
        BY <1>0 DEF TypeOK
      <3>2. PICK where \in {"describe", "idle"}, rest \in Seq(Objects) :
                /\ pc' = [pc EXCEPT ![t] = where]
                /\ list_to_call' = [list_to_call EXCEPT ![t] = rest]
        <4>1. <<>> \in Seq(Objects)
          OBVIOUS
        <4> QED BY <1>6, <3>1, <4>1 DEF DescribeModule
      <3> QED BY <1>0, <1>6, <3>2 DEF DescribeModule, TypeOK, Objects
    <2>2. LoadsAgain'
      BY <1>0, <1>6 DEF DescribeModule, TypeOK, LoadsAgain
    <2> QED BY <1>a, <2>1, <2>2
  <1>7. ASSUME NEW t \in Threads,
               Refuse(t) \/ Show(t) \/ \E f \in Files : UnloadFails(t, f)
        PROVE  LoaderInv'
    <2>1. TypeOK' /\ Same
      <3>1. CASE Refuse(t)
        BY <1>0, <3>1 DEF Refuse, TypeOK, Objects
      <3>2. CASE Show(t)
        BY <1>0, <3>2 DEF Show, TypeOK, Objects
      <3>3. CASE \E f \in Files : UnloadFails(t, f)
        BY <1>0, <3>3 DEF UnloadFails, TypeOK, Objects
      <3> QED BY <1>7, <3>1, <3>2, <3>3
    <2>2. LoadsAgain'
      BY <1>0, <1>7 DEF Refuse, Show, UnloadFails, TypeOK, LoadsAgain
    <2> QED BY <1>a, <2>1, <2>2
  <1>8. ASSUME NEW t \in Threads, Destroy(t) PROVE LoaderInv'
    <2>1. PICK s \in {"destroyed", "leaked"} :
              objects' = [objects EXCEPT ![local[t]].state = s]
      BY <1>8 DEF Destroy
    <2>2. /\ objects' \in Seq([file : Files, state : {"live", "destroyed", "leaked"}])
          /\ Objects' = Objects
          /\ \A o \in Objects : objects'[o].file = objects[o].file
      <3> DEFINE R == [file : Files, state : {"live", "destroyed", "leaked"}]
      <3>1. objects \in Seq(R) /\ DOMAIN objects = 1..Len(objects) /\ Len(objects) \in Nat
        BY <1>0 DEF TypeOK
      <3>2. objects' = [i \in 1..Len(objects) |-> IF i = local[t] THEN [objects[i] EXCEPT !.state = s]
                                                                 ELSE objects[i]]
        BY <2>1, <3>1
      <3>3. \A r \in R : [r EXCEPT !.state = s] \in R /\ [r EXCEPT !.state = s].file = r.file
        OBVIOUS
      <3> HIDE DEF R
      <3>4. \A i \in 1..Len(objects) : objects[i] \in R
        BY <3>1
      <3>5. \A i \in 1..Len(objects) : objects'[i] \in R /\ objects'[i].file = objects[i].file
        BY <3>2, <3>3, <3>4
      <3>6. objects' \in Seq(R) /\ DOMAIN objects' = 1..Len(objects)
        BY <3>1, <3>2, <3>5
      <3> QED BY <3>1, <3>5, <3>6 DEF R, Objects
    <2>3. Same /\ TypeOK'
      <3>1. Same
        BY <1>8, <2>2 DEF Destroy
      <3>2. /\ pc' \in [Threads -> {"idle", "copy", "call", "describe", "load", "unload",
                                   "destroy", "count", "store", "compare"}]
            /\ list_to_call' \in [Threads -> Seq(Objects)]
        <4>1. CASE command[t].name = "reload"
          BY <1>0, <1>8, <4>1 DEF Destroy, TypeOK
        <4>2. CASE command[t].name # "reload"
          <5>1. /\ pc' = [pc EXCEPT ![t] = "idle"]
                /\ list_to_call' = [list_to_call EXCEPT ![t] = <<>>]
            BY <1>8, <4>2 DEF Destroy
          <5>2. <<>> \in Seq(Objects)
            OBVIOUS
          <5> QED BY <1>0, <5>1, <5>2 DEF TypeOK
        <4> QED BY <4>1, <4>2
      <3>3. mtx' \in Threads \cup {"free"}
        BY <1>8 DEF Destroy
      <3>4. UNCHANGED <<Modules, EventHandlers, event, command, events, shard_init_count, local>>
        BY <1>8 DEF Destroy
      <3> QED BY <1>0, <2>2, <3>1, <3>2, <3>3, <3>4 DEF TypeOK
    <2>4. LoadsAgain'
      BY <1>0, <1>8 DEF Destroy, TypeOK, LoadsAgain
    <2> QED BY <1>a, <2>3, <2>4
  <1>9. ASSUME NEW t \in Threads, Sudo(t) PROVE LoaderInv'
    <2>2. command[t].name \in {"load", "unload", "reload"} => command[t].file \in Files
      <3>1. command[t] \in SudoCommands \cup {Ordinary}
        BY <1>0 DEF TypeOK
      <3> QED BY <3>1 DEF SudoCommands, Ordinary
    <2>3. \/ ListModules(t) \/ Restart \/ Refuse(t) \/ Show(t)
          \/ \E f \in Files : Load(t, f) \/ UnloadBegin(t, f) \/ UnloadFails(t, f)
      BY <1>9, <2>2 DEF Sudo
    <2> QED BY <1>0, <1>5, <1>7, <2>3, LoadKeeps, UnloadKeeps, RestartLoader
  <1>10. ASSUME NEW t \in Threads, Reload(t) PROVE LoaderInv'
    <2>1. command[t].name = "reload" /\ command[t] \in SudoCommands \cup {Ordinary}
      BY <1>0, <1>10 DEF Reload, LoadsAgain, TypeOK
    <2>2. command[t].file \in Files
      BY <2>1 DEF SudoCommands, Ordinary
    <2> QED BY <1>10, <2>2, LoadKeeps DEF Reload
  <1>11. ASSUME NEW t \in Threads, UnloadCrashes(t) PROVE LoaderInv'
    BY <1>0, <1>11, RestartLoader DEF UnloadCrashes
  <1>12. CASE UNCHANGED vars
    <2>1. TypeOK' /\ Same /\ LoadsAgain'
      BY <1>0, <1>12 DEF vars, TypeOK, LoadsAgain, Objects
    <2> QED BY <1>a, <2>1
  <1> QED BY <1>1, <1>2, <1>3, <1>4, <1>6, <1>8, <1>9, <1>10, <1>11, <1>12
          DEF Next, Step

(* The inductive invariant of the loader, for every set of files, every     *)
(* list to start with and any number of threads.                            *)
THEOREM LoaderInvariance == Spec => []LoaderInv
  BY InitLoaderInv, NextLoaderInv, PTL DEF Spec

-----------------------------------------------------------------------------
(* The properties of the loader *)

(* What the variables of the loader hold (modules.cpp:189), also while      *)
(* threads load and unload at once.                                         *)
THEOREM LoaderTyping == Spec => []TypeOK
  <1>1. LoaderInv => TypeOK
    BY DEF LoaderInv
  <1> QED BY <1>1, LoaderInvariance, PTL

(* For every set of files and list of modules to start with, and however    *)
(* many threads load, unload and reload at once, Load and Unload leave no   *)
(* handler behind, lose none and keep the order (modules.cpp:70, :189).     *)
THEOREM HandlersAreThoseLoaded == Spec => []HandlersMatchModules
  <1>1. LoaderInv => HandlersMatchModules
    BY DEF LoaderInv
  <1> QED BY <1>1, LoaderInvariance, PTL

-----------------------------------------------------------------------------
(* The last member of a set in a sequence *)

(* e is the last element of s that is in S...                               *)
Latest(s, S, e) == \E i \in DOMAIN s : /\ s[i] = e /\ e \in S
                                       /\ \A j \in DOMAIN s : j > i => s[j] \notin S
(* ...unless there is none.                                                 *)
Silent(s, S) == \A i \in DOMAIN s : s[i] \notin S

(* The last one of s \o t is that of t, and that of s when t has none.      *)
LEMMA LatestOfConcat ==
    ASSUME NEW T, NEW s \in Seq(T), NEW t \in Seq(T), NEW S
    PROVE  /\ \A e : Latest(s \o t, S, e) =>
                         Latest(t, S, e) \/ (Silent(t, S) /\ Latest(s, S, e))
           /\ Silent(s \o t, S) <=> Silent(s, S) /\ Silent(t, S)
  <1> DEFINE st == s \o t
  <1>1. /\ st \in Seq(T) /\ Len(st) = Len(s) + Len(t)
        /\ DOMAIN st = 1..(Len(s) + Len(t)) /\ DOMAIN s = 1..Len(s) /\ DOMAIN t = 1..Len(t)
        /\ Len(s) \in Nat /\ Len(t) \in Nat
        /\ \A i \in 1..Len(s) : st[i] = s[i]
        /\ \A i \in 1..Len(t) : st[Len(s) + i] = t[i]
    OBVIOUS
  <1>2. \A i \in DOMAIN st : i \in DOMAIN s \/ (i - Len(s) \in DOMAIN t /\ st[i] = t[i - Len(s)])
    BY <1>1
  <1> HIDE DEF st
  <1>3. ASSUME NEW e, Latest(st, S, e)
        PROVE  Latest(t, S, e) \/ (Silent(t, S) /\ Latest(s, S, e))
    <2>1. PICK i \in DOMAIN st : /\ st[i] = e /\ e \in S
                                 /\ \A j \in DOMAIN st : j > i => st[j] \notin S
      BY <1>3 DEF Latest
    <2>2. CASE i \in DOMAIN s
      <3>1. \A j \in DOMAIN t : t[j] \notin S
        <4> SUFFICES ASSUME NEW j \in DOMAIN t PROVE t[j] \notin S
          OBVIOUS
        <4>1. Len(s) + j \in DOMAIN st /\ Len(s) + j > i /\ st[Len(s) + j] = t[j]
          BY <1>1, <2>2
        <4> QED BY <4>1, <2>1
      <3>2. \A j \in DOMAIN s : j > i => s[j] \notin S
        BY <1>1, <2>1
      <3> QED BY <1>1, <2>1, <2>2, <3>1, <3>2 DEF Latest, Silent
    <2>3. CASE i \notin DOMAIN s
      <3>1. i - Len(s) \in DOMAIN t /\ t[i - Len(s)] = e
        BY <1>2, <2>1, <2>3
      <3>2. \A j \in DOMAIN t : j > i - Len(s) => t[j] \notin S
        <4> SUFFICES ASSUME NEW j \in DOMAIN t, j > i - Len(s) PROVE t[j] \notin S
          OBVIOUS
        <4>1. i \in Int /\ j \in Int
          BY <1>1
        <4>2. Len(s) + j \in DOMAIN st /\ Len(s) + j > i /\ st[Len(s) + j] = t[j]
          BY <1>1, <4>1
        <4> QED BY <4>2, <2>1
      <3> QED BY <2>1, <3>1, <3>2 DEF Latest
    <2> QED BY <2>2, <2>3
  <1>4. Silent(st, S) <=> Silent(s, S) /\ Silent(t, S)
    <2>1. ASSUME Silent(st, S) PROVE Silent(s, S) /\ Silent(t, S)
      <3>1. Silent(s, S)
        BY <1>1, <2>1 DEF Silent
      <3>2. ASSUME NEW j \in DOMAIN t PROVE t[j] \notin S
        <4>1. Len(s) + j \in DOMAIN st /\ st[Len(s) + j] = t[j]
          BY <1>1
        <4> QED BY <4>1, <2>1 DEF Silent
      <3> QED BY <3>1, <3>2 DEF Silent
    <2>2. ASSUME Silent(s, S), Silent(t, S) PROVE Silent(st, S)
      BY <1>1, <1>2, <2>2 DEF Silent
    <2> QED BY <2>1, <2>2
  <1> QED BY <1>3, <1>4 DEF st

(* Without the first element, the last one is the same, or there is none    *)
(* and the first element was it.                                            *)
LEMMA LatestOfTail ==
    ASSUME NEW T, NEW s \in Seq(T), s # <<>>, NEW S
    PROVE  /\ \A e : Latest(Tail(s), S, e) => Latest(s, S, e)
           /\ Silent(Tail(s), S) => IF Head(s) \in S THEN Latest(s, S, Head(s)) ELSE Silent(s, S)
  <1> DEFINE t == Tail(s)
  <1>1. /\ Len(s) \in Nat \ {0} /\ DOMAIN s = 1..Len(s) /\ DOMAIN t = 1..(Len(s) - 1)
        /\ \A i \in 1..(Len(s) - 1) : t[i] = s[i + 1]
        /\ Head(s) = s[1]
    OBVIOUS
  <1> HIDE DEF t
  <1>2. \A j \in DOMAIN s : j = 1 \/ (j - 1 \in DOMAIN t /\ s[j] = t[j - 1])
    BY <1>1
  <1>3. ASSUME NEW e, Latest(t, S, e) PROVE Latest(s, S, e)
    <2>1. PICK i \in DOMAIN t : /\ t[i] = e /\ e \in S
                                /\ \A j \in DOMAIN t : j > i => t[j] \notin S
      BY <1>3 DEF Latest
    <2>2. i + 1 \in DOMAIN s /\ s[i + 1] = e
      BY <1>1, <2>1
    <2>3. ASSUME NEW j \in DOMAIN s, j > i + 1 PROVE s[j] \notin S
      <3>1. j - 1 \in DOMAIN t /\ j - 1 > i /\ s[j] = t[j - 1]
        BY <1>1, <1>2, <2>3
      <3> QED BY <2>1, <3>1
    <2> QED BY <2>1, <2>2, <2>3 DEF Latest
  <1>4. ASSUME Silent(t, S)
        PROVE  IF Head(s) \in S THEN Latest(s, S, Head(s)) ELSE Silent(s, S)
    <2>1. \A j \in DOMAIN s : j > 1 => s[j] \notin S
      BY <1>1, <1>2, <1>4 DEF Silent
    <2>2. 1 \in DOMAIN s /\ \A j \in DOMAIN s : j = 1 \/ j > 1
      BY <1>1
    <2> QED BY <1>1, <2>1, <2>2 DEF Latest, Silent
  <1> QED BY <1>3, <1>4 DEF t

-----------------------------------------------------------------------------
(* The inductive invariant of the timers *)

GuildEvents == [do : {"create", "unavailable", "delete"}, guild : Guilds]
BackgroundQueries ==
    [do : {"count", "uncount", "cache", "kick"}, guild : Guilds]
        \cup [do : {"status"}, shard : Shards,
              text : {"Disconnecting", "Connecting"} \cup Outcomes]
        \cup [do : {"clear"}, shard : Shards]

HousekeepingTypeOK ==
    /\ member \subseteq Guilds /\ outage \subseteq member
    /\ known \subseteq Guilds
    /\ guild_temp_cache \subseteq Guilds /\ kicked \subseteq Guilds
    /\ unheard \in Seq(GuildEvents)
    /\ queue \in Seq(BackgroundQueries)
    /\ infobot_shard_status \in
           [Shards -> [forcereconnect : BOOLEAN,
                       status : {"none", "Disconnecting", "Connecting"} \cup Outcomes]]
    /\ file \in [version : Nat, whole : BOOLEAN, mtime : Nat]
    /\ lang \in Nat /\ lastlang \in Nat /\ now \in Nat
    /\ up \in BOOLEAN /\ hidden \in BOOLEAN
    /\ todo \subseteq Shards

(* The messages and the queries about one guild.                            *)
About(g) == [do : {"create", "unavailable", "delete"}, guild : {g}]
Counting(g) == [do : {"count", "uncount"}, guild : {g}]
Marking(g) == [do : {"cache", "kick"}, guild : {g}]

(* What the bot has to be told last of a guild.                             *)
NewsOf(g) == IF g \in member THEN Created(g) ELSE [do |-> "delete", guild |-> g]

(* The last message about a guild tells how it is now; without a message    *)
(* the bot knows it.                                                        *)
EventsTellTheWorld ==
    \A g \in Guilds :
        /\ \A e : Latest(unheard, About(g), e) => e = NewsOf(g)
        /\ Silent(unheard, About(g)) => /\ g \in member \ outage => g \in known
                                        /\ g \in known => g \in member

(* So the last query about a guild writes what the bot knows of it; without *)
(* a query it is written.                                                   *)
QueriesWriteTheKnown ==
    \A g \in Guilds :
        /\ \A q : Latest(queue, Counting(g), q) => (q.do = "count" <=> g \in known)
        /\ \A q : Latest(queue, Marking(g), q) => (q.do = "cache" <=> g \in known)
        /\ Silent(queue, Counting(g)) => /\ g \in known => g \in guild_temp_cache
                                         /\ g \in guild_temp_cache => g \in known \cup stale
        /\ Silent(queue, Marking(g)) => (g \in known => g \notin kicked)

(* The query that forgets a request comes right after the one that writes   *)
(* its outcome.                                                             *)
ClearsFollowOutcomes ==
    \A i \in DOMAIN queue : queue[i].do = "clear" =>
        IF i = 1 THEN infobot_shard_status[queue[i].shard].status \in Outcomes
        ELSE /\ queue[i - 1].do = "status" /\ queue[i - 1].shard = queue[i].shard
             /\ queue[i - 1].text \in Outcomes

(* No file is of the future.                                                *)
TimesPassed == file.mtime <= now /\ lastlang <= now

NothingLeft == ~up => unheard = <<>> /\ queue = <<>>

HousekeepingInv ==
    /\ HousekeepingTypeOK
    /\ NothingLeft
    /\ up => EventsTellTheWorld /\ QueriesWriteTheKnown
    /\ ClearsFollowOutcomes
    /\ TimesPassed
    /\ TextsFollowFile

-----------------------------------------------------------------------------
(* It holds initially, and every step of the timers preserves it *)

(* The last member of a set in a sequence with one more element.            *)
LEMMA LatestOfAppend ==
    ASSUME NEW T, NEW s \in Seq(T), NEW x \in T, NEW S
    PROVE  /\ \A e : Latest(Append(s, x), S, e) => IF x \in S THEN e = x ELSE Latest(s, S, e)
           /\ Silent(Append(s, x), S) <=> Silent(s, S) /\ x \notin S
  <1>1. Append(s, x) = s \o <<x>> /\ <<x>> \in Seq(T) /\ DOMAIN <<x>> = {1} /\ <<x>>[1] = x
    OBVIOUS
  <1>2. Silent(<<x>>, S) <=> x \notin S
    BY <1>1 DEF Silent
  <1>3. \A e : Latest(<<x>>, S, e) => e = x /\ x \in S
    BY <1>1 DEF Latest
  <1> DEFINE t == <<x>>
  <1> HIDE DEF t
  <1>4. /\ \A e : Latest(s \o t, S, e) => Latest(t, S, e) \/ (Silent(t, S) /\ Latest(s, S, e))
        /\ Silent(s \o t, S) <=> Silent(s, S) /\ Silent(t, S)
    BY <1>1, LatestOfConcat DEF t
  <1>5. Append(s, x) = s \o t
    BY <1>1 DEF t
  <1> QED BY <1>2, <1>3, <1>4, <1>5 DEF t

(* The invariant of the timers holds at first.                              *)
LEMMA InitHousekeepingInv == HousekeepingInit => HousekeepingInv
  <1> SUFFICES ASSUME HousekeepingInit PROVE HousekeepingInv
    OBVIOUS
  <1> USE HousekeepingAssumption DEF HousekeepingAssumption, HousekeepingInit
  <1>1. HousekeepingTypeOK
    <2>1. unheard \in Seq(GuildEvents) /\ queue \in Seq(BackgroundQueries)
      OBVIOUS
    <2>2. infobot_shard_status \in
              [Shards -> [forcereconnect : BOOLEAN,
                          status : {"none", "Disconnecting", "Connecting"} \cup Outcomes]]
      OBVIOUS
    <2>3. file \in [version : Nat, whole : BOOLEAN, mtime : Nat]
      OBVIOUS
    <2> QED BY <2>1, <2>2, <2>3 DEF HousekeepingTypeOK
  <1>2. NothingLeft /\ ClearsFollowOutcomes /\ TimesPassed /\ TextsFollowFile
    BY DEF NothingLeft, ClearsFollowOutcomes, TimesPassed, TextsFollowFile
  <1> QED BY <1>1, <1>2 DEF HousekeepingInv

(* What is queued about a guild...                                          *)
LEMMA QueriesTypes ==
    ASSUME NEW e \in GuildEvents
    PROVE  Queries(e) \in Seq(BackgroundQueries)
  <1>1. e.guild \in Guilds
    BY DEF GuildEvents
  <1>2. Counted(e.guild) \in Seq(BackgroundQueries) /\ Removed(e.guild) \in Seq(BackgroundQueries)
    <2>1. \A d \in {"count", "uncount", "cache", "kick"} :
              [do |-> d, guild |-> e.guild] \in BackgroundQueries
      BY <1>1 DEF BackgroundQueries
    <2> QED BY <2>1 DEF Counted, Removed, CachedGuild
  <1>3. <<>> \in Seq(BackgroundQueries)
    OBVIOUS
  <1> QED BY <1>2, <1>3 DEF Queries

(* ...and about a shard: what becomes of its row, the outcome last, and     *)
(* then that the request is done.                                           *)
LEMMA RequestedShape ==
    ASSUME NEW s \in Shards, NEW qs \in Requested(s)
    PROVE  /\ qs \in Seq(BackgroundQueries) /\ Len(qs) >= 2
           /\ \A i \in 1..(Len(qs) - 1) : qs[i].do = "status" /\ qs[i].shard = s
           /\ qs[Len(qs)].do = "clear" /\ qs[Len(qs)].shard = s
           /\ qs[Len(qs) - 1].text \in Outcomes
  <1>1. PICK rs \in Reconnecting(s) : qs = rs \o <<Clear(s)>>
    BY DEF Requested
  <1> DEFINE a == Status(s, "Disconnecting")
             b == Status(s, "Connecting")
             c == Status(s, "reconnected")
             n == Status(s, "not found")
             e == Status(s, "error")
             d == Clear(s)
  <1>2. {a, b, c, n, e, d} \subseteq BackgroundQueries
    <2>1. \A text \in {"Disconnecting", "Connecting"} \cup Outcomes :
              Status(s, text) \in BackgroundQueries
      BY DEF Status, BackgroundQueries
    <2>2. Clear(s) \in BackgroundQueries
      BY DEF Clear, BackgroundQueries
    <2> QED BY <2>1, <2>2 DEF Outcomes
  <1>3. /\ \A x \in {a, b, c, n, e} : x.do = "status" /\ x.shard = s
        /\ \A x \in {c, n, e} : x.text \in Outcomes
        /\ d.do = "clear" /\ d.shard = s
    BY DEF Status, Clear, Outcomes
  <1>4. \/ qs = <<n>> \o <<d>> \/ qs = <<a, b, c>> \o <<d>> \/ qs = <<a, e>> \o <<d>>
    BY <1>1 DEF Reconnecting
  <1> HIDE DEF a, b, c, n, e, d
  <1>5. \/ qs = <<n, d>> \/ qs = <<a, b, c, d>> \/ qs = <<a, e, d>>
    BY <1>4
  <1>6. CASE qs = <<n, d>>
    BY <1>2, <1>3, <1>6
  <1>7. CASE qs = <<a, b, c, d>>
    BY <1>2, <1>3, <1>7
  <1>8. CASE qs = <<a, e, d>>
    BY <1>2, <1>3, <1>8
  <1> QED BY <1>5, <1>6, <1>7, <1>8

(* Every step keeps the types.                                              *)
LEMMA TypeStep == HousekeepingTypeOK /\ [HousekeepingNext]_housekeepingVars => HousekeepingTypeOK'
  <1> SUFFICES ASSUME HousekeepingTypeOK, [HousekeepingNext]_housekeepingVars
               PROVE  HousekeepingTypeOK'
    OBVIOUS
  <1> USE HousekeepingAssumption DEF HousekeepingAssumption
  <1> USE DEF HousekeepingTypeOK
  <1>a. \A g \in member : Created(g) \in GuildEvents
    BY DEF Created, GuildEvents
  <1>1. CASE Start
    <2>1. IsFiniteSet(member)
      BY FS_Subset
    <2> DEFINE C == {Created(g) : g \in member}
    <2>2. IsFiniteSet(C)
      <3> DEFINE f == [g \in member |-> Created(g)]
      <3>1. f \in Surjection(member, C)
        BY DEF Surjection
      <3> QED BY <2>1, <3>1, FS_Surjection
    <2>3. SetToSeq(C) \in Seq(C) /\ C \subseteq GuildEvents
      BY <2>2, SetAsSeq, <1>a
    <2>4. unheard' \in Seq(GuildEvents)
      BY <1>1, <2>3 DEF Start
    <2> QED BY <1>1, <2>4 DEF Start, cacheVars, timerVars
  <1>2. CASE HandleGuildEvent
    <2>1. Head(unheard) \in GuildEvents /\ Tail(unheard) \in Seq(GuildEvents)
      BY <1>2 DEF HandleGuildEvent
    <2>2. queue' \in Seq(BackgroundQueries)
      BY <1>2, <2>1, QueriesTypes DEF HandleGuildEvent, Queue
    <2>3. known' \subseteq Guilds
      BY <1>2, <2>1 DEF HandleGuildEvent, GuildEvents
    <2> QED BY <1>2, <2>1, <2>2, <2>3
            DEF HandleGuildEvent, cacheVars, timerVars, commandVars, langVars
  <1>3. CASE BackgroundThread
    <2>1. Head(queue) \in BackgroundQueries /\ queue' \in Seq(BackgroundQueries)
      BY <1>3 DEF BackgroundThread
    <2>2. /\ guild_temp_cache' \subseteq Guilds /\ kicked' \subseteq Guilds
      BY <1>3, <2>1 DEF BackgroundThread, Executed, BackgroundQueries
    <2>3. infobot_shard_status' \in
              [Shards -> [forcereconnect : BOOLEAN,
                          status : {"none", "Disconnecting", "Connecting"} \cup Outcomes]]
      BY <1>3, <2>1, ZenonT(60) DEF BackgroundThread, Executed, BackgroundQueries
    <2> QED BY <1>3, <2>1, <2>2, <2>3
            DEF BackgroundThread, guildVars, timerVars, commandVars, langVars
  <1>4. CASE OnPresenceUpdate \/ CompareLang \/ UpdatePresenceLine \/ ReconnectsChecked
    BY <1>4 DEF OnPresenceUpdate, CompareLang, UpdatePresenceLine, ReconnectsChecked,
                WorldSame, TimerAt, guildVars, cacheVars
  <1>5. CASE ReloadLang
    BY <1>5 DEF ReloadLang, Parsed, WorldSame, TimerAt, guildVars, cacheVars
  <1>6. CASE CheckReconnects
    <2>1. queue' \in Seq(BackgroundQueries)
      BY <1>6, RequestedShape DEF CheckReconnects, Queue
    <2> QED BY <1>6, <2>1 DEF CheckReconnects, WorldSame, TimerAt, guildVars, cacheVars
  <1>7. ASSUME NEW g \in Guilds, JoinGuild(g) \/ LeaveGuild(g) \/ Outage(g)
        PROVE  HousekeepingTypeOK'
    <2>1. \A e \in GuildEvents : Send(e) => unheard' \in Seq(GuildEvents)
      BY DEF Send
    <2>2. /\ Created(g) \in GuildEvents
          /\ \A d \in {"create", "unavailable", "delete"} : [do |-> d, guild |-> g] \in GuildEvents
      BY DEF Created, GuildEvents
    <2>3. unheard' \in Seq(GuildEvents)
      BY <1>7, <2>1, <2>2 DEF JoinGuild, LeaveGuild, Outage
    <2> QED BY <1>7, <2>3 DEF JoinGuild, LeaveGuild, Outage, System, cacheVars, timerVars
  <1>8. ASSUME NEW s \in Shards, RequestReconnect(s) PROVE HousekeepingTypeOK'
    BY <1>8 DEF RequestReconnect, System, cacheVars, timerVars
  <1>9. CASE EditCommands \/ SecondPasses
    BY <1>9, SMTT(30) DEF EditCommands, SecondPasses, System, cacheVars, timerVars, guildVars, langVars
  <1>10. CASE EditLang
    <2>1. file' \in [version : Nat, whole : BOOLEAN, mtime : Nat]
      BY <1>10 DEF EditLang
    <2>2. hidden' \in BOOLEAN
      BY <1>10 DEF EditLang
    <2> QED BY <1>10, <2>1, <2>2 DEF EditLang, System, cacheVars, timerVars
  <1>11. CASE Crash
    <2>1. unheard' \in Seq(GuildEvents) /\ queue' \in Seq(BackgroundQueries)
      BY <1>11 DEF Crash
    <2> QED BY <1>11, <2>1 DEF Crash, cacheVars, commandVars
  <1>12. CASE UNCHANGED housekeepingVars
    BY <1>12 DEF housekeepingVars, guildVars, cacheVars, langVars, timerVars
  <1> QED BY <1>1, <1>2, <1>3, <1>4, <1>5, <1>6, <1>7, <1>8, <1>9, <1>10, <1>11, <1>12
          DEF HousekeepingNext

(* The events: what is sent is the news of the guild, and what is handled   *)
(* was it.                                                                  *)
LEMMA EventsStep ==
    ASSUME HousekeepingInv, [HousekeepingNext]_housekeepingVars, up'
    PROVE  EventsTellTheWorld'
  <1> USE HousekeepingAssumption DEF HousekeepingAssumption
  <1> DEFINE UpToDate(g) ==
          /\ \A e : Latest(unheard, About(g), e) => e = NewsOf(g)
          /\ Silent(unheard, About(g)) => /\ g \in member \ outage => g \in known
                                          /\ g \in known => g \in member
  <1>0. /\ HousekeepingTypeOK /\ HousekeepingTypeOK'
        /\ up => \A g \in Guilds : UpToDate(g)
    BY TypeStep DEF HousekeepingInv, EventsTellTheWorld
  <1>a. \A g \in Guilds : Created(g) \in About(g) /\ [do |-> "delete", guild |-> g] \in About(g)
    BY DEF Created, About
  <1> SUFFICES ASSUME NEW g \in Guilds PROVE UpToDate(g)'
    BY DEF EventsTellTheWorld
  <1>1. CASE Start
    <2> DEFINE C == {Created(h) : h \in member}
    <2>1. IsFiniteSet(member)
      BY <1>0, FS_Subset DEF HousekeepingTypeOK
    <2>2. IsFiniteSet(C)
      <3> DEFINE f == [h \in member |-> Created(h)]
      <3>1. f \in Surjection(member, C)
        BY DEF Surjection
      <3> QED BY <2>1, <3>1, FS_Surjection
    <2>3. /\ unheard' \in Seq(C)
          /\ \A e \in C : \E i \in DOMAIN unheard' : unheard'[i] = e
      BY <1>1, <2>2, SetAsSeq DEF Start
    <2>4. known' = {} /\ UNCHANGED <<member, outage>>
      BY <1>1 DEF Start
    <2>5. \A e \in C \cap About(g) : g \in member /\ e = NewsOf(g)
      BY DEF Created, About, NewsOf
    <2>6. ASSUME NEW e, Latest(unheard', About(g), e) PROVE e = NewsOf(g)'
      <3>1. PICK i \in DOMAIN unheard' : unheard'[i] = e /\ e \in About(g)
        BY <2>6 DEF Latest
      <3>2. e \in C
        BY <2>3, <3>1
      <3> QED BY <2>4, <2>5, <3>1, <3>2 DEF NewsOf, Created
    <2>7. ASSUME Silent(unheard', About(g)) PROVE g \notin member'
      <3>1. SUFFICES ASSUME g \in member PROVE FALSE
        BY <2>4
      <3>2. PICK i \in DOMAIN unheard' : unheard'[i] = Created(g)
        BY <2>3, <3>1
      <3> QED BY <1>a, <2>7, <3>2 DEF Silent
    <2> QED BY <2>4, <2>6, <2>7
  <1>2. CASE HandleGuildEvent
    <2> DEFINE e == Head(unheard)
    <2>1. /\ unheard \in Seq(GuildEvents) /\ unheard # <<>> /\ unheard' = Tail(unheard)
          /\ UNCHANGED <<member, outage>> /\ up
      BY <1>0, <1>2 DEF HandleGuildEvent, HousekeepingTypeOK
    <2>2. /\ \A x : Latest(unheard', About(g), x) => Latest(unheard, About(g), x)
          /\ Silent(unheard', About(g)) =>
                 IF e \in About(g) THEN Latest(unheard, About(g), e)
                                   ELSE Silent(unheard, About(g))
      BY <2>1, LatestOfTail
    <2>3. /\ \A x : Latest(unheard', About(g), x) => x = NewsOf(g)'
          /\ Silent(unheard', About(g)) =>
                 IF e \in About(g) THEN e = NewsOf(g) ELSE Silent(unheard, About(g))
      BY <1>0, <2>1, <2>2 DEF NewsOf, Created
    <2>4. known' = CASE e.do = "create" -> known \cup {e.guild}
                     [] e.do = "delete" -> known \ {e.guild}
                     [] OTHER -> known
      BY <1>2 DEF HandleGuildEvent
    <2>5. e \in GuildEvents
      BY <2>1
    <2>6. ASSUME Silent(unheard', About(g)), e \notin About(g) PROVE g \in known' <=> g \in known
      <3>1. e.guild # g
        BY <2>5, <2>6 DEF GuildEvents, About
      <3> QED BY <2>4, <2>5, <3>1 DEF GuildEvents
    <2>7. ASSUME Silent(unheard', About(g)), e \in About(g)
          PROVE  (g \in member \ outage => g \in known') /\ (g \in known' => g \in member)
      <3>1. e = NewsOf(g)
        BY <2>3, <2>7
      <3>2. CASE g \notin member
        <4>1. e.do = "delete" /\ e.guild = g
          BY <3>1, <3>2 DEF NewsOf
        <4> QED BY <2>4, <3>2, <4>1
      <3>3. CASE g \in member \ outage
        <4>1. e.do = "create" /\ e.guild = g
          BY <3>1, <3>3 DEF NewsOf, Created
        <4> QED BY <2>4, <3>3, <4>1
      <3>4. CASE g \in member /\ g \in outage
        BY <3>4
      <3> QED BY <3>2, <3>3, <3>4
    <2> QED BY <1>0, <2>1, <2>3, <2>6, <2>7
  <1>3. ASSUME NEW h \in Guilds, JoinGuild(h) \/ LeaveGuild(h) \/ Outage(h)
        PROVE  UpToDate(g)'
    <2>1. up /\ unheard \in Seq(GuildEvents) /\ known' = known
      BY <1>0, <1>3 DEF JoinGuild, LeaveGuild, Outage, System, HousekeepingTypeOK
    <2>2. NewsOf(h)' \in About(h) \cap GuildEvents
      BY DEF NewsOf, Created, About, GuildEvents
    <2>3. unheard' = Append(unheard, NewsOf(h)')
      BY <1>0, <1>3, <2>1
         DEF JoinGuild, LeaveGuild, Outage, Send, NewsOf, Created, HousekeepingTypeOK
    <2>4. /\ \A e : Latest(unheard', About(g), e) =>
                        IF NewsOf(h)' \in About(g) THEN e = NewsOf(h)'
                                                   ELSE Latest(unheard, About(g), e)
          /\ Silent(unheard', About(g)) <=>
                 Silent(unheard, About(g)) /\ NewsOf(h)' \notin About(g)
      BY <2>1, <2>2, <2>3, LatestOfAppend
    <2>5. NewsOf(h)' \in About(g) <=> g = h
      BY <2>2 DEF About
    <2>6. g # h => /\ NewsOf(g)' = NewsOf(g)
                   /\ g \in member <=> g \in member'
                   /\ g \in outage <=> g \in outage'
      BY <1>3 DEF JoinGuild, LeaveGuild, Outage, NewsOf, Created
    <2> QED BY <1>0, <2>1, <2>4, <2>5, <2>6
  <1>4. CASE UNCHANGED <<member, outage, unheard, known, up>>
    BY <1>0, <1>4 DEF NewsOf, Created
  <1>5. CASE \/ BackgroundThread \/ OnPresenceUpdate \/ CompareLang \/ ReloadLang
             \/ UpdatePresenceLine \/ CheckReconnects \/ ReconnectsChecked
             \/ (\E s \in Shards : RequestReconnect(s))
             \/ EditCommands \/ EditLang \/ SecondPasses \/ UNCHANGED housekeepingVars
    <2>1. UNCHANGED <<member, outage, unheard, known, up>>
      BY <1>5 DEF BackgroundThread, OnPresenceUpdate, CompareLang, ReloadLang,
         UpdatePresenceLine, CheckReconnects, ReconnectsChecked, RequestReconnect,
         EditCommands, EditLang, SecondPasses, housekeepingVars, WorldSame, System,
         guildVars
    <2> QED BY <1>4, <2>1
  <1>6. CASE Crash
    BY <1>6 DEF Crash
  <1> QED BY <1>1, <1>2, <1>3, <1>5, <1>6 DEF HousekeepingNext

(* The queries of a shard are about no guild.                               *)
LEMMA ShardsOnly ==
    ASSUME NEW s \in Shards, NEW qs \in Requested(s), NEW g \in Guilds
    PROVE  Silent(qs, Counting(g)) /\ Silent(qs, Marking(g))
  <1>1. \A i \in DOMAIN qs : qs[i].do \in {"status", "clear"}
    BY RequestedShape
  <1> QED BY <1>1 DEF Silent, Counting, Marking

(* The queries: what is queued writes what has become known, and what is    *)
(* executed was the last to be written, or is written over.                 *)
LEMMA QueriesStep ==
    ASSUME HousekeepingInv, [HousekeepingNext]_housekeepingVars, up'
    PROVE  QueriesWriteTheKnown'
  <1> USE HousekeepingAssumption DEF HousekeepingAssumption
  <1> DEFINE Written(g) ==
          /\ \A q : Latest(queue, Counting(g), q) => (q.do = "count" <=> g \in known)
          /\ \A q : Latest(queue, Marking(g), q) => (q.do = "cache" <=> g \in known)
          /\ Silent(queue, Counting(g)) => /\ g \in known => g \in guild_temp_cache
                                           /\ g \in guild_temp_cache => g \in known \cup stale
          /\ Silent(queue, Marking(g)) => (g \in known => g \notin kicked)
  <1>0. /\ HousekeepingTypeOK /\ HousekeepingTypeOK'
        /\ up => \A g \in Guilds : Written(g)
        /\ ~up => queue = <<>>
    BY TypeStep DEF HousekeepingInv, QueriesWriteTheKnown, NothingLeft
  <1> SUFFICES ASSUME NEW g \in Guilds PROVE Written(g)'
    BY DEF QueriesWriteTheKnown
  <1>1. CASE Start
    <2>1. queue' = <<>> /\ known' = {} /\ stale' = guild_temp_cache'
      BY <1>0, <1>1 DEF Start, cacheVars
    <2>2. \A S, q : ~Latest(queue', S, q)
      BY <2>1 DEF Latest
    <2> QED BY <2>1, <2>2
  <1>2. CASE HandleGuildEvent
    <2> DEFINE e == Head(unheard)
               qs == Queries(e)
    <2>1. /\ queue \in Seq(BackgroundQueries) /\ qs \in Seq(BackgroundQueries)
          /\ queue' = queue \o qs /\ e \in GuildEvents /\ up
          /\ UNCHANGED <<guild_temp_cache, kicked>>
      BY <1>0, <1>2, QueriesTypes, SMTT(30)
         DEF HandleGuildEvent, Queue, HousekeepingTypeOK, cacheVars
    <2>2. /\ \A q, S : Latest(queue', S, q) =>
                           Latest(qs, S, q) \/ (Silent(qs, S) /\ Latest(queue, S, q))
          /\ \A S : Silent(queue', S) <=> Silent(queue, S) /\ Silent(qs, S)
      BY <2>1, LatestOfConcat
    <2>3. CASE e.do = "create"
      <3>1. qs = <<[do |-> "count", guild |-> e.guild], [do |-> "cache", guild |-> e.guild]>>
        BY <2>3 DEF Queries, Counted, CachedGuild
      <3>2. known' = known \cup {e.guild} /\ stale' = stale \ {e.guild}
        BY <1>2, <2>3 DEF HandleGuildEvent
      <3>3. CASE e.guild = g
        <4>1. qs[1] \in Counting(g) /\ qs[2] \in Marking(g) /\ 1 \in DOMAIN qs /\ 2 \in DOMAIN qs
          BY <3>1, <3>3 DEF Counting, Marking
        <4>2. ~Silent(qs, Counting(g)) /\ ~Silent(qs, Marking(g))
          BY <4>1 DEF Silent
        <4>3. /\ \A q : Latest(qs, Counting(g), q) => q.do = "count"
              /\ \A q : Latest(qs, Marking(g), q) => q.do = "cache"
          BY <3>1 DEF Latest, Counting, Marking
        <4> QED BY <2>2, <3>2, <3>3, <4>2, <4>3
      <3>4. CASE e.guild # g
        <4>1. Silent(qs, Counting(g)) /\ Silent(qs, Marking(g))
          BY <3>1, <3>4 DEF Silent, Counting, Marking
        <4>2. \A q : ~Latest(qs, Counting(g), q) /\ ~Latest(qs, Marking(g), q)
          BY <4>1 DEF Latest, Silent
        <4> QED BY <1>0, <2>1, <2>2, <3>2, <3>4, <4>1, <4>2
      <3> QED BY <3>3, <3>4
    <2>4. CASE e.do = "delete"
      <3>1. qs = <<[do |-> "uncount", guild |-> e.guild], [do |-> "kick", guild |-> e.guild]>>
        BY <2>4 DEF Queries, Removed
      <3>2. known' = known \ {e.guild} /\ stale' = stale \ {e.guild}
        BY <1>2, <2>4 DEF HandleGuildEvent
      <3>3. CASE e.guild = g
        <4>1. qs[1] \in Counting(g) /\ qs[2] \in Marking(g) /\ 1 \in DOMAIN qs /\ 2 \in DOMAIN qs
          BY <3>1, <3>3 DEF Counting, Marking
        <4>2. ~Silent(qs, Counting(g)) /\ ~Silent(qs, Marking(g))
          BY <4>1 DEF Silent
        <4>3. /\ \A q : Latest(qs, Counting(g), q) => q.do = "uncount"
              /\ \A q : Latest(qs, Marking(g), q) => q.do = "kick"
          BY <3>1 DEF Latest, Counting, Marking
        <4> QED BY <2>2, <3>2, <3>3, <4>2, <4>3
      <3>4. CASE e.guild # g
        <4>1. Silent(qs, Counting(g)) /\ Silent(qs, Marking(g))
          BY <3>1, <3>4 DEF Silent, Counting, Marking
        <4>2. \A q : ~Latest(qs, Counting(g), q) /\ ~Latest(qs, Marking(g), q)
          BY <4>1 DEF Latest, Silent
        <4> QED BY <1>0, <2>1, <2>2, <3>2, <3>4, <4>1, <4>2
      <3> QED BY <3>3, <3>4
    <2>5. CASE e.do = "unavailable"
      <3>1. qs = <<>> /\ known' = known /\ stale' = stale
        BY <1>2, <2>5 DEF HandleGuildEvent, Queries
      <3>2. queue' = queue
        BY <2>1, <3>1
      <3> QED BY <1>0, <2>1, <3>1, <3>2
    <2> QED BY <2>1, <2>3, <2>4, <2>5 DEF GuildEvents
  <1>3. CASE BackgroundThread
    <2> DEFINE q == Head(queue)
    <2>1. /\ queue \in Seq(BackgroundQueries) /\ queue # <<>> /\ queue' = Tail(queue)
          /\ Executed(q) /\ up /\ UNCHANGED <<known, stale>>
      BY <1>0, <1>3 DEF BackgroundThread, HousekeepingTypeOK, guildVars
    <2>2. \A S : /\ \A x : Latest(queue', S, x) => Latest(queue, S, x)
                 /\ Silent(queue', S) =>
                        IF q \in S THEN Latest(queue, S, q) ELSE Silent(queue, S)
      BY <2>1, LatestOfTail
    <2>3. q \in BackgroundQueries
      BY <2>1
    <2>4. ASSUME q \notin Counting(g) PROVE g \in guild_temp_cache' <=> g \in guild_temp_cache
      BY <2>1, <2>3, <2>4 DEF Executed, Counting, BackgroundQueries
    <2>5. ASSUME q \notin Marking(g) PROVE g \in kicked' <=> g \in kicked
      BY <2>1, <2>3, <2>5 DEF Executed, Marking, BackgroundQueries
    <2>6. ASSUME q \in Counting(g) PROVE g \in guild_temp_cache' <=> q.do = "count"
      BY <2>1, <2>6 DEF Executed, Counting
    <2>7. ASSUME q \in Marking(g) PROVE g \in kicked' <=> q.do # "cache"
      BY <2>1, <2>7 DEF Executed, Marking
    <2>8. /\ Silent(queue', Counting(g)) => /\ g \in known' => g \in guild_temp_cache'
                                            /\ g \in guild_temp_cache' => g \in known' \cup stale'
      <3>1. CASE q \in Counting(g)
        BY <1>0, <2>1, <2>2, <2>6, <3>1
      <3>2. CASE q \notin Counting(g)
        BY <1>0, <2>1, <2>2, <2>4, <3>2
      <3> QED BY <3>1, <3>2
    <2>9. Silent(queue', Marking(g)) => (g \in known' => g \notin kicked')
      <3>1. CASE q \in Marking(g)
        BY <1>0, <2>1, <2>2, <2>7, <3>1
      <3>2. CASE q \notin Marking(g)
        BY <1>0, <2>1, <2>2, <2>5, <3>2
      <3> QED BY <3>1, <3>2
    <2> QED BY <1>0, <2>1, <2>2, <2>8, <2>9
  <1>4. CASE CheckReconnects
    <2>0. PICK s \in Shards : \E qs \in Requested(s) : queue' = queue \o qs
      BY <1>0, <1>4 DEF CheckReconnects, Queue, HousekeepingTypeOK
    <2>1. PICK qs \in Requested(s) : queue' = queue \o qs
      BY <2>0
    <2>2. queue \in Seq(BackgroundQueries) /\ qs \in Seq(BackgroundQueries)
      BY <1>0, <2>1, RequestedShape DEF HousekeepingTypeOK
    <2>3. /\ \A q, S : Latest(queue', S, q) =>
                           Latest(qs, S, q) \/ (Silent(qs, S) /\ Latest(queue, S, q))
          /\ \A S : Silent(queue', S) <=> Silent(queue, S) /\ Silent(qs, S)
      BY <2>1, <2>2, LatestOfConcat
    <2>4. Silent(qs, Counting(g)) /\ Silent(qs, Marking(g))
      BY ShardsOnly
    <2>5. \A q : ~Latest(qs, Counting(g), q) /\ ~Latest(qs, Marking(g), q)
      BY <2>4 DEF Latest, Silent
    <2>6. up /\ UNCHANGED <<known, stale, guild_temp_cache, kicked>>
      BY <1>4 DEF CheckReconnects, TimerAt, WorldSame, guildVars, cacheVars
    <2> QED BY <1>0, <2>3, <2>4, <2>5, <2>6
  <1>5. CASE UNCHANGED <<queue, known, stale, guild_temp_cache, kicked, up>>
    BY <1>0, <1>5
  <1>6. CASE \/ OnPresenceUpdate \/ CompareLang \/ ReloadLang
             \/ UpdatePresenceLine \/ ReconnectsChecked
             \/ (\E h \in Guilds : JoinGuild(h) \/ LeaveGuild(h) \/ Outage(h))
             \/ (\E s \in Shards : RequestReconnect(s))
             \/ EditCommands \/ EditLang \/ SecondPasses \/ UNCHANGED housekeepingVars
    <2>1. UNCHANGED <<queue, known, stale, guild_temp_cache, kicked, up>>
      BY <1>6 DEF OnPresenceUpdate, CompareLang, ReloadLang,
         UpdatePresenceLine, ReconnectsChecked, JoinGuild, LeaveGuild, Outage,
         RequestReconnect, EditCommands, EditLang, SecondPasses,
         housekeepingVars, WorldSame, System, guildVars, cacheVars
    <2> QED BY <1>5, <2>1
  <1>7. CASE Crash
    BY <1>7 DEF Crash
  <1> QED BY <1>1, <1>2, <1>3, <1>4, <1>6, <1>7 DEF HousekeepingNext

(* The query that forgets a request is queued behind the outcome, and       *)
(* nothing else writes the row in between.                                  *)
LEMMA ClearsStep ==
    HousekeepingInv /\ [HousekeepingNext]_housekeepingVars => ClearsFollowOutcomes'
  <1> SUFFICES ASSUME HousekeepingInv, [HousekeepingNext]_housekeepingVars
               PROVE  ClearsFollowOutcomes'
    OBVIOUS
  <1>0. HousekeepingTypeOK /\ ClearsFollowOutcomes
    BY DEF HousekeepingInv
  <1>t. queue \in Seq(BackgroundQueries)
    BY <1>0 DEF HousekeepingTypeOK
  <1>1. CASE HandleGuildEvent
    <2> DEFINE qs == Queries(Head(unheard))
    <2>1. queue' = queue \o qs /\ Head(unheard) \in GuildEvents
          /\ UNCHANGED infobot_shard_status
      BY <1>0, <1>1 DEF HandleGuildEvent, Queue, HousekeepingTypeOK
    <2>2. qs \in Seq(BackgroundQueries) /\ \A i \in DOMAIN qs : qs[i].do # "clear"
      <3>1. qs \in Seq(BackgroundQueries)
        BY <2>1, QueriesTypes
      <3> QED BY <3>1 DEF Queries, Counted, Removed, CachedGuild
    <2>3. \A i \in DOMAIN queue' : queue'[i].do = "clear" =>
              /\ i \in DOMAIN queue /\ queue'[i] = queue[i]
              /\ i # 1 => queue'[i - 1] = queue[i - 1]
      BY <1>t, <2>1, <2>2
    <2> QED BY <1>0, <2>1, <2>3 DEF ClearsFollowOutcomes
  <1>2. CASE BackgroundThread
    <2> DEFINE q == Head(queue)
    <2>1. queue # <<>> /\ queue' = Tail(queue) /\ Executed(q)
      BY <1>2 DEF BackgroundThread
    <2>2. SUFFICES ASSUME NEW i \in DOMAIN queue', queue'[i].do = "clear"
                   PROVE  IF i = 1 THEN infobot_shard_status'[queue'[i].shard].status \in Outcomes
                          ELSE /\ queue'[i - 1].do = "status"
                               /\ queue'[i - 1].shard = queue'[i].shard
                               /\ queue'[i - 1].text \in Outcomes
      BY DEF ClearsFollowOutcomes
    <2>3. /\ i \in Nat /\ i >= 1 /\ i + 1 \in DOMAIN queue /\ queue'[i] = queue[i + 1]
          /\ i # 1 => queue'[i - 1] = queue[i]
          /\ q = queue[1] /\ q \in BackgroundQueries
      BY <1>t, <2>1
    <2>4. /\ queue[i].do = "status" /\ queue[i].shard = queue[i + 1].shard
          /\ queue[i].text \in Outcomes
      BY <1>0, <2>2, <2>3 DEF ClearsFollowOutcomes
    <2>5. CASE i # 1
      BY <2>3, <2>4, <2>5
    <2>6. CASE i = 1
      <3>1. q.do = "status" /\ q.shard = queue'[1].shard /\ q.text \in Outcomes
        BY <2>3, <2>4, <2>6
      <3>2. infobot_shard_status' = [infobot_shard_status EXCEPT ![q.shard].status = q.text]
        BY <2>1, <3>1 DEF Executed
      <3>3. q.shard \in Shards
        BY <2>3, <3>1 DEF BackgroundQueries
      <3> QED BY <1>0, <2>6, <3>1, <3>2, <3>3 DEF HousekeepingTypeOK
    <2> QED BY <2>5, <2>6
  <1>3. CASE CheckReconnects
    <2>0. PICK s \in Shards : \E qs \in Requested(s) : queue' = queue \o qs
      BY <1>0, <1>3 DEF CheckReconnects, Queue, HousekeepingTypeOK
    <2>1. PICK qs \in Requested(s) : queue' = queue \o qs
      BY <2>0
    <2>3. UNCHANGED infobot_shard_status
      BY <1>3 DEF CheckReconnects, WorldSame
    <2>7. /\ qs \in Seq(BackgroundQueries) /\ Len(qs) >= 2
          /\ \A i \in DOMAIN qs : qs[i].do = "clear" => i = Len(qs)
          /\ qs[Len(qs)].shard = s
          /\ qs[Len(qs) - 1].do = "status" /\ qs[Len(qs) - 1].shard = s
          /\ qs[Len(qs) - 1].text \in Outcomes
      BY RequestedShape
    <2>8. \A i \in DOMAIN queue' : queue'[i].do = "clear" =>
              \/ /\ i \in DOMAIN queue /\ queue'[i] = queue[i]
                 /\ i # 1 => queue'[i - 1] = queue[i - 1]
              \/ /\ i = Len(queue) + Len(qs) /\ i # 1
                 /\ queue'[i] = qs[Len(qs)] /\ queue'[i - 1] = qs[Len(qs) - 1]
      <3>1. /\ DOMAIN queue' = 1..(Len(queue) + Len(qs)) /\ DOMAIN queue = 1..Len(queue)
            /\ DOMAIN qs = 1..Len(qs) /\ Len(queue) \in Nat /\ Len(qs) \in Nat
            /\ \A i \in 1..Len(queue) : queue'[i] = queue[i]
            /\ \A i \in 1..Len(qs) : queue'[Len(queue) + i] = qs[i]
        BY <1>t, <2>1, <2>7
      <3>2. SUFFICES ASSUME NEW i \in DOMAIN queue', queue'[i].do = "clear"
                     PROVE  \/ /\ i \in DOMAIN queue /\ queue'[i] = queue[i]
                               /\ i # 1 => queue'[i - 1] = queue[i - 1]
                            \/ /\ i = Len(queue) + Len(qs) /\ i # 1
                               /\ queue'[i] = qs[Len(qs)] /\ queue'[i - 1] = qs[Len(qs) - 1]
        OBVIOUS
      <3>3. CASE i \in 1..Len(queue)
        BY <3>1, <3>3
      <3>4. CASE i \notin 1..Len(queue)
        <4> DEFINE k == i - Len(queue)
        <4>1. k \in 1..Len(qs) /\ i = Len(queue) + k
          BY <3>1, <3>4
        <4>2. queue'[i] = qs[k]
          BY <3>1, <4>1
        <4>3. k = Len(qs)
          BY <2>7, <3>1, <3>2, <4>1, <4>2
        <4>4. i = Len(queue) + Len(qs)
          BY <4>1, <4>3
        <4>5. \A m, n \in Nat : n >= 2 =>
                  m + n # 1 /\ (m + n) - 1 = m + (n - 1) /\ n - 1 \in 1..n
          OBVIOUS
        <4>6. Len(queue) \in Nat /\ Len(qs) \in Nat /\ Len(qs) >= 2
          BY <2>7, <3>1
        <4>7. i # 1 /\ i - 1 = Len(queue) + (Len(qs) - 1) /\ Len(qs) - 1 \in 1..Len(qs)
          BY <4>4, <4>5, <4>6
        <4>8. queue'[i - 1] = qs[Len(qs) - 1]
          BY <3>1, <4>7
        <4> QED BY <4>2, <4>3, <4>4, <4>7, <4>8
      <3> QED BY <3>3, <3>4
    <2> QED BY <1>0, <2>3, <2>7, <2>8 DEF ClearsFollowOutcomes
  <1>4. ASSUME NEW s \in Shards, RequestReconnect(s) PROVE ClearsFollowOutcomes'
    <2>1. queue' = queue
          /\ \A r \in Shards : infobot_shard_status'[r].status = infobot_shard_status[r].status
      BY <1>0, <1>4 DEF RequestReconnect, HousekeepingTypeOK
    <2>2. \A i \in DOMAIN queue : queue[i].do = "clear" => queue[i].shard \in Shards
      BY <1>t DEF BackgroundQueries
    <2> QED BY <1>0, <2>1, <2>2 DEF ClearsFollowOutcomes
  <1>5. CASE UNCHANGED <<queue, infobot_shard_status>>
    BY <1>0, <1>5 DEF ClearsFollowOutcomes
  <1>6. CASE \/ Start \/ OnPresenceUpdate \/ CompareLang \/ ReloadLang
             \/ UpdatePresenceLine \/ ReconnectsChecked
             \/ (\E h \in Guilds : JoinGuild(h) \/ LeaveGuild(h) \/ Outage(h))
             \/ EditCommands \/ EditLang \/ SecondPasses \/ UNCHANGED housekeepingVars
    <2>1. UNCHANGED <<queue, infobot_shard_status>>
      BY <1>6 DEF Start, OnPresenceUpdate, CompareLang, ReloadLang,
         UpdatePresenceLine, ReconnectsChecked, JoinGuild, LeaveGuild, Outage,
         EditCommands, EditLang, SecondPasses, housekeepingVars, WorldSame
    <2> QED BY <1>5, <2>1
  <1>7. CASE Crash
    BY <1>7 DEF Crash, ClearsFollowOutcomes
  <1> QED BY <1>1, <1>2, <1>3, <1>4, <1>6, <1>7 DEF HousekeepingNext

(* The texts: a change sets the time of the file to the present, which is   *)
(* past that of the last reading, or it is hidden.                          *)
LEMMA TextsStep ==
    HousekeepingInv /\ [HousekeepingNext]_housekeepingVars => (TextsFollowFile /\ TimesPassed)'
  <1> SUFFICES ASSUME HousekeepingInv, [HousekeepingNext]_housekeepingVars
               PROVE  (TextsFollowFile /\ TimesPassed)'
    OBVIOUS
  <1>0. HousekeepingTypeOK /\ TextsFollowFile /\ TimesPassed
    BY DEF HousekeepingInv
  <1> USE DEF TextsFollowFile, TimesPassed, HousekeepingTypeOK
  <1>1. CASE Start
    BY <1>0, <1>1 DEF Start
  <1>2. CASE CompareLang \/ OnPresenceUpdate \/ UpdatePresenceLine \/ ReconnectsChecked
             \/ CheckReconnects
    BY <1>0, <1>2 DEF CompareLang, OnPresenceUpdate, UpdatePresenceLine, ReconnectsChecked,
                      CheckReconnects, WorldSame, TimerAt
  <1>3. CASE ReloadLang
    BY <1>0, <1>3 DEF ReloadLang, Parsed, WorldSame, TimerAt
  <1>4. CASE EditLang
    <2>1. file'.mtime = now /\ now' = now /\ lastlang' = lastlang /\ up' = up
      BY <1>4 DEF EditLang, System
    <2>2. hidden' <=> up /\ now <= lastlang
      BY <1>4 DEF EditLang
    <2> QED BY <1>0, <2>1, <2>2
  <1>5. CASE Crash
    BY <1>0, <1>5 DEF Crash
  <1>6. CASE SecondPasses
    BY <1>0, <1>6 DEF SecondPasses, langVars, timerVars
  <1>7. CASE \/ HandleGuildEvent \/ BackgroundThread \/ EditCommands
             \/ (\E h \in Guilds : JoinGuild(h) \/ LeaveGuild(h) \/ Outage(h))
             \/ (\E s \in Shards : RequestReconnect(s)) \/ UNCHANGED housekeepingVars
    <2>1. UNCHANGED <<file, lang, lastlang, hidden, up, timer, now>>
      BY <1>7 DEF HandleGuildEvent, BackgroundThread, EditCommands, JoinGuild, LeaveGuild,
         Outage, RequestReconnect, housekeepingVars, System, langVars, timerVars
    <2> QED BY <1>0, <2>1
  <1> QED BY <1>1, <1>2, <1>3, <1>4, <1>5, <1>6, <1>7 DEF HousekeepingNext

(* A process that is down has no events unheard and no queries queued.      *)
LEMMA NothingLeftStep ==
    HousekeepingInv /\ [HousekeepingNext]_housekeepingVars => NothingLeft'
  <1> SUFFICES ASSUME HousekeepingInv, [HousekeepingNext]_housekeepingVars, ~up'
               PROVE  unheard' = <<>> /\ queue' = <<>>
    BY DEF NothingLeft
  <1>0. ~up => unheard = <<>> /\ queue = <<>>
    BY DEF HousekeepingInv, NothingLeft
  <1>1. CASE \E h \in Guilds : JoinGuild(h) \/ LeaveGuild(h) \/ Outage(h)
    BY <1>0, <1>1 DEF JoinGuild, LeaveGuild, Outage, System, Send
  <1>2. CASE Crash
    BY <1>2 DEF Crash
  <1>3. CASE \/ EditCommands \/ EditLang \/ SecondPasses
             \/ (\E s \in Shards : RequestReconnect(s)) \/ UNCHANGED housekeepingVars
    BY <1>0, <1>3 DEF EditCommands, EditLang, SecondPasses, RequestReconnect, System,
                      guildVars, housekeepingVars
  <1>4. CASE \/ Start \/ HandleGuildEvent \/ BackgroundThread \/ OnPresenceUpdate
             \/ CompareLang \/ ReloadLang \/ UpdatePresenceLine \/ CheckReconnects
             \/ ReconnectsChecked
    BY <1>4 DEF Start, HandleGuildEvent, BackgroundThread, OnPresenceUpdate, CompareLang,
       ReloadLang, UpdatePresenceLine, CheckReconnects, ReconnectsChecked, TimerAt, WorldSame
  <1> QED BY <1>1, <1>2, <1>3, <1>4 DEF HousekeepingNext

(* Every step keeps the invariant of the timers.                            *)
LEMMA NextHousekeepingInv ==
    HousekeepingInv /\ [HousekeepingNext]_housekeepingVars => HousekeepingInv'
  <1> SUFFICES ASSUME HousekeepingInv, [HousekeepingNext]_housekeepingVars
               PROVE  HousekeepingInv'
    OBVIOUS
  <1>1. HousekeepingTypeOK'
    BY TypeStep DEF HousekeepingInv
  <1>2. NothingLeft' /\ ClearsFollowOutcomes' /\ TextsFollowFile' /\ TimesPassed'
    BY NothingLeftStep, ClearsStep, TextsStep
  <1>3. up' => EventsTellTheWorld' /\ QueriesWriteTheKnown'
    BY EventsStep, QueriesStep
  <1> QED BY <1>1, <1>2, <1>3 DEF HousekeepingInv

(* The inductive invariant of the guild counts, the texts and the           *)
(* reconnections, for every number of guilds and shards.                    *)
THEOREM HousekeepingInvariance == HousekeepingSpec => []HousekeepingInv
  BY InitHousekeepingInv, NextHousekeepingInv, PTL DEF HousekeepingSpec

-----------------------------------------------------------------------------
(* The properties of the timers *)

(* For every number of guilds, and of joins, departures, outages and        *)
(* crashes in between, the guilds counted are those the bot is in, once it  *)
(* has heard of them (presence.cpp:92, trivia.cpp:283).                     *)
THEOREM Counts == HousekeepingSpec => []GuildsAreCounted
  <1>1. HousekeepingInv => GuildsAreCounted
    <2> SUFFICES ASSUME HousekeepingInv, Settled PROVE
                   /\ member \ outage \subseteq known
                   /\ known \subseteq guild_temp_cache \ kicked
                   /\ guild_temp_cache \subseteq member \cup stale
      BY DEF GuildsAreCounted
    <2>1. HousekeepingTypeOK /\ EventsTellTheWorld /\ QueriesWriteTheKnown
          /\ unheard = <<>> /\ queue = <<>>
      BY DEF HousekeepingInv, Settled
    <2>2. \A S : Silent(unheard, S) /\ Silent(queue, S)
      BY <2>1 DEF Silent
    <2>3. \A g \in Guilds : /\ g \in member \ outage => g \in known
                            /\ g \in known => g \in member
                            /\ g \in known => g \in guild_temp_cache
                            /\ g \in guild_temp_cache => g \in known \cup stale
                            /\ g \in known => g \notin kicked
      BY <2>1, <2>2 DEF EventsTellTheWorld, QueriesWriteTheKnown
    <2> QED BY <2>1, <2>3 DEF HousekeepingTypeOK
  <1> QED BY <1>1, HousekeepingInvariance, PTL

(* However often lang.json is written and however the writes fall between   *)
(* the steps of the reading, a whole file is in use or will be read         *)
(* (lang.cpp:45).                                                           *)
THEOREM TextsAreFollowed == HousekeepingSpec => []TextsFollowFile
  <1>1. HousekeepingInv => TextsFollowFile
    BY DEF HousekeepingInv
  <1> QED BY <1>1, HousekeepingInvariance, PTL

(* For every number of shards and of requests, a request is forgotten only  *)
(* with its outcome in the row, also across crashes (reconnect.cpp:56).     *)
THEOREM RequestsAreDone == HousekeepingSpec => ForgottenRequestsAreDone
  <1> DEFINE Done == \A s \in Shards :
               infobot_shard_status[s].forcereconnect /\ ~infobot_shard_status'[s].forcereconnect
                   => infobot_shard_status[s].status \in Outcomes
  <1>1. HousekeepingInv /\ [HousekeepingNext]_housekeepingVars => [Done]_housekeepingVars
    <2> SUFFICES ASSUME HousekeepingInv, HousekeepingNext, NEW s \in Shards,
                        infobot_shard_status[s].forcereconnect,
                        ~infobot_shard_status'[s].forcereconnect
                 PROVE  infobot_shard_status[s].status \in Outcomes
      OBVIOUS
    <2>1. HousekeepingTypeOK /\ ClearsFollowOutcomes
      BY DEF HousekeepingInv
    <2>2. CASE BackgroundThread
      <3>1. queue # <<>> /\ Executed(Head(queue)) /\ queue \in Seq(BackgroundQueries)
        BY <2>1, <2>2 DEF BackgroundThread, HousekeepingTypeOK
      <3>2. Head(queue).do = "clear" /\ Head(queue).shard = s
        BY <2>1, <3>1 DEF Executed, HousekeepingTypeOK
      <3>3. 1 \in DOMAIN queue /\ Head(queue) = queue[1]
        BY <3>1
      <3> QED BY <2>1, <3>2, <3>3 DEF ClearsFollowOutcomes
    <2>3. CASE \E r \in Shards : RequestReconnect(r)
      BY <2>1, <2>3 DEF RequestReconnect, HousekeepingTypeOK
    <2>4. CASE \/ Start \/ HandleGuildEvent \/ OnPresenceUpdate \/ CompareLang \/ ReloadLang
               \/ UpdatePresenceLine \/ CheckReconnects \/ ReconnectsChecked
               \/ (\E h \in Guilds : JoinGuild(h) \/ LeaveGuild(h) \/ Outage(h))
               \/ EditCommands \/ EditLang \/ Crash \/ SecondPasses
      <3>1. infobot_shard_status' = infobot_shard_status
        BY <2>4 DEF Start, HandleGuildEvent, OnPresenceUpdate, CompareLang, ReloadLang,
           UpdatePresenceLine, CheckReconnects, ReconnectsChecked, JoinGuild, LeaveGuild,
           Outage, EditCommands, EditLang, Crash, SecondPasses, WorldSame
      <3> QED BY <3>1
    <2> QED BY <2>2, <2>3, <2>4 DEF HousekeepingNext
  <1>2. HousekeepingSpec => [][Done]_housekeepingVars
    BY <1>1, HousekeepingInvariance, PTL DEF HousekeepingSpec
  <1> QED BY <1>2 DEF ForgottenRequestsAreDone
=============================================================================
