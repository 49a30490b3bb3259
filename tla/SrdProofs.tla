------------------------------ MODULE SrdProofs ------------------------------
(***************************************************************************)
(* Proofs about Srd, for any disks, pool threads, clients, requests and     *)
(* limits.                                                                  *)
(***************************************************************************)
EXTENDS Srd, FiniteSetTheorems, WellFoundedInduction, TLAPS

(***************************************************************************)
(* Sums                                                                     *)
(*                                                                          *)
(* Total is a fold over the keys of a map. The two forms of induction these *)
(* lemmas need are stated with sets in the place of predicates.             *)
(***************************************************************************)

\* A set of natural numbers has a least one.
LEMMA LeastNumber ==
    ASSUME NEW T, T \subseteq Nat, T # {}
    PROVE  \E n \in T : \A m \in T : n <= m
<1>. DEFINE R == OpToRel(<, Nat)
<1>1. IsWellFoundedOn(R, Nat)
  BY NatLessThanWellFounded
<1>. HIDE DEF R
<1>2. PICK n \in T : \A m \in T : ~(<<m, n>> \in R)
  BY <1>1, WFMin
<1>3. \A m \in T : ~(m < n)
  BY <1>2 DEF R, OpToRel
<1>. QED  BY <1>3

\* What holds for a set when it holds for the set without any one element
\* holds for every part of a finite set.
LEMMA PartsInduction ==
    ASSUME NEW S, IsFiniteSet(S), NEW Good,
           \A s \in SUBSET S : (\A x \in s : s \ {x} \in Good) => s \in Good
    PROVE  SUBSET S \subseteq Good
<1>. DEFINE T == {n \in Nat : \E s \in SUBSET S :
                                  s \notin Good /\ Cardinality(s) = n}
<1>. SUFFICES ASSUME NEW r \in SUBSET S, r \notin Good PROVE FALSE
  OBVIOUS
<1>1. \A s \in SUBSET S : IsFiniteSet(s) /\ Cardinality(s) \in Nat
  BY FS_Subset, FS_CardinalityType
<1>2. T # {} /\ T \subseteq Nat
  BY <1>1
<1>3. PICK n \in T : \A m \in T : n <= m
  BY <1>2, LeastNumber
<1>4. PICK s \in SUBSET S : s \notin Good /\ Cardinality(s) = n
  BY <1>3
<1>5. PICK x \in s : s \ {x} \notin Good
  BY <1>4
<1>6. Cardinality(s \ {x}) = n - 1
  BY <1>1, <1>4, <1>5, FS_RemoveElement
<1>7. s \ {x} \in SUBSET S /\ Cardinality(s \ {x}) \in Nat
  BY <1>1
<1>8. n - 1 \in T
  BY <1>5, <1>6, <1>7
<1>. QED  BY <1>2, <1>3, <1>8

Pick(s) == CHOOSE x \in s : TRUE
Without(s) == s \ {Pick(s)}

\* g adds up the values of map over the parts of S that are in D.
Adds(g, map, D) ==
    g = [s \in D |-> IF s = {} THEN 0 ELSE map[Pick(s)] + g[Without(s)]]
Sums(map) == CHOOSE g : Adds(g, map, SUBSET DOMAIN map)

LEMMA TotalIsSum == ASSUME NEW map PROVE Total(map) = Sums(map)[DOMAIN map]
BY DEF Total, MapThenSumSet, MapThenFoldSet, Sums, Adds, Without, Pick

\* The recursion that Total stands for has a solution.
LEMMA SumsExist ==
    ASSUME NEW S, IsFiniteSet(S), NEW map
    PROVE  \E g : Adds(g, map, SUBSET S)
<1>. DEFINE Small(n) == {s \in SUBSET S : Cardinality(s) <= n}
            T == {n \in Nat : ~\E g : Adds(g, map, Small(n))}
<1>1. \A s \in SUBSET S : IsFiniteSet(s) /\ Cardinality(s) \in Nat
  BY FS_Subset, FS_CardinalityType
<1>2. ASSUME NEW s \in SUBSET S, s # {}
      PROVE  /\ Without(s) \in SUBSET S
             /\ Cardinality(Without(s)) = Cardinality(s) - 1
  BY <1>1, <1>2, FS_RemoveElement DEF Without, Pick
<1>3. T = {}
  <2>. SUFFICES ASSUME T # {} PROVE FALSE
    OBVIOUS
  <2>1. T \subseteq Nat
    OBVIOUS
  <2>2. PICK n \in T : \A m \in T : n <= m
    BY <2>1, LeastNumber
  <2>3. n # 0
    <3>. SUFFICES ASSUME n = 0 PROVE FALSE
      OBVIOUS
    <3>. DEFINE g == [s \in Small(0) |-> 0]
    <3>1. \A s \in Small(0) : s = {}
      BY <1>1, FS_EmptySet
    <3>2. Adds(g, map, Small(0))
      BY <3>1 DEF Adds
    <3>. QED  BY <2>2, <3>2
  <2>4. n - 1 \in Nat /\ n - 1 \notin T
    <3>. HIDE DEF T
    <3>. QED  BY <2>1, <2>2, <2>3
  <2>5. PICK h : Adds(h, map, Small(n - 1))
    BY <2>4
  <2>. DEFINE g == [s \in Small(n) |-> IF s = {} THEN 0
                                       ELSE map[Pick(s)] + h[Without(s)]]
  <2>6. ASSUME NEW s \in Small(n), s # {}
        PROVE  g[Without(s)] = h[Without(s)]
    <3>1. Without(s) \in Small(n - 1) /\ Without(s) \in Small(n)
      BY <1>1, <1>2, <2>1, <2>6
    <3>. DEFINE t == Without(s)
    <3>2. h[t] = IF t = {} THEN 0 ELSE map[Pick(t)] + h[Without(t)]
      BY <2>5, <3>1 DEF Adds
    <3>3. g[t] = IF t = {} THEN 0 ELSE map[Pick(t)] + h[Without(t)]
      BY <3>1
    <3>. QED  BY <3>2, <3>3
  <2>7. Adds(g, map, Small(n))
    BY <2>6 DEF Adds
  <2>. QED  BY <2>1, <2>2, <2>7
<1>4. Cardinality(S) \in Nat
  BY FS_CardinalityType
<1>5. Small(Cardinality(S)) = SUBSET S
  BY FS_Subset
<1>. QED  BY <1>3, <1>4, <1>5

\* A map of natural numbers with finitely many keys.
IsCount(map) == /\ IsFiniteSet(DOMAIN map)
                /\ \A p \in DOMAIN map : map[p] \in Nat

LEMMA SumsUnfold ==
    ASSUME NEW map, IsCount(map), NEW s \in SUBSET DOMAIN map
    PROVE  Sums(map)[s] = IF s = {} THEN 0
                          ELSE map[Pick(s)] + Sums(map)[Without(s)]
<1>1. Adds(Sums(map), map, SUBSET DOMAIN map)
  BY SumsExist DEF IsCount, Sums
<1>. QED  BY <1>1 DEF Adds

LEMMA SumsType ==
    ASSUME NEW map, IsCount(map)
    PROVE  \A s \in SUBSET DOMAIN map : Sums(map)[s] \in Nat
<1>. DEFINE G == Sums(map)
            Good == {s \in SUBSET DOMAIN map : G[s] \in Nat}
<1>1. ASSUME NEW s \in SUBSET DOMAIN map, \A x \in s : s \ {x} \in Good
      PROVE  s \in Good
  <2>1. CASE s = {}
    BY <2>1, SumsUnfold
  <2>2. CASE s # {}
    <3>1. Pick(s) \in s /\ Without(s) = s \ {Pick(s)}
      BY <2>2 DEF Pick, Without
    <3>2. G[Without(s)] \in Nat /\ map[Pick(s)] \in Nat
      BY <1>1, <3>1 DEF IsCount
    <3>3. G[s] = map[Pick(s)] + G[Without(s)]
      BY <2>2, SumsUnfold
    <3>. QED  BY <3>2, <3>3
  <2>. QED  BY <2>1, <2>2
<1>2. SUBSET DOMAIN map \subseteq Good
  <2>1. \A s \in SUBSET DOMAIN map :
            (\A x \in s : s \ {x} \in Good) => s \in Good
    BY <1>1
  <2>2. IsFiniteSet(DOMAIN map)
    BY DEF IsCount
  <2>. HIDE DEF Good
  <2>. QED  BY <2>1, <2>2, PartsInduction, ZenonT(30)
<1>. QED  BY <1>2

\* Any key may be taken out first.
LEMMA SumsAny ==
    ASSUME NEW map, IsCount(map)
    PROVE  \A s \in SUBSET DOMAIN map : \A x \in s :
               Sums(map)[s] = map[x] + Sums(map)[s \ {x}]
<1>. DEFINE G == Sums(map)
            Good == {s \in SUBSET DOMAIN map : \A x \in s :
                         G[s] = map[x] + G[s \ {x}]}
<1>1. ASSUME NEW s \in SUBSET DOMAIN map, \A x \in s : s \ {x} \in Good,
             NEW x \in s
      PROVE  G[s] = map[x] + G[s \ {x}]
  <2>. DEFINE c == Pick(s)
  <2>1. c \in s /\ Without(s) = s \ {c}
    BY DEF Pick, Without
  <2>2. G[s] = map[c] + G[s \ {c}]
    BY <2>1, SumsUnfold
  <2>. HIDE DEF c
  <2>3. CASE x = c
    BY <2>2, <2>3
  <2>4. CASE x # c
    <3>1. G[s \ {c}] = map[x] + G[(s \ {c}) \ {x}]
      BY <1>1, <2>1, <2>4
    <3>2. G[s \ {x}] = map[c] + G[(s \ {x}) \ {c}]
      BY <1>1, <2>1, <2>4
    <3>. DEFINE rest == (s \ {x}) \ {c}
    <3>3. (s \ {c}) \ {x} = rest
      OBVIOUS
    <3>4. G[rest] \in Nat /\ map[x] \in Nat /\ map[c] \in Nat
      <4>1. rest \in SUBSET DOMAIN map
        OBVIOUS
      <4>. QED  BY <2>1, <4>1, SumsType DEF IsCount
    <3>5. G[s \ {c}] = map[x] + G[rest] /\ G[s \ {x}] = map[c] + G[rest]
      BY <3>1, <3>2, <3>3
    <3>. HIDE DEF G, rest
    <3>. QED  BY <2>2, <3>4, <3>5
  <2>. QED  BY <2>3, <2>4
<1>2. SUBSET DOMAIN map \subseteq Good
  <2>1. \A s \in SUBSET DOMAIN map :
            (\A x \in s : s \ {x} \in Good) => s \in Good
    BY <1>1
  <2>2. IsFiniteSet(DOMAIN map)
    BY DEF IsCount
  <2>. HIDE DEF Good
  <2>. QED  BY <2>1, <2>2, PartsInduction, ZenonT(30)
<1>. QED  BY <1>2

\* What is left of a total when a key is taken out.
LEMMA TotalFacts ==
    ASSUME NEW map, IsCount(map)
    PROVE  /\ Total(map) \in Nat
           /\ \A p \in DOMAIN map : map[p] <= Total(map)
           /\ DOMAIN map = {} => Total(map) = 0
<1>1. DOMAIN map \in SUBSET DOMAIN map
  OBVIOUS
<1>2. Total(map) \in Nat
  BY <1>1, SumsType, TotalIsSum
<1>3. ASSUME NEW p \in DOMAIN map PROVE map[p] <= Total(map)
  <2>. DEFINE rest == DOMAIN map \ {p}
  <2>1. Total(map) = map[p] + Sums(map)[rest]
    BY <1>1, SumsAny, TotalIsSum
  <2>2. rest \in SUBSET DOMAIN map
    OBVIOUS
  <2>3. Sums(map)[rest] \in Nat /\ map[p] \in Nat
    BY <2>2, SumsType DEF IsCount
  <2>. HIDE DEF rest
  <2>. QED  BY <2>1, <2>3
<1>4. DOMAIN map = {} => Total(map) = 0
  BY <1>1, SumsUnfold, TotalIsSum
<1>. QED  BY <1>2, <1>3, <1>4

Steps(k, n) == IF k = 0 THEN 0 ELSE n

\* A map that is larger by at most k for each key has a total that is larger
\* by at most k times the number of keys.
LEMMA TotalGrows ==
    ASSUME NEW f, NEW g, NEW k \in {0, 1}, IsCount(f), IsCount(g),
           DOMAIN f = DOMAIN g, \A p \in DOMAIN g : f[p] <= g[p] + k
    PROVE  Total(f) <= Total(g) + Steps(k, Cardinality(DOMAIN g))
<1>. DEFINE D == DOMAIN g
            F == Sums(f)
            G == Sums(g)
            Good == {s \in SUBSET D : F[s] <= G[s] + Steps(k, Cardinality(s))}
<1>1. IsFiniteSet(D)
  BY DEF IsCount
<1>2. \A s \in SUBSET D : IsFiniteSet(s) /\ Cardinality(s) \in Nat
  BY <1>1, FS_Subset, FS_CardinalityType
<1>3. ASSUME NEW s \in SUBSET D, \A x \in s : s \ {x} \in Good
      PROVE  s \in Good
  <2>1. CASE s = {}
    <3>1. F[s] = 0 /\ G[s] = 0 /\ Cardinality(s) = 0
      BY <2>1, SumsUnfold, FS_EmptySet
    <3>. QED  BY <3>1 DEF Steps
  <2>2. CASE s # {}
    <3>1. PICK x : x \in s
      BY <2>2
    <3>. DEFINE r == s \ {x}
    <3>2. r \in SUBSET D /\ F[r] <= G[r] + Steps(k, Cardinality(r))
      BY <1>3, <3>1
    <3>3. Cardinality(r) = Cardinality(s) - 1 /\ Cardinality(s) \in Nat
      BY <1>2, <3>1, FS_RemoveElement
    <3>4. F[s] = f[x] + F[r] /\ G[s] = g[x] + G[r]
      BY <3>1, SumsAny
    <3>5. F[r] \in Nat /\ G[r] \in Nat /\ f[x] \in Nat /\ g[x] \in Nat
      BY <3>1, <3>2, SumsType DEF IsCount
    <3>6. f[x] <= g[x] + k
      BY <3>1
    <3>. HIDE DEF F, G, r, D
    <3>7. CASE k = 0
      BY <1>3, <3>2, <3>4, <3>5, <3>6, <3>7 DEF Steps
    <3>8. CASE k = 1
      BY <1>3, <3>2, <3>3, <3>4, <3>5, <3>6, <3>8 DEF Steps
    <3>. QED  BY <3>7, <3>8
  <2>. QED  BY <2>1, <2>2
<1>4. SUBSET D \subseteq Good
  <2>1. \A s \in SUBSET D : (\A x \in s : s \ {x} \in Good) => s \in Good
    BY <1>3
  <2>. HIDE DEF Good, D
  <2>. QED  BY <1>1, <2>1, PartsInduction, ZenonT(30)
<1>5. D \in Good
  BY <1>4
<1>. QED  BY <1>5, TotalIsSum

\* Keys that count nothing add nothing.
LEMMA TotalExtended ==
    ASSUME NEW f, NEW g, IsCount(f), IsCount(g), DOMAIN g \subseteq DOMAIN f,
           \A p \in DOMAIN f : f[p] = Has(g, p)
    PROVE  Total(f) = Total(g)
<1>. DEFINE D == DOMAIN f
            E == DOMAIN g
            F == Sums(f)
            G == Sums(g)
            Good == {s \in SUBSET D : F[s] = G[s \cap E]}
<1>1. IsFiniteSet(D)
  BY DEF IsCount
<1>2. ASSUME NEW s \in SUBSET D, \A x \in s : s \ {x} \in Good
      PROVE  s \in Good
  <2>1. CASE s = {}
    <3>1. s \cap E = {} /\ s \cap E \in SUBSET E
      BY <2>1
    <3>. QED  BY <2>1, <3>1, SumsUnfold
  <2>2. CASE s # {}
    <3>1. PICK x : x \in s
      BY <2>2
    <3>. DEFINE r == s \ {x}
    <3>2. F[s] = f[x] + F[r] /\ F[r] = G[r \cap E] /\ f[x] = Has(g, x)
      BY <1>2, <3>1, SumsAny
    <3>3. CASE x \in E
      <4>1. x \in s \cap E /\ (s \cap E) \ {x} = r \cap E
        BY <3>1, <3>3
      <4>2. G[s \cap E] = g[x] + G[(s \cap E) \ {x}]
        <5>1. s \cap E \in SUBSET DOMAIN g
          OBVIOUS
        <5>. QED  BY <4>1, <5>1, SumsAny
      <4>. QED  BY <3>2, <3>3, <4>1, <4>2 DEF Has
    <3>4. CASE x \notin E
      <4>1. s \cap E = r \cap E
        BY <3>1, <3>4
      <4>2. G[r \cap E] \in Nat
        BY SumsType
      <4>3. f[x] = 0
        BY <3>2, <3>4 DEF Has
      <4>4. F[s] = G[r \cap E]
        <5>. HIDE DEF F, G, r
        <5>. QED  BY <3>2, <4>2, <4>3
      <4>. QED  BY <4>1, <4>4
    <3>. QED  BY <3>3, <3>4
  <2>. QED  BY <2>1, <2>2
<1>3. SUBSET D \subseteq Good
  <2>1. \A s \in SUBSET D : (\A x \in s : s \ {x} \in Good) => s \in Good
    BY <1>2
  <2>. HIDE DEF Good, D
  <2>. QED  BY <1>1, <2>1, PartsInduction, ZenonT(30)
<1>4. D \in Good /\ D \cap E = E
  BY <1>3
<1>. QED  BY <1>4, TotalIsSum

(***************************************************************************)
(* The inductive invariant                                                  *)
(***************************************************************************)

IsMap(map) == DOMAIN map \subseteq Paths /\ \A p \in DOMAIN map : map[p] \in Nat

WorkerState == [pc : {"idle", "seal", "push", "info"}, path : Paths]
SettingState == [pc : {"no", "get", "limit", "put"}, val : Int]
CheckPlaces == {"sleep", "enter", "lock", "pop", "relock"}

\* The maps in memory and on disk, and the disks.
SpaceOK ==
    /\ IsMap(srd) /\ IsMap(srd_info)
    /\ (\A map \in db : IsMap(map)) /\ (\A t \in meta : IsMap(t.srd))
    /\ folders \in [Paths -> Nat] /\ other \in [Paths -> Nat]
    /\ queue \in [Paths -> Nat]

ThreadsOK ==
    /\ change \in Int /\ faults \in Nat /\ alive \in BOOLEAN
    /\ lock \in {"free", "main", "check", "leaked"}
    /\ report \in {"no", "wait", "read"}
    /\ worker \in [Workers -> WorkerState]
    /\ setting \in [Procs -> SettingState]
    /\ check = [pc |-> check.pc, plan |-> check.plan]
    /\ DOMAIN check.plan \subseteq Paths
    /\ \A p \in DOMAIN check.plan : check.plan[p] \in Int

\* The main loop chooses finitely many entries, of paths the map has, and
\* shrinks by a positive number.
GoodMain(m) ==
    /\ m = [pc |-> m.pc, todo |-> m.todo, sel |-> m.sel, num |-> m.num,
            del |-> m.del]
    /\ DOMAIN m.sel \subseteq DOMAIN srd
    /\ \A p \in DOMAIN m.sel : IsFiniteSet(m.sel[p])
    /\ IsMap(m.del)
    /\ m.num \in Int
    /\ m.pc = "shrink" => m.num < 0

\* Between the two updates of the info, on the way up (Uncounted) and on the
\* way down (del), the info is ahead of the map.
Ahead(p) ==
    Has(srd_info, p) + Uncounted(p) >= Has(srd, p) + Has(main.del, p)

SrdInv ==
    SpaceOK /\ ThreadsOK /\ GoodMain(main) /\ \A p \in Paths : Ahead(p)

LEMMA SrdConstants ==
    /\ IsFiniteSet(Paths) /\ IsFiniteSet(Workers)
    /\ DiskSize \in Nat /\ ReservedSpace \in Nat /\ InitCapacity \in Nat
    /\ Requests \subseteq Int /\ SRD_NUMBER_UPPER_LIMIT \in Nat
    /\ SRD_MAX_PER_TURN \in Nat /\ SRD_PUNISH_FACTOR \in Nat \ {0}
    /\ (CHOOSE p \in Paths : TRUE) \in Paths
BY SrdAssumption

LEMMA MapCounts == ASSUME NEW map, IsMap(map) PROVE IsCount(map)
<1>1. IsFiniteSet(DOMAIN map)
  BY SrdConstants, FS_Subset DEF IsMap
<1>. QED  BY <1>1 DEF IsMap, IsCount

LEMMA MapTotal == ASSUME NEW map, IsMap(map) PROVE Total(map) \in Nat
BY MapCounts, TotalFacts

LEMMA NoCountIsMap ==
    IsMap(NoCount) /\ DOMAIN NoCount = {} /\ \A p : Has(NoCount, p) = 0
BY DEF NoCount, IsMap, Has

\* What is read of a map and put into it.
LEMMA HasType == ASSUME NEW map, IsMap(map), NEW p PROVE Has(map, p) \in Nat
BY DEF IsMap, Has

LEMMA PutEffect ==
    ASSUME NEW map, IsMap(map), NEW p \in Paths, NEW n \in Nat
    PROVE  /\ IsMap(Put(map, p, n)) /\ Has(Put(map, p, n), p) = n
           /\ DOMAIN map \subseteq DOMAIN Put(map, p, n)
           /\ \A q : q # p => Has(Put(map, p, n), q) = Has(map, q)
BY DEF Put, IsMap, Has

LEMMA ReadIsMap ==
    ASSUME NEW stored, \A map \in stored : IsMap(map)
    PROVE  IsMap(Read(stored))
<1>1. CASE stored = {}
  BY <1>1 DEF Read, IsMap
<1>2. CASE stored # {}
  BY <1>2 DEF Read
<1>. QED  BY <1>1, <1>2

LEMMA LimitedType ==
    ASSUME NEW n \in Int, NEW num \in Int PROVE Limited(n, num) \in Int
BY SrdConstants DEF Limited, Lesser

\* A thread that starts anew, in a main loop that starts anew.
LEMMA MainAtGood ==
    ASSUME NEW pc, pc # "shrink"
    PROVE  GoodMain(MainAt(pc)) /\ MainAt(pc).del = NoCount
           /\ MainAt(pc).pc = pc
<1>1. /\ MainAt(pc).sel = NoSel /\ MainAt(pc).del = NoCount
      /\ MainAt(pc).num = 0 /\ MainAt(pc).pc = pc
      /\ MainAt(pc) = [pc |-> pc, todo |-> MainAt(pc).todo, sel |-> NoSel,
                       num |-> 0, del |-> NoCount]
  BY DEF MainAt
<1>2. DOMAIN NoSel = {}
  BY DEF NoSel
<1>. QED  BY <1>1, <1>2, NoCountIsMap DEF GoodMain

LEMMA IdleWorkers ==
    /\ [w \in Workers |-> Idle] \in [Workers -> WorkerState]
    /\ Idle.pc = "idle"
BY SrdConstants DEF Idle, WorkerState

LEMMA NobodyUncounted ==
    ASSUME NEW p, \A w \in Workers : worker[w].pc # "info"
    PROVE  Uncounted(p) = 0
<1>1. {w \in Workers : worker[w] = [pc |-> "info", path |-> p]} = {}
  OBVIOUS
<1>. QED  BY <1>1, FS_EmptySet DEF Uncounted

LEMMA UncountedType == ASSUME NEW p PROVE Uncounted(p) \in Nat
<1>1. IsFiniteSet({w \in Workers : worker[w] = [pc |-> "info", path |-> p]})
  BY SrdConstants, FS_Subset
<1>. QED  BY <1>1, FS_CardinalityType DEF Uncounted

LEMMA SrdInit == Init => SrdInv
<1>. SUFFICES ASSUME Init PROVE SrdInv
  OBVIOUS
<1>1. SpaceOK
  BY NoCountIsMap DEF Init, SpaceOK, NoQueue
<1>2. change \in Int
  BY LimitedType, SrdConstants DEF Init
<1>3. setting \in [Procs -> SettingState]
  BY DEF Init, NotSetting, SettingState
<1>4. check = [pc |-> check.pc, plan |-> check.plan] /\ check.plan = NoCount
  BY DEF Init, Asleep
<1>5. ThreadsOK
  BY <1>2, <1>3, <1>4, IdleWorkers, NoCountIsMap DEF Init, ThreadsOK
<1>6. GoodMain(main) /\ main.del = NoCount
  BY MainAtGood DEF Init
<1>7. ASSUME NEW p \in Paths PROVE Ahead(p)
  <2>1. Uncounted(p) = 0
    BY IdleWorkers, NobodyUncounted DEF Init
  <2>2. Has(srd_info, p) = 0 /\ Has(srd, p) = 0 /\ Has(main.del, p) = 0
    BY <1>6, NoCountIsMap DEF Init
  <2>. QED  BY <2>1, <2>2 DEF Ahead
<1>. QED  BY <1>1, <1>5, <1>6, <1>7 DEF SrdInv

(***************************************************************************)
(* Steps that leave the map, the info and the workers alone                 *)
(***************************************************************************)

LEMMA Quiet ==
    ASSUME SrdInv, UNCHANGED <<srd, srd_info, worker>>,
           main'.del = main.del \/ main'.del = NoCount,
           SpaceOK', ThreadsOK', GoodMain(main)'
    PROVE  SrdInv'
<1>1. ASSUME NEW p \in Paths PROVE Ahead(p)'
  <2>1. Uncounted(p)' = Uncounted(p) /\ Uncounted(p) \in Nat
    BY UncountedType DEF Uncounted
  <2>2. Has(main'.del, p) <= Has(main.del, p) /\ Has(main'.del, p) \in Nat
    BY HasType, NoCountIsMap DEF SrdInv, GoodMain
  <2>3. Has(srd, p) \in Nat /\ Has(srd_info, p) \in Nat
        /\ Has(main.del, p) \in Nat
    BY HasType DEF SrdInv, SpaceOK, GoodMain
  <2>4. Has(srd, p)' = Has(srd, p) /\ Has(srd_info, p)' = Has(srd_info, p)
    BY DEF Has
  <2>. QED  BY <2>1, <2>2, <2>3, <2>4 DEF SrdInv, Ahead
<1>. QED  BY <1>1 DEF SrdInv

\* A step that moves neither main nor a map.
LEMMA ThreadStep ==
    ASSUME SrdInv, UNCHANGED <<srd, srd_info, db, meta, folders, queue, worker,
                               main>>,
           other' \in [Paths -> Nat], ThreadsOK'
    PROVE  SrdInv'
<1>1. SpaceOK'
  BY DEF SrdInv, SpaceOK
<1>2. GoodMain(main)'
  BY DEF SrdInv, GoodMain
<1>. QED  BY <1>1, <1>2, Quiet

LEMMA SetChangeKeeps ==
    ASSUME SrdInv, NEW x \in Procs, SetChange(x) PROVE SrdInv'
<1>1. /\ UNCHANGED <<srd, srd_info, db, meta, folders, other, queue, worker,
                     main, check, lock, report, faults, alive>>
  BY DEF SetChange, GetChange, LimitChange, PutChange, disk, bounds
<1>2. /\ setting \in [Procs -> SettingState] /\ change \in Int
      /\ setting[x].val \in Int
  BY DEF SrdInv, ThreadsOK, SettingState
<1>3. setting' \in [Procs -> SettingState] /\ change' \in Int
  <2>1. CASE GetChange(x)
    BY <1>2, <2>1 DEF GetChange, SettingState
  <2>2. CASE LimitChange(x)
    <3>0. Total(srd) \in Nat
      BY MapTotal DEF SrdInv, SpaceOK
    <3>1. Total(srd) \in Int
      BY <3>0
    <3>2. Limited(setting[x].val, Total(srd)) \in Int
      BY <1>2, <3>1, LimitedType
    <3>. QED  BY <1>2, <2>2, <3>2 DEF LimitChange, SettingState
  <2>3. CASE PutChange(x)
    BY <1>2, <2>3 DEF PutChange, SettingState, NotSetting
  <2>. QED  BY <2>1, <2>2, <2>3 DEF SetChange
<1>4. ThreadsOK'
  BY <1>1, <1>3 DEF SrdInv, ThreadsOK
<1>. QED  BY <1>1, <1>4, ThreadStep DEF SrdInv, SpaceOK

LEMMA ClientKeeps ==
    ASSUME SrdInv, NEW c \in Clients, NEW n \in Requests, ClientRequest(c, n)
    PROVE  SrdInv'
<1>1. UNCHANGED <<srd, srd_info, change, db, meta, folders, other, lock, main,
                  queue, worker, check, report, faults, alive>>
  BY DEF ClientRequest, disk
<1>2. setting' \in [Procs -> SettingState]
  <2>1. c \in Procs /\ n \in Int
    BY SrdConstants DEF Procs
  <2>. QED  BY <2>1 DEF ClientRequest, SrdInv, ThreadsOK, Setting, SettingState
<1>3. ThreadsOK'
  BY <1>1, <1>2 DEF SrdInv, ThreadsOK
<1>. QED  BY <1>1, <1>3, ThreadStep DEF SrdInv, SpaceOK

LEMMA ReportKeeps ==
    ASSUME SrdInv, StartReport \/ Report PROVE SrdInv'
<1>1. UNCHANGED <<srd, srd_info, change, db, meta, folders, other, main,
                  queue, worker, check, setting, alive>>
  BY DEF StartReport, Report, ReadSrd, EndReport, disk, bounds
<1>2. /\ report' \in {"no", "wait", "read"}
      /\ lock' \in {"free", "main", "check", "leaked"} /\ faults' \in Nat
  BY DEF StartReport, Report, ReadSrd, EndReport, Fault, bounds, SrdInv,
         ThreadsOK
<1>3. ThreadsOK'
  BY <1>1, <1>2 DEF SrdInv, ThreadsOK
<1>. QED  BY <1>1, <1>3, ThreadStep DEF SrdInv, SpaceOK

LEMMA EnvironmentKeeps ==
    ASSUME SrdInv,
           \/ \E p \in Paths : OtherGrows(p)
           \/ \E u \in {"none", "process", "success"} : SetUpgrade(u)
    PROVE  SrdInv'
<1>1. UNCHANGED <<srd, srd_info, change, db, meta, folders, lock, main, queue,
                  worker, check, report, setting>>
  BY DEF OtherGrows, SetUpgrade, disk, threads, bounds
<1>2. other' \in [Paths -> Nat]
  BY DEF OtherGrows, SetUpgrade, disk, SrdInv, SpaceOK
<1>3. faults' \in Nat
  BY DEF OtherGrows, SetUpgrade, bounds, Fault, SrdInv, ThreadsOK
<1>4. alive' \in BOOLEAN
  <2>1. alive' = alive \/ alive' = FALSE
    BY DEF OtherGrows, SetUpgrade, bounds
  <2>. QED  BY <2>1 DEF SrdInv, ThreadsOK
<1>5. ThreadsOK'
  BY <1>1, <1>3, <1>4 DEF SrdInv, ThreadsOK
<1>. QED  BY <1>1, <1>2, <1>5, ThreadStep

LEMMA CrashKeeps == ASSUME SrdInv, Crash PROVE SrdInv'
<1>1. /\ UNCHANGED <<srd, srd_info, change, db, folders, other, lock, main,
                     queue, worker, check, report, setting>>
      /\ meta' = meta \/ meta' = {}
      /\ alive' = FALSE /\ faults' = faults + 1
  BY DEF Crash, Fault, disk, threads
<1>2. SpaceOK'
  BY <1>1 DEF SrdInv, SpaceOK
<1>3. ThreadsOK'
  <2>1. faults' \in Nat
    BY <1>1 DEF SrdInv, ThreadsOK
  <2>2. alive' \in BOOLEAN
    BY <1>1
  <2>. QED  BY <1>1, <2>1, <2>2 DEF SrdInv, ThreadsOK
<1>4. GoodMain(main)'
  BY <1>1 DEF SrdInv, GoodMain
<1>. QED  BY <1>1, <1>2, <1>3, <1>4, Quiet

LEMMA AvailType ==
    ASSUME SpaceOK, NEW p \in Paths PROVE Avail(p) \in Nat
<1>1. folders[p] \in Nat /\ other[p] \in Nat
  BY DEF SpaceOK
<1>. QED  BY <1>1, SrdConstants DEF Avail, AtLeast0

\* The reserve thread plans, enters, locks, yields and writes the record.
LEMMA ReservePlans ==
    ASSUME SrdInv, ReadInfo \/ EnterReserve \/ LockReserve \/ ReserveYield
    PROVE  SrdInv'
<1>1. UNCHANGED <<srd, srd_info, change, db, meta, folders, other, main,
                  queue, worker, setting, report, alive>>
  BY DEF ReadInfo, EnterReserve, LockReserve, ReserveYield, disk, bounds
<1>2. /\ lock' \in {"free", "main", "check", "leaked"} /\ faults' \in Nat
  BY DEF ReadInfo, EnterReserve, LockReserve, ReserveYield, bounds, Fault,
         SrdInv, ThreadsOK
<1>3. /\ check' = [pc |-> check'.pc, plan |-> check'.plan]
      /\ DOMAIN check'.plan \subseteq Paths
      /\ \A p \in DOMAIN check'.plan : check'.plan[p] \in Int
  <2>1. CASE ReadInfo
    <3>1. IsMap(Read(db))
      BY ReadIsMap DEF SrdInv, SpaceOK
    <3>2. DOMAIN ReservePlan \subseteq Paths
      BY <3>1 DEF ReservePlan, IsMap
    <3>3. ASSUME NEW p \in DOMAIN ReservePlan PROVE ReservePlan[p] \in Int
      <4>1. p \in Paths /\ Read(db)[p] \in Nat
        BY <3>1, <3>2 DEF ReservePlan, IsMap
      <4>2. Avail(p) \in Nat
        BY <4>1, AvailType DEF SrdInv
      <4>3. Lesser(ReservedSpace - Avail(p), Read(db)[p]) \in Int
        BY <4>1, <4>2, SrdConstants DEF Lesser
      <4>. QED  BY <4>3 DEF ReservePlan
    <3>4. check' = [pc |-> "enter", plan |-> ReservePlan]
      BY <2>1 DEF ReadInfo
    <3>. QED  BY <3>2, <3>3, <3>4
  <2>2. CASE check' = Asleep
    BY <2>2, NoCountIsMap DEF Asleep
  <2>3. ASSUME NEW pc, check' = [check EXCEPT !.pc = pc]
        PROVE  check' = [pc |-> check'.pc, plan |-> check'.plan]
               /\ check'.plan = check.plan
    BY <2>3 DEF SrdInv, ThreadsOK
  <2>4. CASE \E pc : check' = [check EXCEPT !.pc = pc]
    BY <2>3, <2>4 DEF SrdInv, ThreadsOK
  <2>. QED  BY <2>1, <2>2, <2>4
            DEF EnterReserve, LockReserve, ReserveYield
<1>4. ThreadsOK'
  BY <1>1, <1>2, <1>3 DEF SrdInv, ThreadsOK
<1>. QED  BY <1>1, <1>4, ThreadStep DEF SrdInv, SpaceOK

LEMMA ReserveDoneKeeps == ASSUME SrdInv, ReserveDone PROVE SrdInv'
<1>1. /\ UNCHANGED <<srd, srd_info, change, meta, folders, other, main,
                     queue, worker, setting, report, alive>>
      /\ check' = Asleep /\ lock' = "free"
      /\ db' = {srd_info} \/ db' = db
      /\ faults' = faults \/ faults' = faults + 1
  BY DEF ReserveDone, disk, Fault
<1>2. SpaceOK'
  BY <1>1 DEF SrdInv, SpaceOK
<1>3. check' = [pc |-> check'.pc, plan |-> check'.plan] /\ check'.plan = NoCount
  BY <1>1 DEF Asleep
<1>4. ThreadsOK'
  BY <1>1, <1>3, NoCountIsMap DEF SrdInv, ThreadsOK
<1>5. GoodMain(main)'
  BY <1>1 DEF SrdInv, GoodMain
<1>. QED  BY <1>1, <1>2, <1>4, <1>5, Quiet

(***************************************************************************)
(* The main loop: validation and decrease                                   *)
(***************************************************************************)

LEMMA MainStep ==
    ASSUME SrdInv, UNCHANGED <<srd, srd_info, db, meta, folders, other, worker,
                               check, report>>,
           queue' \in [Paths -> Nat], setting' \in [Procs -> SettingState],
           change' \in Int, faults' = faults \/ faults' = faults + 1,
           alive' = alive \/ alive' = FALSE,
           lock' \in {"free", "main", "check", "leaked"},
           GoodMain(main'), main'.del = main.del \/ main'.del = NoCount
    PROVE  SrdInv'
<1>1. SpaceOK'
  BY DEF SrdInv, SpaceOK
<1>2. faults' \in Nat
  BY DEF SrdInv, ThreadsOK
<1>3. alive' \in BOOLEAN
  BY DEF SrdInv, ThreadsOK
<1>4. ThreadsOK'
  BY <1>2, <1>3 DEF SrdInv, ThreadsOK
<1>5. GoodMain(main)'
  BY DEF GoodMain
<1>. QED  BY <1>1, <1>4, <1>5, Quiet

\* The main loop and nothing else but lock, alive and the faults.
LEMMA MainAlone ==
    ASSUME SrdInv, UNCHANGED <<srd, srd_info, change, db, meta, disk, queue,
                               worker, check, report, setting>>,
           faults' = faults \/ faults' = faults + 1,
           alive' = alive \/ alive' = FALSE,
           lock' \in {"free", "main", "check", "leaked"},
           GoodMain(main'), main'.del = main.del \/ main'.del = NoCount
    PROVE  SrdInv'
<1>1. UNCHANGED <<folders, other>>
  BY DEF disk
<1>2. /\ queue' \in [Paths -> Nat] /\ setting' \in [Procs -> SettingState]
      /\ change' \in Int
  BY DEF SrdInv, SpaceOK, ThreadsOK
<1>. QED  BY <1>1, <1>2, MainStep

LEMMA ValidateSrdKeeps == ASSUME SrdInv, ValidateSrd PROVE SrdInv'
<1>1. /\ UNCHANGED <<srd, srd_info, change, db, meta, disk, queue, worker,
                     check, report, setting>>
      /\ faults' = faults \/ faults' = faults + 1
      /\ alive' = alive \/ alive' = FALSE
      /\ lock' = lock \/ lock' = "main"
  BY DEF ValidateSrd
<1>2. lock' \in {"free", "main", "check", "leaked"}
  BY <1>1 DEF SrdInv, ThreadsOK
<1>3. GoodMain(main') /\ (main'.del = main.del \/ main'.del = NoCount)
  <2>1. CASE main' = MainAt("take")
    BY <2>1, MainAtGood
  <2>2. CASE main' = main
    BY <2>2 DEF SrdInv
  <2>3. ASSUME NEW d, main' = [MainAt("check") EXCEPT !.todo = d]
        PROVE  GoodMain(main') /\ main'.del = NoCount
    BY <2>3, MainAtGood DEF GoodMain, MainAt
  <2>. QED  BY <2>1, <2>2, <2>3 DEF ValidateSrd
<1>. QED  BY <1>1, <1>2, <1>3, MainAlone

LEMMA ValidateYieldKeeps == ASSUME SrdInv, ValidateYield PROVE SrdInv'
<1>1. /\ UNCHANGED <<srd, srd_info, change, db, meta, disk, queue, worker,
                     check, report, setting, faults, alive>>
      /\ lock' = "free" /\ main' = [main EXCEPT !.pc = "relock"]
  BY DEF ValidateYield, bounds
<1>2. GoodMain(main') /\ main'.del = main.del
  BY <1>1 DEF SrdInv, GoodMain
<1>. QED  BY <1>1, <1>2, MainAlone

LEMMA IndexPaths ==
    ASSUME NEW e \in Indexes PROVE e[1] \in DOMAIN srd
BY DEF Indexes

LEMMA ValidateEntryKeeps ==
    ASSUME SrdInv, NEW e, ValidateEntry(e) PROVE SrdInv'
<1>1. /\ UNCHANGED <<srd, srd_info, change, db, meta, disk, queue, worker,
                     check, report, setting, alive>>
      /\ lock' = "main" /\ (faults' = faults \/ faults' = faults + 1)
  BY DEF ValidateEntry, Fault
<1>2. GoodMain(main)
  BY DEF SrdInv
<1>3. CASE main' = [main EXCEPT !.pc = "check", !.todo = @ \ {e}]
  <2>1. GoodMain(main') /\ main'.del = main.del
    BY <1>2, <1>3 DEF GoodMain
  <2>. QED  BY <1>1, <2>1, MainAlone
<1>. DEFINE sel == [q \in DOMAIN main.sel \cup {e[1]} |->
                      (IF q \in DOMAIN main.sel THEN main.sel[q] ELSE {})
                      \cup (IF q = e[1] THEN {e[2]} ELSE {})]
<1>4. CASE /\ e \in Indexes
           /\ main' = [main EXCEPT !.pc = "check", !.todo = @ \ {e},
                 !.sel = [q \in DOMAIN @ \cup {e[1]} |->
                             (IF q \in DOMAIN @ THEN @[q] ELSE {})
                             \cup (IF q = e[1] THEN {e[2]} ELSE {})]]
  <2>1. e[1] \in DOMAIN srd
    BY <1>4, IndexPaths
  <2>2. DOMAIN sel \subseteq DOMAIN srd
    BY <1>2, <2>1 DEF GoodMain
  <2>3. ASSUME NEW q \in DOMAIN sel PROVE IsFiniteSet(sel[q])
    <3>1. IsFiniteSet(IF q \in DOMAIN main.sel THEN main.sel[q] ELSE {})
      BY <1>2, FS_EmptySet DEF GoodMain
    <3>2. IsFiniteSet(IF q = e[1] THEN {e[2]} ELSE {})
      BY FS_EmptySet, FS_Singleton
    <3>. QED  BY <3>1, <3>2, FS_Union
  <2>4. main' = [pc |-> "check", todo |-> main.todo \ {e}, sel |-> sel,
                 num |-> main.num, del |-> main.del]
    BY <1>2, <1>4 DEF GoodMain
  <2>. HIDE DEF sel
  <2>5. GoodMain(main') /\ main'.del = main.del
    BY <1>2, <2>2, <2>3, <2>4 DEF GoodMain
  <2>. QED  BY <1>1, <2>5, MainAlone
<1>. QED  BY <1>3, <1>4 DEF ValidateEntry

\* The rounds choose finitely many entries, however many there are.
LEMMA WithLastFinite ==
    ASSUME IsMap(srd), NEW sel, \A p \in DOMAIN sel : IsFiniteSet(sel[p]),
           NEW r
    PROVE  /\ DOMAIN WithLast(sel, r) = DOMAIN srd
           /\ \A p \in DOMAIN srd : IsFiniteSet(WithLast(sel, r)[p])
<1>1. DOMAIN WithLast(sel, r) = DOMAIN srd
  BY DEF WithLast
<1>2. ASSUME NEW p \in DOMAIN srd PROVE IsFiniteSet(WithLast(sel, r)[p])
  <2>. DEFINE old == IF p \in DOMAIN sel THEN sel[p] ELSE {}
              last == {i \in 0..(srd[p] - 1) : i >= srd[p] - r}
  <2>1. IsFiniteSet(old)
    BY FS_EmptySet
  <2>2. srd[p] - 1 \in Int
    BY DEF IsMap
  <2>3. IsFiniteSet(0..(srd[p] - 1))
    BY <2>2, FS_Interval
  <2>4. IsFiniteSet(last)
    BY <2>3, FS_Subset
  <2>5. WithLast(sel, r)[p] = old \cup last
    BY DEF WithLast
  <2>. HIDE DEF old, last
  <2>. QED  BY <2>1, <2>4, <2>5, FS_Union
<1>. QED  BY <1>1, <1>2

LEMMA DecreaseGood ==
    ASSUME SrdInv, NEW sel, \A p \in DOMAIN sel : IsFiniteSet(sel[p]), NEW n,
           NEW next, next # "shrink", Decrease(sel, n, next)
    PROVE  GoodMain(main') /\ main'.del = NoCount
           /\ main'.pc \in {next, "erase"}
<1>1. CASE main' = MainAt(next)
  BY <1>1, MainAtGood
<1>2. ASSUME NEW r, main' = [MainAt("erase") EXCEPT !.sel = WithLast(sel, r)]
      PROVE  GoodMain(main') /\ main'.del = NoCount /\ main'.pc = "erase"
  <2>1. /\ DOMAIN WithLast(sel, r) = DOMAIN srd
        /\ \A p \in DOMAIN srd : IsFiniteSet(WithLast(sel, r)[p])
    BY WithLastFinite DEF SrdInv, SpaceOK
  <2>2. main' = [pc |-> "erase", todo |-> {}, sel |-> WithLast(sel, r),
                 num |-> 0, del |-> NoCount]
    BY <1>2 DEF MainAt
  <2>. QED  BY <2>1, <2>2, NoCountIsMap DEF GoodMain
<1>. QED  BY <1>1, <1>2 DEF Decrease, Chosen

LEMMA PunishKeeps == ASSUME SrdInv, Punish PROVE SrdInv'
<1>1. /\ UNCHANGED <<srd, srd_info, change, db, meta, disk, queue, worker,
                     check, report, setting, faults, alive>>
      /\ lock' \in {"free", "main"}
  BY DEF Punish, bounds
<1>2. GoodMain(main') /\ main'.del = NoCount
  BY DecreaseGood DEF Punish, SrdInv, GoodMain
<1>. QED  BY <1>1, <1>2, MainAlone

LEMMA DeletedKeeps == ASSUME SrdInv, Deleted PROVE SrdInv'
<1>1. /\ UNCHANGED <<srd, srd_info, change, db, meta, disk, queue, worker,
                     check, report, setting, faults, alive>>
      /\ lock' \in {"free", lock}
      /\ main' = MainAt("take") \/ main' = MainAt("persist")
  BY DEF Deleted, bounds
<1>2. GoodMain(main') /\ main'.del = NoCount
  BY <1>1, MainAtGood
<1>3. lock' \in {"free", "main", "check", "leaked"}
  BY <1>1 DEF SrdInv, ThreadsOK
<1>. QED  BY <1>1, <1>2, <1>3, MainAlone

\* Entries that leave the map are still to be taken off the info.
LEMMA EraseKeeps == ASSUME SrdInv, Erase PROVE SrdInv'
<1>1. /\ UNCHANGED <<srd_info, change, db, meta, disk, lock, queue, worker,
                     check, report, setting, faults>>
      /\ lock \in {"free", "main", "check", "leaked"}
  BY DEF Erase, SrdInv, ThreadsOK
<1>. DEFINE cut == [p \in DOMAIN main.sel |-> Cardinality(main.sel[p])]
            del == [p \in {q \in DOMAIN cut : cut[q] > 0} |-> cut[p]]
<1>2. CASE alive' = FALSE /\ UNCHANGED <<srd, main>>
  <2>1. GoodMain(main')
    BY <1>2 DEF SrdInv
  <2>. QED  BY <1>1, <1>2, <2>1, MainAlone
<1>3. CASE /\ \A p \in DOMAIN cut : cut[p] <= srd[p]
           /\ srd' = [p \in DOMAIN srd |-> srd[p] - Has(cut, p)]
           /\ main' = [MainAt("delete") EXCEPT !.del = del]
           /\ UNCHANGED alive
  <2>1. DOMAIN cut \subseteq DOMAIN srd /\ DOMAIN srd \subseteq Paths
    BY DEF SrdInv, GoodMain, SpaceOK, IsMap
  <2>2. \A p \in DOMAIN cut : cut[p] \in Nat
    BY FS_CardinalityType DEF SrdInv, GoodMain
  <2>. HIDE DEF cut
  <2>3. \A p : Has(cut, p) \in Nat
    BY <2>2 DEF Has
  <2>4. \A p \in DOMAIN srd : srd[p] \in Nat /\ Has(cut, p) <= srd[p]
    BY <1>3, <2>1 DEF SrdInv, SpaceOK, IsMap, Has
  <2>5. IsMap(srd')
    BY <1>3, <2>1, <2>3, <2>4 DEF IsMap
  <2>6. IsMap(del) /\ \A p : Has(del, p) = Has(cut, p)
    <3>1. IsMap(del)
      BY <2>1, <2>2 DEF IsMap
    <3>2. ASSUME NEW p PROVE Has(del, p) = Has(cut, p)
      <4>1. CASE p \in DOMAIN cut
        <5>1. cut[p] \in Nat
          BY <2>2, <4>1
        <5>. QED  BY <4>1, <5>1 DEF Has
      <4>2. CASE p \notin DOMAIN cut
        BY <4>2 DEF Has
      <4>. QED  BY <4>1, <4>2
    <3>. QED  BY <3>1, <3>2
  <2>. HIDE DEF del
  <2>7. main' = [pc |-> "delete", todo |-> {}, sel |-> NoSel, num |-> 0,
                 del |-> del]
    BY <1>3 DEF MainAt
  <2>8. GoodMain(main)'
    BY <2>6, <2>7 DEF GoodMain, NoSel, IsMap
  <2>9. SpaceOK' /\ ThreadsOK'
    BY <1>1, <1>3, <2>5 DEF SrdInv, SpaceOK, ThreadsOK, disk
  <2>10. ASSUME NEW p \in Paths PROVE Ahead(p)'
    <3>1. /\ Has(srd', p) + Has(cut, p) = Has(srd, p)
          /\ Has(srd', p) \in Nat /\ Has(cut, p) \in Nat /\ Has(srd, p) \in Nat
      <4>1. CASE p \in DOMAIN srd
        BY <1>3, <2>3, <2>4, <4>1 DEF Has
      <4>2. CASE p \notin DOMAIN srd
        BY <1>3, <2>1, <4>2 DEF Has
      <4>. QED  BY <4>1, <4>2
    <3>2. Has(main'.del, p) = Has(cut, p)
      BY <2>6, <2>7
    <3>3. Uncounted(p)' = Uncounted(p) /\ Uncounted(p) \in Nat
      BY <1>1, UncountedType DEF Uncounted
    <3>4. /\ Has(srd_info', p) = Has(srd_info, p) /\ Has(srd_info, p) \in Nat
          /\ Has(main.del, p) \in Nat
      BY <1>1, HasType DEF SrdInv, SpaceOK, GoodMain
    <3>5. Has(srd_info, p) + Uncounted(p) >= Has(srd, p) + Has(main.del, p)
      BY DEF SrdInv, Ahead
    <3>. QED  BY <3>1, <3>2, <3>3, <3>4, <3>5 DEF Ahead
  <2>. QED  BY <2>8, <2>9, <2>10 DEF SrdInv
<1>. QED  BY <1>2, <1>3 DEF Erase

LEMMA DeleteFoldersType ==
    ASSUME SrdInv, NEW p \in Paths, NEW n \in Int, DeleteFolders(p, n)
    PROVE  /\ folders' \in [Paths -> Nat]
           /\ faults' = faults \/ faults' = faults + 1
<1>1. folders \in [Paths -> Nat]
  BY DEF SrdInv, SpaceOK
<1>2. CASE folders' = [folders EXCEPT ![p] = AtLeast0(@ - n)]
  BY <1>1, <1>2 DEF DeleteFolders, Fault, AtLeast0
<1>3. CASE folders' = [folders EXCEPT ![p] = AtLeast0(@ - (n - 1))]
  BY <1>1, <1>3 DEF DeleteFolders, Fault, AtLeast0
<1>. QED  BY <1>2, <1>3 DEF DeleteFolders

\* The info after set_srd_info.
LEMMA SetSrdInfoEffect ==
    ASSUME SrdInv, NEW p \in Paths, NEW d \in Int, srd_info' = SetSrdInfo(p, d)
    PROVE  /\ IsMap(srd_info')
           /\ Has(srd_info', p) = AtLeast0(Has(srd_info, p) + d)
           /\ \A q : q # p => Has(srd_info', q) = Has(srd_info, q)
<1>1. IsMap(srd_info) /\ Has(srd_info, p) \in Nat
  BY HasType DEF SrdInv, SpaceOK
<1>2. AtLeast0(Has(srd_info, p) + d) \in Nat
  BY <1>1 DEF AtLeast0
<1>. QED  BY <1>1, <1>2, PutEffect DEF SetSrdInfo

\* The numbers of a path before a step.
LEMMA Numbers ==
    ASSUME SrdInv, NEW p \in Paths
    PROVE  /\ Has(srd_info, p) \in Nat /\ Has(srd, p) \in Nat
           /\ Has(main.del, p) \in Nat /\ Uncounted(p) \in Nat
           /\ Has(srd_info, p) + Uncounted(p) >= Has(srd, p) + Has(main.del, p)
BY HasType, UncountedType DEF SrdInv, SpaceOK, GoodMain, Ahead

LEMMA DeletePathKeeps ==
    ASSUME SrdInv, NEW p \in Paths, DeletePath(p) PROVE SrdInv'
<1>. DEFINE del == [q \in DOMAIN main.del \ {p} |-> main.del[q]]
<1>1. /\ UNCHANGED <<srd, change, db, meta, other, lock, queue, worker, check,
                     report, setting, alive>>
      /\ srd_info' = SetSrdInfo(p, -main.del[p])
      /\ main' = [main EXCEPT !.del = del]
      /\ DeleteFolders(p, main.del[p]) /\ p \in DOMAIN main.del
  BY DEF DeletePath
<1>2. IsMap(main.del) /\ main.del[p] \in Nat /\ main.del[p] = Has(main.del, p)
  BY <1>1 DEF SrdInv, GoodMain, IsMap, Has
<1>3. folders' \in [Paths -> Nat] /\ (faults' = faults \/ faults' = faults + 1)
  BY <1>1, <1>2, DeleteFoldersType
<1>4. /\ IsMap(srd_info')
      /\ Has(srd_info', p) = AtLeast0(Has(srd_info, p) + (-main.del[p]))
      /\ \A q : q # p => Has(srd_info', q) = Has(srd_info, q)
  BY <1>1, <1>2, SetSrdInfoEffect
<1>5. /\ IsMap(del) /\ Has(del, p) = 0
      /\ \A q : q # p => Has(del, q) = Has(main.del, q)
  BY <1>2 DEF IsMap, Has
<1>. HIDE DEF del
<1>6. main' = [pc |-> main.pc, todo |-> main.todo, sel |-> main.sel,
               num |-> main.num, del |-> del]
  BY <1>1 DEF SrdInv, GoodMain
<1>7. GoodMain(main)'
  BY <1>1, <1>5, <1>6 DEF SrdInv, GoodMain
<1>8. SpaceOK'
  BY <1>1, <1>3, <1>4 DEF SrdInv, SpaceOK
<1>9. ThreadsOK'
  BY <1>1, <1>3 DEF SrdInv, ThreadsOK
<1>10. ASSUME NEW q \in Paths PROVE Ahead(q)'
  <2>1. Uncounted(q)' = Uncounted(q) /\ Has(srd', q) = Has(srd, q)
        /\ Has(main'.del, q) = Has(del, q)
    BY <1>1, <1>6 DEF Uncounted
  <2>2. CASE q = p
    BY <1>2, <1>4, <1>5, <2>1, <2>2, Numbers DEF Ahead, AtLeast0
  <2>3. CASE q # p
    BY <1>4, <1>5, <2>1, <2>3, Numbers DEF Ahead
  <2>. QED  BY <2>2, <2>3
<1>. QED  BY <1>7, <1>8, <1>9, <1>10 DEF SrdInv

(***************************************************************************)
(* The main loop: growing and shrinking                                     *)
(***************************************************************************)

LEMMA TakeChangeKeeps == ASSUME SrdInv, TakeChange PROVE SrdInv'
<1>. DEFINE n == Lesser(change, SRD_MAX_PER_TURN)
            pc == CASE n = 0 -> "persist" [] n > 0 -> "grow" [] n < 0 -> "shrink"
<1>1. /\ UNCHANGED <<srd, srd_info, db, meta, disk, queue, worker, check,
                     report, setting, faults, alive, lock>>
      /\ change' = change - n
      /\ main' = [MainAt(pc) EXCEPT !.num = n]
  BY DEF TakeChange, bounds
<1>2. n \in Int /\ change \in Int
  BY SrdConstants DEF Lesser, SrdInv, ThreadsOK
<1>3. pc = "shrink" => n < 0
  BY <1>2
<1>. HIDE DEF n, pc
<1>4. main' = [pc |-> pc, todo |-> {}, sel |-> NoSel, num |-> n,
               del |-> NoCount]
  BY <1>1 DEF MainAt
<1>5. GoodMain(main') /\ main'.del = NoCount
  BY <1>2, <1>3, <1>4, NoCountIsMap DEF GoodMain, NoSel
<1>6. change' \in Int
  BY <1>1, <1>2
<1>. QED  BY <1>1, <1>5, <1>6, MainStep DEF disk, SrdInv, SpaceOK, ThreadsOK

LEMMA RoomTotal ==
    ASSUME SrdInv PROVE Total([p \in Paths |-> Room(p)]) \in Nat
<1>. DEFINE room == [p \in Paths |-> Room(p)]
<1>1. \A p \in Paths : Room(p) \in Nat
  BY AvailType, SrdConstants DEF SrdInv, Room, AtLeast0
<1>2. IsMap(room)
  BY <1>1 DEF IsMap
<1>. HIDE DEF room
<1>3. Total(room) \in Nat
  BY <1>2, MapTotal
<1>. QED  BY <1>3 DEF room

LEMMA GrowKeeps == ASSUME SrdInv, Grow PROVE SrdInv'
<1>. DEFINE n == Lesser(main.num, Total([p \in Paths |-> Room(p)]))
<1>1. /\ UNCHANGED <<srd, srd_info, change, db, meta, disk, lock, worker,
                     check, report, alive>>
      /\ queue' \in Deal(n) /\ main' = MainAt("pool")
      /\ faults' = faults \/ faults' = faults + 1
      /\ \/ setting' = setting
         \/ setting' = [setting EXCEPT !["main"] = Setting(main.num - n)]
  BY DEF Grow, Fault
<1>2. n \in Int /\ main.num \in Int
  BY RoomTotal DEF Lesser, SrdInv, GoodMain
<1>. HIDE DEF n
<1>3. queue' \in [Paths -> Nat]
  BY <1>1, <1>2 DEF Deal
<1>4. setting' \in [Procs -> SettingState]
  BY <1>1, <1>2 DEF SrdInv, ThreadsOK, Setting, SettingState, Procs
<1>5. GoodMain(main') /\ main'.del = NoCount
  BY <1>1, MainAtGood
<1>. QED  BY <1>1, <1>3, <1>4, <1>5, MainStep DEF disk, SrdInv, ThreadsOK

LEMMA PoolDoneKeeps == ASSUME SrdInv, PoolDone PROVE SrdInv'
<1>1. /\ UNCHANGED <<srd, srd_info, change, db, meta, disk, queue, worker,
                     check, report, setting, faults, alive, lock>>
      /\ main' = MainAt("persist")
  BY DEF PoolDone, bounds
<1>2. GoodMain(main') /\ main'.del = NoCount
  BY <1>1, MainAtGood
<1>. QED  BY <1>1, <1>2, MainAlone DEF SrdInv, ThreadsOK

LEMMA ShrinkKeeps == ASSUME SrdInv, Shrink PROVE SrdInv'
<1>1. /\ UNCHANGED <<srd, srd_info, change, db, meta, disk, queue, worker,
                     check, report, setting, alive, lock>>
      /\ faults' = faults \/ faults' = faults + 1
  BY DEF Shrink, Fault
<1>2. GoodMain(main') /\ main'.del = NoCount
  <2>1. CASE main' = MainAt("persist")
    BY <2>1, MainAtGood
  <2>2. CASE Decrease(NoSel, Assigned(-main.num), "persist")
    <3>1. \A p \in DOMAIN NoSel : IsFiniteSet(NoSel[p])
      BY DEF NoSel
    <3>. QED  BY <2>2, <3>1, DecreaseGood
  <2>. QED  BY <2>1, <2>2 DEF Shrink
<1>. QED  BY <1>1, <1>2, MainAlone DEF SrdInv, ThreadsOK

LEMMA PersistInfoKeeps == ASSUME SrdInv, PersistInfo PROVE SrdInv'
<1>1. /\ UNCHANGED <<srd, srd_info, change, meta, disk, queue, worker, check,
                     report, setting, alive, lock>>
      /\ main' = MainAt("store")
      /\ db' = {srd_info} \/ db' = db
      /\ faults' = faults \/ faults' = faults + 1
  BY DEF PersistInfo, Fault
<1>2. GoodMain(main') /\ main'.del = NoCount
  BY <1>1, MainAtGood
<1>3. GoodMain(main)'
  BY <1>1, <1>2 DEF GoodMain
<1>4. SpaceOK'
  BY <1>1 DEF SrdInv, SpaceOK, disk
<1>5. ThreadsOK'
  BY <1>1 DEF SrdInv, ThreadsOK
<1>. QED  BY <1>1, <1>2, <1>3, <1>4, <1>5, Quiet

LEMMA StoreMetadataKeeps == ASSUME SrdInv, StoreMetadata PROVE SrdInv'
<1>1. /\ UNCHANGED <<srd, srd_info, change, db, meta, disk, queue, worker,
                     check, report, setting, alive, lock>>
      /\ faults' = faults \/ faults' = faults + 1
  BY DEF StoreMetadata, Fault
<1>. DEFINE all == [p \in DOMAIN srd |-> 0..(srd[p] - 1)]
<1>2. main' \in {MainAt("validate"), [MainAt("walk") EXCEPT !.sel = all]}
  BY DEF StoreMetadata
<1>3. \A p \in DOMAIN srd : IsFiniteSet(all[p])
  <2>1. \A p \in DOMAIN srd : srd[p] - 1 \in Int /\ 0 \in Int
    BY DEF SrdInv, SpaceOK, IsMap
  <2>. QED  BY <2>1, FS_Interval
<1>4. DOMAIN all = DOMAIN srd
  OBVIOUS
<1>. HIDE DEF all
<1>5. GoodMain(main') /\ main'.del = NoCount
  <2>1. CASE main' = MainAt("validate")
    BY <2>1, MainAtGood
  <2>2. CASE main' = [MainAt("walk") EXCEPT !.sel = all]
    BY <1>3, <1>4, <2>2, MainAtGood DEF GoodMain, MainAt
  <2>. QED  BY <1>2, <2>1, <2>2
<1>. QED  BY <1>1, <1>5, MainAlone DEF SrdInv, ThreadsOK

\* What the metadata holds is a map, also where the reserve thread was at
\* work during the walk.
LEMMA StoreEndKeeps == ASSUME SrdInv, StoreEnd PROVE SrdInv'
<1>1. /\ UNCHANGED <<srd, srd_info, change, db, disk, queue, worker, check,
                     report, setting, alive, lock>>
      /\ main' = MainAt("validate")
      /\ faults' = faults \/ faults' = faults + 1
  BY DEF StoreEnd, Fault
<1>2. \A t \in meta' : IsMap(t.srd)
  <2>1. CASE meta' \in {meta, {}}
    BY <2>1 DEF SrdInv, SpaceOK
  <2>2. ASSUME NEW t \in Texts, meta' = {t} PROVE IsMap(t.srd)
    <3>1. t.srd \in [DOMAIN srd -> 0..Count(main.sel)]
      BY <2>2 DEF Texts
    <3>. QED  BY <3>1 DEF SrdInv, SpaceOK, IsMap
  <2>. QED  BY <2>1, <2>2 DEF StoreEnd
<1>3. GoodMain(main') /\ main'.del = NoCount
  BY <1>1, MainAtGood
<1>4. GoodMain(main)'
  BY <1>1, <1>3 DEF GoodMain
<1>5. SpaceOK'
  BY <1>1, <1>2 DEF SrdInv, SpaceOK, disk
<1>6. ThreadsOK'
  BY <1>1 DEF SrdInv, ThreadsOK
<1>. QED  BY <1>1, <1>3, <1>4, <1>5, <1>6, Quiet

(***************************************************************************)
(* The pool threads                                                         *)
(***************************************************************************)

\* One worker changes: what is uncounted changes with it.
LEMMA WorkerChanges ==
    ASSUME SrdInv, NEW w \in Workers, NEW v \in WorkerState,
           worker' = [worker EXCEPT ![w] = v], NEW p \in Paths
    PROVE  /\ worker' \in [Workers -> WorkerState]
           /\ Uncounted(p)' \in Nat
           /\ LET is == [pc |-> "info", path |-> p]
              IN /\ worker[w] = is /\ v # is =>
                       Uncounted(p)' = Uncounted(p) - 1
                 /\ worker[w] # is /\ v = is =>
                       Uncounted(p)' = Uncounted(p) + 1
                 /\ (worker[w] = is <=> v = is) =>
                       Uncounted(p)' = Uncounted(p)
<1>. DEFINE is == [pc |-> "info", path |-> p]
            W == {u \in Workers : worker[u] = is}
            V == {u \in Workers : worker'[u] = is}
<1>1. worker \in [Workers -> WorkerState]
  BY DEF SrdInv, ThreadsOK
<1>2. worker' \in [Workers -> WorkerState] /\ worker'[w] = v
      /\ \A u \in Workers : u # w => worker'[u] = worker[u]
  BY <1>1
<1>3. /\ IsFiniteSet(W) /\ Cardinality(W) \in Nat
      /\ IsFiniteSet(V) /\ Cardinality(V) \in Nat
  BY SrdConstants, FS_Subset, FS_CardinalityType
<1>4. Uncounted(p) = Cardinality(W) /\ Uncounted(p)' = Cardinality(V)
  BY DEF Uncounted
<1>. HIDE DEF is
<1>5. CASE worker[w] = is /\ v # is
  <2>1. V = W \ {w} /\ w \in W
    BY <1>2, <1>5
  <2>. HIDE DEF V, W
  <2>2. Cardinality(V) = Cardinality(W) - 1
    BY <1>3, <2>1, FS_RemoveElement
  <2>. QED  BY <1>2, <1>3, <1>4, <1>5, <2>2 DEF is
<1>6. CASE worker[w] # is /\ v = is
  <2>1. V = W \cup {w} /\ w \notin W
    BY <1>2, <1>6
  <2>. HIDE DEF V, W
  <2>2. Cardinality(V) = Cardinality(W) + 1
    BY <1>3, <2>1, FS_AddElement
  <2>. QED  BY <1>2, <1>3, <1>4, <1>6, <2>2 DEF is
<1>7. CASE worker[w] = is <=> v = is
  <2>1. V = W
    BY <1>2, <1>7
  <2>. HIDE DEF V, W
  <2>. QED  BY <1>2, <1>3, <1>4, <1>7, <2>1 DEF is
<1>. QED  BY <1>5, <1>6, <1>7

LEMMA WorkerMoves ==
    ASSUME SrdInv, NEW w \in Workers, NEW c
    PROVE  [worker EXCEPT ![w].pc = c]
             = [worker EXCEPT ![w] = [pc |-> c, path |-> worker[w].path]]
<1>1. worker \in [Workers -> WorkerState] /\ worker[w] \in WorkerState
  BY DEF SrdInv, ThreadsOK
<1>2. [worker[w] EXCEPT !.pc = c] = [pc |-> c, path |-> worker[w].path]
  BY <1>1 DEF WorkerState
<1>3. [worker EXCEPT ![w].pc = c]
        = [worker EXCEPT ![w] = [worker[w] EXCEPT !.pc = c]]
  BY <1>1
<1>. QED  BY <1>2, <1>3

\* A worker that adds nothing to the map.
LEMMA WorkerSteps ==
    ASSUME SrdInv, NEW w \in Workers, NEW v \in WorkerState,
           worker' = [worker EXCEPT ![w] = v],
           worker[w].pc # "info", v.pc # "info",
           UNCHANGED <<srd, srd_info, db, meta, other, main, change, lock,
                       check, report, alive>>,
           folders' \in [Paths -> Nat], queue' \in [Paths -> Nat],
           setting' \in [Procs -> SettingState],
           faults' = faults \/ faults' = faults + 1
    PROVE  SrdInv'
<1>1. SpaceOK'
  BY DEF SrdInv, SpaceOK
<1>2. worker' \in [Workers -> WorkerState]
  BY DEF SrdInv, ThreadsOK
<1>3. ThreadsOK'
  BY <1>2 DEF SrdInv, ThreadsOK
<1>4. GoodMain(main)'
  BY DEF SrdInv, GoodMain
<1>5. ASSUME NEW p \in Paths PROVE Ahead(p)'
  <2>1. /\ worker[w] # [pc |-> "info", path |-> p]
        /\ v # [pc |-> "info", path |-> p]
    OBVIOUS
  <2>2. Uncounted(p)' = Uncounted(p)
    BY <2>1, WorkerChanges
  <2>3. /\ Has(srd', p) = Has(srd, p) /\ Has(srd_info', p) = Has(srd_info, p)
        /\ Has(main'.del, p) = Has(main.del, p)
    OBVIOUS
  <2>. QED  BY <2>2, <2>3, Numbers DEF Ahead
<1>. QED  BY <1>1, <1>3, <1>4, <1>5 DEF SrdInv

LEMMA IdleState == Idle \in WorkerState /\ Idle.pc = "idle"
BY SrdConstants DEF Idle, WorkerState

LEMMA StartSealKeeps ==
    ASSUME SrdInv, NEW w \in Workers, NEW p \in Paths, StartSeal(w, p)
    PROVE  SrdInv'
<1>1. /\ UNCHANGED <<srd, srd_info, change, db, meta, folders, other, lock,
                     main, check, report, alive>>
      /\ worker[w].pc = "idle" /\ queue[p] > 0
      /\ queue' = [queue EXCEPT ![p] = @ - 1]
      /\ faults' = faults \/ faults' = faults + 1
  BY DEF StartSeal, disk, Fault
<1>2. queue' \in [Paths -> Nat] /\ folders \in [Paths -> Nat]
  BY <1>1 DEF SrdInv, SpaceOK
<1>3. worker \in [Workers -> WorkerState] /\ w \in Procs
      /\ setting \in [Procs -> SettingState]
  BY DEF SrdInv, ThreadsOK, Procs
<1>4. CASE worker' = worker /\ setting' = [setting EXCEPT ![w] = Setting(1)]
  <2>1. worker' = [worker EXCEPT ![w] = worker[w]] /\ worker[w] \in WorkerState
    BY <1>3, <1>4
  <2>2. setting' \in [Procs -> SettingState]
    BY <1>3, <1>4 DEF Setting, SettingState
  <2>. QED  BY <1>1, <1>2, <2>1, <2>2, WorkerSteps
<1>5. ASSUME NEW v \in WorkerState, v.pc # "info",
             worker' = [worker EXCEPT ![w] = v], setting' = setting
      PROVE  SrdInv'
  BY <1>1, <1>2, <1>3, <1>5, WorkerSteps
<1>6. CASE /\ worker' = [worker EXCEPT ![w] =
                 IF upgrade = "process" THEN Idle
                 ELSE [pc |-> "seal", path |-> p]]
           /\ setting' = setting
  <2>. DEFINE v == IF upgrade = "process" THEN Idle
                   ELSE [pc |-> "seal", path |-> p]
  <2>1. v \in WorkerState /\ v.pc # "info"
    BY IdleState DEF WorkerState
  <2>. HIDE DEF v
  <2>2. worker' = [worker EXCEPT ![w] = v]
    BY <1>6 DEF v
  <2>. QED  BY <1>5, <1>6, <2>1, <2>2
<1>. QED  BY <1>4, <1>6 DEF StartSeal

LEMMA SealKeeps ==
    ASSUME SrdInv, NEW w \in Workers, Seal(w) PROVE SrdInv'
<1>1. /\ UNCHANGED <<srd, srd_info, change, db, meta, other, lock, main,
                     queue, check, report, setting, alive>>
      /\ worker[w].pc = "seal"
      /\ faults' = faults \/ faults' = faults + 1
  BY DEF Seal, Fault
<1>2. /\ worker \in [Workers -> WorkerState] /\ worker[w] \in WorkerState
      /\ worker[w].path \in Paths
      /\ queue \in [Paths -> Nat] /\ folders \in [Paths -> Nat]
      /\ setting \in [Procs -> SettingState]
  BY DEF SrdInv, ThreadsOK, SpaceOK, WorkerState
<1>3. CASE worker' = [worker EXCEPT ![w] = Idle] /\ folders' = folders
  BY <1>1, <1>2, <1>3, IdleState, WorkerSteps
<1>4. CASE /\ folders' = [folders EXCEPT ![worker[w].path] =
                 IF Avail(worker[w].path) > 0 THEN @ + 1 ELSE @]
           /\ worker' = [worker EXCEPT ![w].pc = "push"]
  <2>. DEFINE v == [pc |-> "push", path |-> worker[w].path]
  <2>1. v \in WorkerState /\ v.pc = "push"
    BY <1>2 DEF WorkerState
  <2>2. worker' = [worker EXCEPT ![w] = v]
    BY <1>4, WorkerMoves
  <2>3. folders' \in [Paths -> Nat]
    BY <1>2, <1>4
  <2>. HIDE DEF v
  <2>. QED  BY <1>1, <1>2, <2>1, <2>2, <2>3, WorkerSteps
<1>. QED  BY <1>3, <1>4 DEF Seal

\* The entry is in the map, and the worker still has to add it to the info.
LEMMA PushHashKeeps ==
    ASSUME SrdInv, NEW w \in Workers, PushHash(w) PROVE SrdInv'
<1>. DEFINE p == worker[w].path
            v == [pc |-> "info", path |-> p]
<1>1. /\ UNCHANGED <<srd_info, change, db, meta, folders, other, lock, main,
                     queue, check, report, setting, faults, alive>>
      /\ worker[w].pc = "push"
      /\ srd' = Put(srd, p, Has(srd, p) + 1)
      /\ worker' = [worker EXCEPT ![w].pc = "info"]
  BY DEF PushHash, disk, bounds
<1>2. /\ worker \in [Workers -> WorkerState] /\ worker[w] \in WorkerState
      /\ p \in Paths
  BY DEF SrdInv, ThreadsOK, WorkerState
<1>3. worker' = [worker EXCEPT ![w] = v] /\ v \in WorkerState
  BY <1>1, <1>2, WorkerMoves DEF WorkerState
<1>4. worker' \in [Workers -> WorkerState]
  BY <1>2, <1>3
<1>5. /\ IsMap(srd') /\ Has(srd', p) = Has(srd, p) + 1
      /\ DOMAIN srd \subseteq DOMAIN srd'
      /\ \A q : q # p => Has(srd', q) = Has(srd, q)
  <2>1. IsMap(srd) /\ Has(srd, p) + 1 \in Nat
    BY <1>2, Numbers DEF SrdInv, SpaceOK
  <2>. QED  BY <1>1, <1>2, <2>1, PutEffect
<1>6. worker[w].pc # "info"
  BY <1>1
<1>. HIDE DEF p
<1>7. ASSUME NEW q \in Paths PROVE Ahead(q)'
  <2>1. /\ Uncounted(q)' \in Nat
        /\ Uncounted(q)' = IF q = p THEN Uncounted(q) + 1 ELSE Uncounted(q)
    <3>1. worker[w] # [pc |-> "info", path |-> q]
      BY <1>6
    <3>2. v = [pc |-> "info", path |-> q] <=> q = p
      OBVIOUS
    <3>. HIDE DEF v
    <3>. QED  BY <1>3, <3>1, <3>2, WorkerChanges
  <2>2. Has(srd_info', q) = Has(srd_info, q)
        /\ Has(main'.del, q) = Has(main.del, q)
    BY <1>1
  <2>3. CASE q = p
    BY <1>5, <2>1, <2>2, <2>3, Numbers DEF Ahead
  <2>4. CASE q # p
    BY <1>5, <2>1, <2>2, <2>4, Numbers DEF Ahead
  <2>. QED  BY <2>3, <2>4
<1>8. SpaceOK'
  BY <1>1, <1>5 DEF SrdInv, SpaceOK
<1>9. ThreadsOK'
  BY <1>1, <1>4 DEF SrdInv, ThreadsOK
<1>10. GoodMain(main)'
  BY <1>1, <1>5 DEF SrdInv, GoodMain
<1>. QED  BY <1>7, <1>8, <1>9, <1>10 DEF SrdInv

LEMMA AddInfoKeeps ==
    ASSUME SrdInv, NEW w \in Workers, AddInfo(w) PROVE SrdInv'
<1>. DEFINE p == worker[w].path
<1>1. /\ UNCHANGED <<srd, change, db, meta, folders, other, lock, main, queue,
                     check, report, setting, faults, alive>>
      /\ worker[w].pc = "info"
      /\ srd_info' = SetSrdInfo(p, 1)
      /\ worker' = [worker EXCEPT ![w] = Idle]
  BY DEF AddInfo, disk, bounds
<1>2. /\ worker \in [Workers -> WorkerState] /\ p \in Paths
      /\ worker[w] = [pc |-> "info", path |-> p]
  BY <1>1 DEF SrdInv, ThreadsOK, WorkerState
<1>3. /\ IsMap(srd_info')
      /\ Has(srd_info', p) = AtLeast0(Has(srd_info, p) + 1)
      /\ \A q : q # p => Has(srd_info', q) = Has(srd_info, q)
  BY <1>1, <1>2, SetSrdInfoEffect
<1>4. worker' \in [Workers -> WorkerState]
  BY <1>1, <1>2, IdleState
<1>. HIDE DEF p
<1>5. ASSUME NEW q \in Paths PROVE Ahead(q)'
  <2>1. /\ Uncounted(q)' \in Nat
        /\ Uncounted(q)' = IF q = p THEN Uncounted(q) - 1 ELSE Uncounted(q)
    <3>1. worker[w] = [pc |-> "info", path |-> q] <=> q = p
      BY <1>2
    <3>2. Idle # [pc |-> "info", path |-> q]
      BY IdleState
    <3>. QED  BY <1>1, <3>1, <3>2, IdleState, WorkerChanges
  <2>2. Has(srd', q) = Has(srd, q) /\ Has(main'.del, q) = Has(main.del, q)
    BY <1>1
  <2>3. CASE q = p
    BY <1>3, <2>1, <2>2, <2>3, Numbers DEF Ahead, AtLeast0
  <2>4. CASE q # p
    BY <1>3, <2>1, <2>2, <2>4, Numbers DEF Ahead
  <2>. QED  BY <2>3, <2>4
<1>6. SpaceOK'
  BY <1>1, <1>3 DEF SrdInv, SpaceOK
<1>7. ThreadsOK'
  BY <1>1, <1>4 DEF SrdInv, ThreadsOK
<1>8. GoodMain(main)'
  BY <1>1 DEF SrdInv, GoodMain
<1>. QED  BY <1>5, <1>6, <1>7, <1>8 DEF SrdInv

(***************************************************************************)
(* The reserve thread gives space back; a worker starts again               *)
(***************************************************************************)

\* No entry leaves the info that stays in the map, and a folder that cannot be
\* deleted stays in the info.
LEMMA PopPathKeeps ==
    ASSUME SrdInv, NEW p \in Paths, PopPath(p) PROVE SrdInv'
<1>. DEFINE n == Lesser(check.plan[p], Has(srd, p))
            plan == [q \in DOMAIN check.plan \ {p} |-> check.plan[q]]
            d == (faults' - faults) - n
<1>1. /\ UNCHANGED <<change, db, meta, other, main, queue, worker, report,
                     setting, alive>>
      /\ p \in DOMAIN check.plan /\ lock' = "check"
      /\ srd' = Put(srd, p, Has(srd, p) - n)
      /\ DeleteFolders(p, n)
      /\ srd_info' = IF n = 0 THEN srd_info ELSE SetSrdInfo(p, d)
      /\ check' = [pc |-> "pop", plan |-> plan]
  BY DEF PopPath, PopEntries
<1>2. /\ n \in Int /\ n <= Has(srd, p) /\ Has(srd, p) \in Nat
      /\ faults \in Nat /\ IsMap(srd)
  <2>1. check.plan[p] \in Int /\ faults \in Nat /\ IsMap(srd)
    BY <1>1 DEF SrdInv, ThreadsOK, SpaceOK
  <2>. QED  BY <2>1, Numbers DEF Lesser
<1>. HIDE DEF n
<1>3. folders' \in [Paths -> Nat] /\ (faults' = faults \/ faults' = faults + 1)
  BY <1>1, <1>2, DeleteFoldersType
<1>4. d \in Int /\ d >= -n
  BY <1>2, <1>3
<1>. HIDE DEF d
<1>5. /\ IsMap(srd') /\ Has(srd', p) = Has(srd, p) - n
      /\ DOMAIN srd \subseteq DOMAIN srd'
      /\ \A q : q # p => Has(srd', q) = Has(srd, q)
  <2>1. Has(srd, p) - n \in Nat
    BY <1>2
  <2>. QED  BY <1>1, <1>2, <2>1, PutEffect
<1>6. /\ IsMap(srd_info')
      /\ Has(srd_info', p) >= Has(srd_info, p) - n /\ Has(srd_info', p) \in Nat
      /\ \A q : q # p => Has(srd_info', q) = Has(srd_info, q)
  <2>1. IsMap(srd_info) /\ Has(srd_info, p) \in Nat
    BY Numbers DEF SrdInv, SpaceOK
  <2>2. CASE n = 0
    BY <1>1, <2>1, <2>2
  <2>3. CASE n # 0
    <3>1. /\ IsMap(srd_info')
          /\ Has(srd_info', p) = AtLeast0(Has(srd_info, p) + d)
          /\ \A q : q # p => Has(srd_info', q) = Has(srd_info, q)
      BY <1>1, <1>4, <2>3, SetSrdInfoEffect
    <3>. QED  BY <1>2, <1>4, <2>1, <3>1 DEF AtLeast0
  <2>. QED  BY <2>2, <2>3
<1>7. ASSUME NEW q \in Paths PROVE Ahead(q)'
  <2>1. /\ Uncounted(q)' = Uncounted(q)
        /\ Has(main'.del, q) = Has(main.del, q)
    BY <1>1 DEF Uncounted
  <2>2. CASE q = p
    BY <1>2, <1>5, <1>6, <2>1, <2>2, Numbers DEF Ahead
  <2>3. CASE q # p
    BY <1>5, <1>6, <2>1, <2>3, Numbers DEF Ahead
  <2>. QED  BY <2>2, <2>3
<1>8. SpaceOK'
  BY <1>1, <1>3, <1>5, <1>6 DEF SrdInv, SpaceOK
<1>9. ThreadsOK'
  <2>1. /\ DOMAIN check.plan \subseteq Paths
        /\ \A q \in DOMAIN check.plan : check.plan[q] \in Int
    BY DEF SrdInv, ThreadsOK
  <2>2. /\ DOMAIN plan \subseteq Paths
        /\ \A q \in DOMAIN plan : plan[q] \in Int
    BY <2>1
  <2>. HIDE DEF plan
  <2>3. check' = [pc |-> check'.pc, plan |-> check'.plan] /\ check'.plan = plan
    BY <1>1
  <2>4. faults' \in Nat
    BY <1>2, <1>3
  <2>. QED  BY <1>1, <2>2, <2>3, <2>4 DEF SrdInv, ThreadsOK
<1>10. GoodMain(main)'
  BY <1>1, <1>5 DEF SrdInv, GoodMain
<1>. QED  BY <1>7, <1>8, <1>9, <1>10 DEF SrdInv

\* The info is built from the map that was restored.
LEMMA RestartKeeps == ASSUME SrdInv, Restart PROVE SrdInv'
<1>. DEFINE map == (CHOOSE t \in meta : TRUE).srd
            some == [p \in {q \in DOMAIN map : map[q] > 0} |-> map[p]]
            kept == IF meta = {} THEN NoCount ELSE some
<1>1. /\ srd' = kept /\ srd_info' = srd' /\ UNCHANGED <<meta, folders, other>>
      /\ change' = 0 \/ change' = Limited(InitCapacity, Total(srd'))
      /\ db' = db \/ db' = {srd_info'}
      /\ faults' = faults \/ faults' = faults + 1
      /\ lock' = "free" /\ report' = "no" /\ alive' = TRUE
      /\ main' = MainAt("validate") /\ queue' = NoQueue
      /\ worker' = [w \in Workers |-> Idle] /\ check' = Asleep
      /\ setting' = [x \in Procs |-> NotSetting]
  BY DEF Restart, RestoreSrd, disk
<1>3. IsMap(kept)
  <2>1. CASE meta = {}
    BY <2>1, NoCountIsMap
  <2>2. CASE meta # {}
    <3>1. IsMap(map)
      BY <2>2 DEF SrdInv, SpaceOK
    <3>. QED  BY <2>2, <3>1 DEF IsMap
  <2>. QED  BY <2>1, <2>2
<1>. HIDE DEF kept
<1>4. SpaceOK'
  BY <1>1, <1>3 DEF SrdInv, SpaceOK, NoQueue
<1>5. change' \in Int /\ faults' \in Nat
  <2>1. Total(srd') \in Int
    BY <1>1, <1>3, MapTotal
  <2>2. Limited(InitCapacity, Total(srd')) \in Int
    BY <2>1, LimitedType, SrdConstants
  <2>. QED  BY <1>1, <2>2 DEF SrdInv, ThreadsOK
<1>6. setting' \in [Procs -> SettingState]
  BY <1>1 DEF NotSetting, SettingState
<1>7. check' = [pc |-> check'.pc, plan |-> check'.plan] /\ check'.plan = NoCount
  BY <1>1 DEF Asleep
<1>8. ThreadsOK'
  BY <1>1, <1>5, <1>6, <1>7, IdleWorkers, NoCountIsMap DEF ThreadsOK
<1>9. GoodMain(main)' /\ main'.del = NoCount
  <2>1. GoodMain(main') /\ main'.del = NoCount /\ main'.sel = NoSel
    BY <1>1, MainAtGood DEF MainAt
  <2>. QED  BY <2>1 DEF GoodMain, NoSel
<1>10. ASSUME NEW p \in Paths PROVE Ahead(p)'
  <2>1. {w \in Workers : worker'[w] = [pc |-> "info", path |-> p]} = {}
    BY <1>1, IdleState
  <2>2. Uncounted(p)' = 0
    BY <2>1, FS_EmptySet DEF Uncounted
  <2>3. Has(main'.del, p) = 0 /\ Has(srd_info', p) = Has(srd', p)
        /\ Has(srd', p) \in Nat
    BY <1>1, <1>3, <1>9, NoCountIsMap, HasType
  <2>. QED  BY <2>2, <2>3 DEF Ahead
<1>. QED  BY <1>4, <1>8, <1>9, <1>10 DEF SrdInv

LEMMA SrdInductive == ASSUME SrdInv, [Next]_vars PROVE SrdInv'
<1>1. CASE UNCHANGED vars
  <2>1. UNCHANGED <<srd, srd_info, change, db, meta, folders, other, lock,
                    main, queue, worker, check, report, setting, faults,
                    alive>>
    BY <1>1 DEF vars
  <2>2. ThreadsOK' /\ other' \in [Paths -> Nat]
    BY <2>1 DEF SrdInv, ThreadsOK, SpaceOK
  <2>. QED  BY <2>1, <2>2, ThreadStep
<1>2. CASE MainLoop
  <2>1. CASE \E p \in Paths : DeletePath(p)
    BY <2>1, DeletePathKeeps
  <2>2. CASE \E e \in main.todo : ValidateEntry(e)
    BY <2>2, ValidateEntryKeeps
  <2>3. CASE SetChange("main")
    BY <2>3, SetChangeKeeps DEF Procs
  <2>. QED  BY <1>2, <2>1, <2>2, <2>3, ValidateSrdKeeps, ValidateYieldKeeps,
               PunishKeeps, EraseKeeps, DeletedKeeps, TakeChangeKeeps,
               GrowKeeps, PoolDoneKeeps, ShrinkKeeps, PersistInfoKeeps,
               StoreMetadataKeeps, StoreEndKeeps
            DEF MainLoop
<1>3. ASSUME NEW w \in Workers, Worker(w) PROVE SrdInv'
  <2>1. w \in Procs
    BY DEF Procs
  <2>. QED  BY <1>3, <2>1, StartSealKeeps, SealKeeps, PushHashKeeps,
               AddInfoKeeps, SetChangeKeeps DEF Worker
<1>4. ASSUME NEW c \in Clients, SetChange(c) PROVE SrdInv'
  BY <1>4, SetChangeKeeps DEF Procs
<1>5. CASE Reserve
  BY <1>5, ReservePlans, PopPathKeeps, ReserveDoneKeeps DEF Reserve
<1>6. CASE Running
  BY <1>2, <1>3, <1>4, <1>5, <1>6, ClientKeeps, ReportKeeps, EnvironmentKeeps,
     CrashKeeps
  DEF Running
<1>. QED  BY <1>1, <1>6, RestartKeeps DEF Next

\* A store leaves g_metadata_mutex locked, and a restart begins with a new one.
LEMMA StuckChanges ==
    ASSUME [Next]_vars PROVE stuck' \in {stuck, TRUE, FALSE}
<1>1. UNCHANGED vars => stuck' = stuck
  BY DEF vars
<1>2. \A x : SetChange(x) => stuck' = stuck
  BY DEF SetChange, GetChange, LimitChange, PutChange, bounds
<1>3. /\ ValidateSrd \/ ValidateYield \/ Punish \/ Erase \/ Deleted
             => stuck' = stuck
      /\ \A e : ValidateEntry(e) => stuck' = stuck
      /\ \A p : DeletePath(p) => stuck' = stuck
  BY DEF ValidateSrd, ValidateYield, Punish, Erase, Deleted, ValidateEntry,
         DeletePath, bounds
<1>4. TakeChange \/ Grow \/ PoolDone \/ Shrink \/ PersistInfo \/ StoreEnd
          => stuck' = stuck
  BY DEF TakeChange, Grow, PoolDone, Shrink, PersistInfo, StoreEnd, bounds
<1>5. StoreMetadata => stuck' \in {stuck, TRUE, FALSE}
  BY DEF StoreMetadata
<1>6. \A w : Worker(w) => stuck' = stuck
  BY <1>2 DEF Worker, StartSeal, Seal, PushHash, AddInfo, bounds
<1>7. Reserve \/ StartReport \/ Report => stuck' = stuck
  BY DEF Reserve, ReadInfo, EnterReserve, LockReserve, ReserveYield, PopPath,
         ReserveDone, Report, ReadSrd, EndReport, StartReport, bounds
<1>8. /\ \A c, n : ClientRequest(c, n) => stuck' = stuck
      /\ \A p : OtherGrows(p) => stuck' = stuck
      /\ \A u : SetUpgrade(u) => stuck' = stuck
      /\ Crash => stuck' = stuck
      /\ Restart => stuck' = FALSE
  BY DEF ClientRequest, OtherGrows, SetUpgrade, Crash, Restart, bounds
<1>. QED  BY <1>1, <1>2, <1>3, <1>4, <1>5, <1>6, <1>7, <1>8
          DEF Next, Running, MainLoop

(***************************************************************************)
(* Theorems                                                                 *)
(***************************************************************************)

\* The inductive invariant of the maps, the threads and what they are about to
\* do to the maps.
THEOREM SrdInvariant == Spec => []SrdInv
<1>1. Init => SrdInv
  BY SrdInit
<1>2. SrdInv /\ [Next]_vars => SrdInv'
  BY SrdInductive
<1>. QED  BY <1>1, <1>2, PTL DEF Spec

\* The maps, disks and queues stay what they are taken for: no count of the
\* code gets negative, although it subtracts from all of them.
THEOREM SrdTypes == Spec => []TypeOK
<1>1. SrdInv /\ stuck \in BOOLEAN => TypeOK
  BY DEF SrdInv, SpaceOK, ThreadsOK, IsMap, TypeOK
<1>2. Init => stuck \in BOOLEAN
  BY DEF Init
<1>3. ASSUME stuck \in BOOLEAN, [Next]_vars PROVE stuck' \in BOOLEAN
  <2>1. stuck' \in {stuck, TRUE, FALSE}
    BY <1>3, StuckChanges, Zenon
  <2>. QED  BY <1>3, <2>1
<1>4. stuck \in BOOLEAN /\ [Next]_vars => (stuck \in BOOLEAN)'
  BY <1>3
<1>5. Spec => [](stuck \in BOOLEAN)
  BY <1>2, <1>4, PTL DEF Spec
<1>. QED  BY <1>1, <1>5, SrdInvariant, PTL

\* set_srd_info never leaves the application with less assigned space than the
\* enclave has entries, but for the entries pool threads are about to add,
\* whatever pool threads, main loop, reserve thread, crashes and lost folders
\* do in between.
THEOREM InfoNeverShort == Spec => []InfoCoversSrd
<1>1. ASSUME SrdInv PROVE InfoCoversSrd
  <2>. SUFFICES ASSUME NEW p \in DOMAIN srd
                PROVE  Has(srd_info, p) + Uncounted(p) >= srd[p]
    BY DEF InfoCoversSrd
  <2>1. p \in Paths /\ srd[p] = Has(srd, p)
    BY <1>1 DEF SrdInv, SpaceOK, IsMap, Has
  <2>2. /\ Has(srd_info, p) \in Nat /\ Has(srd, p) \in Nat
        /\ Has(main.del, p) \in Nat /\ Uncounted(p) \in Nat
        /\ Has(srd_info, p) + Uncounted(p) >= Has(srd, p) + Has(main.del, p)
    BY <1>1, <2>1, Numbers
  <2>. QED  BY <2>1, <2>2
<1>. QED  BY <1>1, SrdInvariant, PTL

(***************************************************************************)
(* The rounds of srd_decrease                                               *)
(***************************************************************************)

Sizes(sel) == [p \in DOMAIN sel |-> Cardinality(sel[p])]
Finite(sel) == \A p \in DOMAIN sel : IsFiniteSet(sel[p])

LEMMA SizesCount ==
    ASSUME NEW sel, Finite(sel), IsFiniteSet(DOMAIN sel)
    PROVE  /\ IsCount(Sizes(sel)) /\ DOMAIN Sizes(sel) = DOMAIN sel
           /\ Count(sel) = Total(Sizes(sel)) /\ Count(sel) \in Nat
<1>1. DOMAIN Sizes(sel) = DOMAIN sel
  BY DEF Sizes
<1>2. \A p \in DOMAIN sel : Sizes(sel)[p] \in Nat
  BY FS_CardinalityType DEF Sizes, Finite
<1>3. IsCount(Sizes(sel))
  BY <1>1, <1>2 DEF IsCount
<1>4. Count(sel) = Total(Sizes(sel))
  BY DEF Count, Sizes
<1>. QED  BY <1>1, <1>3, <1>4, TotalFacts

\* A set of numbers of which one is least.
LEMMA MinIsLeast ==
    ASSUME NEW S, S \subseteq Nat, S # {}
    PROVE  Min(S) \in S /\ \A m \in S : Min(S) <= m
BY LeastNumber DEF Min

LEMMA MaxOfTwo ==
    ASSUME NEW a \in Int, NEW b \in Int
    PROVE  Max({a, b}) \in Int /\ Max({a, b}) >= a /\ Max({a, b}) >= b
<1>1. \E x \in {a, b} : \A y \in {a, b} : x >= y
  <2>1. CASE a >= b
    BY <2>1
  <2>2. CASE b >= a
    BY <2>2
  <2>. QED  BY <2>1, <2>2
<1>. QED  BY <1>1 DEF Max

\* What a round chooses on one path.
LEMMA RoundOnPath ==
    ASSUME IsMap(srd), NEW sel, Finite(sel), NEW p \in DOMAIN srd, NEW r \in Nat
    PROVE  /\ Cardinality(WithLast(sel, r + 1)[p])
                <= Cardinality(WithLast(sel, r)[p]) + 1
           /\ WithLast(sel, 0)[p] = (IF p \in DOMAIN sel THEN sel[p] ELSE {})
           /\ r >= srd[p] => srd[p] <= Cardinality(WithLast(sel, r)[p])
<1>. DEFINE old == IF p \in DOMAIN sel THEN sel[p] ELSE {}
            last(k) == {i \in 0..(srd[p] - 1) : i >= srd[p] - k}
<1>1. \A k : WithLast(sel, k)[p] = old \cup last(k)
  BY DEF WithLast
<1>2. ASSUME NEW k
      PROVE  /\ IsFiniteSet(old \cup last(k))
             /\ Cardinality(old \cup last(k)) \in Nat
  <2>1. IsFiniteSet(WithLast(sel, k)[p])
    BY WithLastFinite DEF Finite
  <2>2. WithLast(sel, k)[p] = old \cup last(k)
    BY <1>1
  <2>. HIDE DEF old, last
  <2>3. IsFiniteSet(old \cup last(k))
    BY <2>1, <2>2
  <2>. QED  BY <2>3, FS_CardinalityType
<1>3. srd[p] \in Nat
  BY DEF IsMap
<1>4. Cardinality(old \cup last(r + 1)) <= Cardinality(old \cup last(r)) + 1
  <2>. DEFINE x == srd[p] - (r + 1)
              A == old \cup last(r)
              B == old \cup last(r + 1)
  <2>1. B \subseteq A \cup {x}
    <3>1. ASSUME NEW i \in last(r + 1), i # x PROVE i \in last(r)
      BY <1>3, <3>1
    <3>. QED  BY <3>1
  <2>2. IsFiniteSet(A) /\ Cardinality(A) \in Nat /\ Cardinality(B) \in Nat
    BY <1>2
  <2>. HIDE DEF A, B, x
  <2>3. /\ IsFiniteSet(A \cup {x})
        /\ Cardinality(A \cup {x}) \in {Cardinality(A), Cardinality(A) + 1}
    BY <2>2, FS_AddElement
  <2>4. Cardinality(B) <= Cardinality(A \cup {x})
    BY <2>1, <2>3, FS_Subset
  <2>5. Cardinality(B) <= Cardinality(A) + 1
    BY <2>2, <2>3, <2>4
  <2>. QED  BY <2>5 DEF A, B
<1>5. last(0) = {}
  BY <1>3
<1>6. ASSUME r >= srd[p] PROVE srd[p] <= Cardinality(old \cup last(r))
  <2>1. last(r) = 0..(srd[p] - 1)
    BY <1>3, <1>6
  <2>2. Cardinality(0..(srd[p] - 1)) = srd[p]
    <3>1. 0 \in Int /\ srd[p] - 1 \in Int
      BY <1>3
    <3>2. Cardinality(0..(srd[p] - 1))
            = IF 0 > srd[p] - 1 THEN 0 ELSE (srd[p] - 1) - 0 + 1
      BY <3>1, FS_Interval
    <3>. QED  BY <1>3, <3>2
  <2>3. Cardinality(last(r)) <= Cardinality(old \cup last(r))
    BY <1>2, FS_Subset
  <2>. QED  BY <2>1, <2>2, <2>3
<1>. QED  BY <1>1, <1>4, <1>5, <1>6

\* What the rounds choose in all: each adds at most one entry per path, none
\* are the entries chosen before, and enough of them are all entries.
LEMMA Rounds ==
    ASSUME IsMap(srd), NEW sel, Finite(sel), DOMAIN sel \subseteq DOMAIN srd
    PROVE  /\ \A r \in Nat : Count(WithLast(sel, r)) \in Nat
           /\ \A r \in Nat : Count(WithLast(sel, r + 1))
                  <= Count(WithLast(sel, r)) + Cardinality(DOMAIN srd)
           /\ Count(WithLast(sel, 0)) = Count(sel) /\ Count(sel) \in Nat
           /\ Total(srd) <= Count(WithLast(sel, Total(srd)))
<1>. DEFINE D == DOMAIN srd
            f(r) == Sizes(WithLast(sel, r))
<1>1. IsFiniteSet(D) /\ IsFiniteSet(DOMAIN sel)
  BY MapCounts, FS_Subset DEF IsCount
<1>2. ASSUME NEW r
      PROVE  /\ IsCount(f(r)) /\ DOMAIN f(r) = D
             /\ Count(WithLast(sel, r)) = Total(f(r))
             /\ Count(WithLast(sel, r)) \in Nat
             /\ \A p \in D : f(r)[p] = Cardinality(WithLast(sel, r)[p])
  <2>1. DOMAIN WithLast(sel, r) = D /\ Finite(WithLast(sel, r))
    BY WithLastFinite DEF Finite
  <2>2. \A p \in D : f(r)[p] = Cardinality(WithLast(sel, r)[p])
    BY <2>1 DEF Sizes
  <2>. QED  BY <1>1, <2>1, <2>2, SizesCount
<1>. HIDE DEF f
<1>3. ASSUME NEW r \in Nat
      PROVE  Count(WithLast(sel, r + 1))
               <= Count(WithLast(sel, r)) + Cardinality(D)
  <2>1. \A p \in D : f(r + 1)[p] <= f(r)[p] + 1
    BY <1>2, RoundOnPath
  <2>2. Total(f(r + 1)) <= Total(f(r)) + Steps(1, Cardinality(D))
    BY <1>2, <2>1, TotalGrows
  <2>. QED  BY <1>2, <2>2 DEF Steps
<1>4. Count(WithLast(sel, 0)) = Count(sel) /\ Count(sel) \in Nat
  <2>1. /\ IsCount(Sizes(sel)) /\ DOMAIN Sizes(sel) = DOMAIN sel
        /\ Count(sel) = Total(Sizes(sel)) /\ Count(sel) \in Nat
    BY <1>1, SizesCount
  <2>2. ASSUME NEW p \in D PROVE f(0)[p] = Has(Sizes(sel), p)
    <3>1. f(0)[p] = Cardinality(IF p \in DOMAIN sel THEN sel[p] ELSE {})
      BY <1>2, RoundOnPath
    <3>2. CASE p \in DOMAIN sel
      BY <2>1, <3>1, <3>2 DEF Has, Sizes
    <3>3. CASE p \notin DOMAIN sel
      BY <2>1, <3>1, <3>3, FS_EmptySet DEF Has
    <3>. QED  BY <3>2, <3>3
  <2>3. Total(f(0)) = Total(Sizes(sel))
    BY <1>2, <2>1, <2>2, TotalExtended
  <2>. QED  BY <1>2, <2>1, <2>3
<1>5. Total(srd) <= Count(WithLast(sel, Total(srd)))
  <2>. DEFINE n == Total(srd)
  <2>1. IsCount(srd) /\ n \in Nat /\ \A p \in D : srd[p] <= n
    BY MapCounts, TotalFacts
  <2>. HIDE DEF n
  <2>2. ASSUME NEW p \in D PROVE srd[p] <= f(n)[p] + 0
    <3>1. srd[p] <= Cardinality(WithLast(sel, n)[p])
      BY <2>1, RoundOnPath DEF IsMap
    <3>2. f(n)[p] = Cardinality(WithLast(sel, n)[p]) /\ f(n)[p] \in Nat
      BY <1>2 DEF IsCount
    <3>. QED  BY <3>1, <3>2 DEF IsMap
  <2>3. Total(srd) <= Total(f(n)) + Steps(0, Cardinality(D))
    BY <1>2, <2>1, <2>2, TotalGrows
  <2>4. Total(f(n)) = Count(WithLast(sel, n)) /\ Total(f(n)) \in Nat
    BY <1>2
  <2>5. Total(srd) <= Count(WithLast(sel, n))
    BY <2>3, <2>4 DEF Steps
  <2>. QED  BY <2>5 DEF n
<1>. QED  BY <1>2, <1>3, <1>4, <1>5

LEMMA ChosenTight ==
    ASSUME IsMap(srd), NEW sel, Finite(sel), DOMAIN sel \subseteq DOMAIN srd,
           NEW num \in Nat, num <= Total(srd), num # 0
    PROVE  LET n == Count(Chosen(sel, num))
           IN /\ n \in Nat /\ n >= num
              /\ \/ n < num + Cardinality(DOMAIN srd)
                 \/ n < Count(sel) + Cardinality(DOMAIN srd)
<1>. DEFINE f(r) == Count(WithLast(sel, r))
            rounds == {r \in 0..Total(srd) : f(r) >= num}
            k == Min(rounds)
<1>1. /\ Total(srd) \in Nat /\ IsCount(srd)
      /\ DOMAIN srd = {} => Total(srd) = 0
  BY MapCounts, TotalFacts
<1>2. /\ \A r \in Nat : f(r) \in Nat
      /\ \A r \in Nat : f(r + 1) <= f(r) + Cardinality(DOMAIN srd)
      /\ f(0) = Count(sel) /\ Count(sel) \in Nat
      /\ Total(srd) <= f(Total(srd))
  BY Rounds
<1>3. Chosen(sel, num) = WithLast(sel, k)
  BY DEF Chosen
<1>. HIDE DEF f
<1>4. Total(srd) \in rounds
  <2>. DEFINE t == Total(srd)
  <2>1. t \in Nat /\ num <= t /\ t <= f(t)
    BY <1>1, <1>2
  <2>. HIDE DEF t
  <2>2. f(t) \in Nat
    BY <1>2, <2>1
  <2>3. f(t) >= num /\ t \in 0..t
    BY <2>1, <2>2
  <2>. QED  BY <2>3 DEF t
<1>5. rounds \subseteq Nat /\ rounds # {}
  BY <1>4
<1>6. k \in rounds /\ \A r \in rounds : k <= r
  BY <1>5, MinIsLeast
<1>7. k \in Nat /\ k <= Total(srd) /\ f(k) >= num
  BY <1>1, <1>6
<1>8. Cardinality(DOMAIN srd) \in Nat /\ Cardinality(DOMAIN srd) > 0
  <2>1. DOMAIN srd # {} /\ IsFiniteSet(DOMAIN srd)
    BY <1>1 DEF IsCount
  <2>. QED  BY <2>1, FS_CardinalityType, FS_EmptySet
<1>9. \/ f(k) < num + Cardinality(DOMAIN srd)
      \/ f(k) < Count(sel) + Cardinality(DOMAIN srd)
  <2>1. CASE k = 0
    BY <1>2, <1>8, <2>1
  <2>2. CASE k # 0
    <3>1. k - 1 \in Nat /\ k - 1 \in 0..Total(srd) /\ (k - 1) + 1 = k
      BY <1>1, <1>7, <2>2
    <3>2. k - 1 \notin rounds
      <4>. HIDE DEF rounds, k
      <4>. QED  BY <1>6, <1>7
    <3>3. f(k - 1) < num /\ f(k - 1) \in Nat
      <4>. HIDE DEF k
      <4>. QED  BY <1>2, <3>1, <3>2
    <3>4. f(k) <= f(k - 1) + Cardinality(DOMAIN srd)
      <4>. HIDE DEF k
      <4>. QED  BY <1>2, <3>1
    <3>. QED  BY <1>2, <1>7, <1>8, <3>3, <3>4
  <2>. QED  BY <2>1, <2>2
<1>10. f(k) \in Nat
  BY <1>2, <1>7
<1>. HIDE DEF k
<1>. QED  BY <1>3, <1>7, <1>9, <1>10 DEF f

\* What a decrease by n leaves the main loop with, when it deletes anything.
LEMMA DecreaseChooses ==
    ASSUME SrdInv, NEW sel, Finite(sel), DOMAIN sel \subseteq DOMAIN srd,
           NEW n \in Nat, NEW next, next # "erase", Decrease(sel, n, next),
           main'.pc = "erase"
    PROVE  LET m == Count(main'.sel) num == Lesser(n, Total(srd))
           IN /\ m \in Nat /\ num \in Nat /\ m >= num
              /\ \/ m < num + Cardinality(DOMAIN srd)
                 \/ m < Count(sel) + Cardinality(DOMAIN srd)
<1>. DEFINE num == Lesser(n, Total(srd))
<1>1. IsMap(srd) /\ Total(srd) \in Nat
  BY MapTotal DEF SrdInv, SpaceOK
<1>2. num \in Nat /\ num <= Total(srd)
  BY <1>1 DEF Lesser
<1>3. main' # MainAt(next)
  BY DEF MainAt
<1>4. num # 0 /\ main' = [MainAt("erase") EXCEPT !.sel = Chosen(sel, num)]
  BY <1>3 DEF Decrease
<1>. HIDE DEF num
<1>5. main'.sel = Chosen(sel, num)
  BY <1>4 DEF MainAt
<1>6. LET m == Count(Chosen(sel, num))
      IN /\ m \in Nat /\ m >= num
         /\ \/ m < num + Cardinality(DOMAIN srd)
            \/ m < Count(sel) + Cardinality(DOMAIN srd)
  BY <1>1, <1>2, <1>4, ChosenTight
<1>. QED  BY <1>2, <1>5, <1>6 DEF num

\* Of the steps only two lead from choosing to erasing.
LEMMA WhoErases ==
    ASSUME [Next]_vars, main.pc \in {"check", "shrink"}, main'.pc = "erase",
           SrdInv
    PROVE  Punish \/ Shrink
<1>1. main' # main
  OBVIOUS
<1>2. ~ UNCHANGED vars
  BY <1>1 DEF vars
<1>3. ~ Restart
  BY DEF Restart, MainAt
<1>4. ASSUME NEW x PROVE ~ SetChange(x)
  BY <1>1 DEF SetChange, GetChange, LimitChange, PutChange
<1>5. ~ Reserve /\ ~ Report /\ ~ StartReport
  BY <1>1 DEF Reserve, ReadInfo, EnterReserve, LockReserve, ReserveYield,
              PopPath, ReserveDone, Report, ReadSrd, EndReport, StartReport
<1>6. ASSUME NEW w PROVE ~ Worker(w)
  BY <1>1, <1>4 DEF Worker, StartSeal, Seal, PushHash, AddInfo
<1>7. /\ \A c, n : ~ ClientRequest(c, n)
      /\ \A p : ~ OtherGrows(p)
      /\ \A u : ~ SetUpgrade(u)
      /\ ~ Crash
  BY <1>1 DEF ClientRequest, OtherGrows, SetUpgrade, Crash, threads
<1>8. MainLoop
  BY <1>2, <1>3, <1>4, <1>5, <1>6, <1>7 DEF Next, Running
<1>9. ~ ValidateYield
  BY DEF ValidateYield, SrdInv, GoodMain
<1>10. ASSUME NEW e PROVE ~ ValidateEntry(e)
  BY DEF ValidateEntry, SrdInv, GoodMain
<1>11. ~ Deleted /\ ~ Erase /\ ~ ValidateSrd /\ ~ TakeChange /\ ~ Grow
       /\ ~ PoolDone /\ ~ PersistInfo /\ ~ StoreMetadata
       /\ ~ StoreEnd
  BY DEF Deleted, Erase, ValidateSrd, TakeChange, Grow, PoolDone, PersistInfo,
         StoreMetadata, StoreEnd
<1>12. ASSUME NEW p PROVE ~ DeletePath(p)
  BY DEF DeletePath
<1>. QED  BY <1>4, <1>8, <1>9, <1>10, <1>11, <1>12 DEF MainLoop

LEMMA AskedOfChange ==
    ASSUME SrdInv, main.pc = "shrink"
    PROVE  /\ Assigned(-main.num) \in Nat /\ -main.num \in Nat
           /\ Assigned(-main.num) <= -main.num
<1>1. main.num \in Int /\ main.num < 0
  BY DEF SrdInv, GoodMain
<1>2. Total(Read(db)) \in Nat
  BY ReadIsMap, MapTotal DEF SrdInv, SpaceOK
<1>. QED  BY <1>1, <1>2 DEF Assigned, Lesser

\* srd_decrease deletes at least what a punishment demands, and less than one G
\* per path more than what it was asked for or was given to begin with.
THEOREM DecreaseTight == Spec => DecreaseIsTight
<1>. DEFINE Tight ==
         main.pc \in {"check", "shrink"} /\ main'.pc = "erase" =>
           LET n == Count(main'.sel)
           IN /\ n < Max({Asked, Count(main.sel)}) + Cardinality(DOMAIN srd)
              /\ main.pc = "check" => n >= Asked
<1>1. ASSUME SrdInv, [Next]_vars PROVE Tight
  <2>. SUFFICES ASSUME main.pc \in {"check", "shrink"}, main'.pc = "erase"
                PROVE  LET n == Count(main'.sel)
                       IN /\ n < Max({Asked, Count(main.sel)})
                                   + Cardinality(DOMAIN srd)
                          /\ main.pc = "check" => n >= Asked
    OBVIOUS
  <2>. DEFINE d == Cardinality(DOMAIN srd)
              n == Count(main'.sel)
  <2>1. IsMap(srd) /\ Total(srd) \in Nat /\ d \in Nat
    BY <1>1, MapTotal, MapCounts, FS_CardinalityType DEF SrdInv, SpaceOK, IsCount
  <2>2. /\ Finite(main.sel) /\ DOMAIN main.sel \subseteq DOMAIN srd
        /\ Count(main.sel) \in Nat
    <3>1. Finite(main.sel) /\ DOMAIN main.sel \subseteq DOMAIN srd
      BY <1>1 DEF SrdInv, GoodMain, Finite
    <3>2. IsFiniteSet(DOMAIN main.sel)
      BY <2>1, <3>1, MapCounts, FS_Subset DEF IsCount
    <3>. QED  BY <3>1, <3>2, SizesCount
  <2>3. CASE Punish
    <3>. DEFINE a == SRD_PUNISH_FACTOR * Count(main.sel)
    <3>1. a \in Nat
      BY <2>2, SrdConstants
    <3>2. main.pc = "check" /\ Decrease(main.sel, a, "take")
      BY <2>3 DEF Punish
    <3>3. Asked = Lesser(a, Total(srd))
      BY <3>2 DEF Asked
    <3>. HIDE DEF a, d, n
    <3>4. /\ n \in Nat /\ Asked \in Nat /\ n >= Asked
          /\ n < Asked + d \/ n < Count(main.sel) + d
      BY <1>1, <2>2, <3>1, <3>2, <3>3, DecreaseChooses DEF n, d
    <3>5. LET m == Max({Asked, Count(main.sel)})
          IN m \in Int /\ m >= Asked /\ m >= Count(main.sel)
      <4>1. Asked \in Int /\ Count(main.sel) \in Int
        BY <2>2, <3>4
      <4>. QED  BY <4>1, MaxOfTwo
    <3>6. n < Max({Asked, Count(main.sel)}) + d
      BY <2>1, <2>2, <3>4, <3>5
    <3>. QED  BY <3>4, <3>6 DEF n, d
  <2>4. CASE Shrink
    <3>. DEFINE a == Assigned(-main.num)
    <3>1. main.pc = "shrink" /\ main' # MainAt("persist")
      BY <2>4 DEF Shrink, MainAt
    <3>2. Decrease(NoSel, a, "persist")
      BY <2>4, <3>1 DEF Shrink
    <3>3. a \in Nat /\ -main.num \in Nat /\ a <= -main.num
      BY <1>1, <3>1, AskedOfChange
    <3>4. Asked = Lesser(-main.num, Total(srd))
      BY <3>1 DEF Asked
    <3>. HIDE DEF a, d, n
    <3>5. Asked \in Nat /\ Lesser(a, Total(srd)) <= Asked
      BY <2>1, <3>3, <3>4 DEF Lesser
    <3>6. Finite(NoSel) /\ DOMAIN NoSel = {} /\ IsFiniteSet(DOMAIN NoSel)
      BY FS_EmptySet DEF NoSel, Finite
    <3>7. Count(NoSel) = 0
      BY <3>6, SizesCount, TotalFacts
    <3>8. /\ n \in Nat /\ Lesser(a, Total(srd)) \in Nat
          /\ n < Lesser(a, Total(srd)) + d \/ n < Count(NoSel) + d
      BY <1>1, <3>2, <3>3, <3>6, DecreaseChooses DEF n, d
    <3>9. LET m == Max({Asked, Count(main.sel)})
          IN m \in Int /\ m >= Asked /\ m >= Count(main.sel)
      <4>1. Asked \in Int /\ Count(main.sel) \in Int
        BY <2>2, <3>5
      <4>. QED  BY <4>1, MaxOfTwo
    <3>10. n < Max({Asked, Count(main.sel)}) + d
      BY <2>1, <2>2, <3>5, <3>7, <3>8, <3>9
    <3>. QED  BY <3>1, <3>10 DEF n, d
  <2>. QED  BY <1>1, <2>3, <2>4, WhoErases
<1>. QED  BY <1>1, SrdInvariant, PTL DEF DecreaseIsTight, Spec
=============================================================================
