------------------------- MODULE PlatformCountProofs ------------------------
(***************************************************************************)
(* What the platform counts, for any number of handlers, resources,        *)
(* versions, faults and restarts, in both repositories: names are unique   *)
(* up to concurrency, the online store has what was reported, and sessions *)
(* count their traces.                                                     *)
(***************************************************************************)
EXTENDS PlatformProofs, FiniteSetTheorems

-----------------------------------------------------------------------------
(* Names and versions *)

\* A finite set of numbers that is not empty has a greatest one: a search by name
\* finds the newest resource.
LEMMA HasGreatest ==
  ASSUME NEW S \in SUBSET Nat, IsFiniteSet(S), S # {}
  PROVE  \E m \in S : \A x \in S : x <= m
<1> DEFINE Bad == {T \in SUBSET S : T # {} /\ ~\E m \in T : \A x \in T : x <= m}
<1> SUFFICES ASSUME S \in Bad PROVE FALSE
  BY Zenon
<1>1. Bad \subseteq FiniteSubsetsOf(S)
  BY FS_Subset, Zenon DEF FiniteSubsetsOf
<1>2. PICK T \in Bad : \A U \in Bad : ~(<<U, T>> \in StrictSubsetOrdering(S))
  <2> HIDE DEF Bad
  <2> QED BY <1>1, FS_StrictSubsetOrderingWellFounded, WFMin, Zenon
<1>3. PICK x \in T : TRUE
  BY Zenon
<1> DEFINE U == T \ {x}
<1>4. U \in SUBSET S /\ <<U, T>> \in StrictSubsetOrdering(S)
  BY <1>3, Zenon DEF StrictSubsetOrdering
<1>5. U \notin Bad
  <2> HIDE DEF Bad, U
  <2> QED BY <1>2, <1>4, Zenon
<1>6. CASE U = {}
  <2>1. T = {x}
    BY <1>3, <1>6, Zenon
  <2> QED BY <2>1
<1>7. CASE U # {}
  <2>1. PICK m \in U : \A y \in U : y <= m
    BY <1>4, <1>5, <1>7, Zenon
  <2>2. m \in Nat /\ x \in Nat /\ m \in T /\ T \subseteq Nat
    BY Zenon
  <2>3. \E k \in T : \A y \in T : y <= k
    <3>1. CASE x <= m
      BY <2>1, <2>2, <3>1, Zenon
    <3>2. CASE m <= x
      BY <2>1, <2>2, <3>2
    <3> QED BY <2>2, <3>1, <3>2
  <2> QED BY <2>3, Zenon
<1> QED BY <1>6, <1>7, Zenon

HasKey(r, k, n, v) == r # Absent /\ r.kind = k /\ r.name = n /\ r.version = v

\* The resources of a key, and the requests about to add one.
There(t, k, n, v) == {i \in Ids : HasKey(t[i], k, n, v)}
Coming(js, t, k, n, v) ==
  {h \in Handlers : Named(js[h], {"Write"}) /\ t[js[h].id] = Absent /\ HasKey(js[h].value, k, n, v)}

OneEach(t) ==
  \A k \in Unique : \A n, v : \A i, j \in Ids : HasKey(t[i], k, n, v) /\ HasKey(t[j], k, n, v) => i = j

\* The resources of a key that are there and those that are coming are no more
\* than the handlers.
Few(js, t, k, n, v) ==
  /\ IsFiniteSet(There(t, k, n, v))
  /\ Cardinality(There(t, k, n, v)) + Cardinality(Coming(js, t, k, n, v)) <= Cardinality(Handlers)

\* In the file store there is one resource of a key.
CopiesInv ==
  /\ repository = "file" => OneEach(rows) /\ OneEach(disk.rows)
  /\ repository = "postgres" => \A k \in Unique : \A n, v : Few(job, rows, k, n, v)

\* Names and versions, for both repositories.
THEOREM CopiesInvariant == Spec => []CopiesInv
\* A new resource has a new key, as far as the tables tell.
<1>NoneThere.
  ASSUME IInv, NEW h, NEW n, NEW i \in Ids, NEW value, NEW step, Saved(h, n, i, value, step), rows[i] = Absent,
         value.kind \in Unique, IsFiniteSet(There(rows, value.kind, n, value.version))
  PROVE  There(rows, value.kind, n, value.version) = {}
  <2> USE <1>NoneThere
  <2> DEFINE S == There(rows, value.kind, n, value.version)
  <2> SUFFICES ASSUME S # {} PROVE FALSE
    BY Zenon
  <2>1. value.name = n /\ (~Conflicts(value) \/ (IsView(value) /\ ~\E j \in Ids : Newest(n, j)))
    BY Zenon DEF Saved
  <2>2. Conflicts(value)
    BY <2>1, Zenon DEF Conflicts, There, HasKey, HasKind
  <2>3. S \in SUBSET Nat
    BY PlatformAssumption, Zenon DEF There
  <2>4. PICK m \in S : \A x \in S : x <= m
    <3> HIDE DEF S
    <3> QED BY <2>3, HasGreatest, Zenon DEF S
  <2>5. IsView(value)
    BY <2>1, <2>2, Zenon
  <2>6. \A j \in Ids : HasKind(j, "feature_view") /\ rows[j].name = n => j \in S
    <3> SUFFICES ASSUME NEW j \in Ids, HasKind(j, "feature_view"), rows[j].name = n PROVE j \in S
      BY Zenon
    <3>1. rows[j].version = ""
      BY RowOfKind, Zenon DEF HasKind, ViewRow
    <3> QED BY <2>5, <3>1, Zenon DEF There, HasKey, HasKind, IsView
  <2>7. m \in Ids /\ HasKind(m, "feature_view") /\ rows[m].name = n
    BY <2>4, <2>5, Zenon DEF There, HasKey, HasKind, IsView
  <2>8. Newest(n, m)
    BY <2>4, <2>6, <2>7, Zenon DEF Newest
  <2> QED BY <2>1, <2>2, <2>7, <2>8, Zenon
\* The file store adds a resource of a new key.
<1>FileCopies.
  ASSUME IInv, NEW h \in Handlers, NEW n, NEW i, NEW value, NEW step, Saves(h, n, i, value, step),
         OneEach(rows), repository = "file"
  PROVE  OneEach(rows')
  <2> USE <1>FileCopies
  <2>1. /\ i \in Ids /\ value \in Row /\ value # Absent /\ value.name = n
        /\ rows[i] # Absent => Same(rows[i], value)
        /\ rows'[i] = value /\ (\A k \in Ids \ {i} : rows'[k] = rows[k])
    BY SaveRows
  <2>2. ASSUME NEW b \in Ids \ {i}, NEW k \in Unique, NEW v, HasKey(value, k, n, v), HasKey(rows[b], k, n, v)
        PROVE  FALSE
    <3>1. CASE rows[i] # Absent
      <4>1. HasKey(rows[i], k, n, v)
        BY <2>1, <2>2, <3>1, Zenon DEF HasKey, Same
      <4> QED BY <2>1, <2>2, <4>1, Zenon DEF OneEach
    <3>2. CASE rows[i] = Absent
      <4>1. value.kind = k /\ value.version = v
        BY <2>2, Zenon DEF HasKey
      <4>2. There(rows, k, n, v) \subseteq {b} /\ b \in There(rows, k, n, v)
        BY <2>2, Zenon DEF OneEach, There
      <4>3. IsFiniteSet(There(rows, k, n, v))
        BY <4>2, FS_Singleton, FS_Subset, Zenon
      <4>4. Saved(h, n, i, value, step)
        BY Zenon DEF Saves
      <4> QED BY <2>1, <3>2, <4>1, <4>2, <4>3, <4>4, <1>NoneThere, Zenon
    <3> QED BY <3>1, <3>2, Zenon
  <2>3. ASSUME NEW k \in Unique, NEW m, NEW v, NEW a \in Ids, NEW b \in Ids,
               HasKey(rows'[a], k, m, v), HasKey(rows'[b], k, m, v)
        PROVE  a = b
    <3>1. CASE a # i /\ b # i
      BY <2>1, <2>3, <3>1, Zenon DEF OneEach
    <3>2. CASE a = i /\ b # i
      <4>1. m = n
        BY <2>1, <2>3, <3>2, Zenon DEF HasKey
      <4> QED BY <2>1, <2>2, <2>3, <3>2, <4>1, Zenon
    <3>3. CASE a # i /\ b = i
      <4>1. m = n
        BY <2>1, <2>3, <3>3, Zenon DEF HasKey
      <4> QED BY <2>1, <2>2, <2>3, <3>3, <4>1, Zenon
    <3> QED BY <3>1, <3>2, <3>3, Zenon
  <2> QED BY <2>3, Zenon DEF OneEach
\* Fewer requests are about to add a resource.
<1>FewerComing.
  ASSUME NEW js, NEW t, NEW ks, NEW u, NEW k, NEW n, NEW v, Few(js, t, k, n, v),
         There(u, k, n, v) = There(t, k, n, v), Coming(ks, u, k, n, v) \subseteq Coming(js, t, k, n, v)
  PROVE  Few(ks, u, k, n, v)
  <2> USE <1>FewerComing
  <2>1. IsFiniteSet(Coming(js, t, k, n, v))
    BY PlatformAssumption, FS_Subset, Zenon DEF Coming
  <2>2. /\ Cardinality(Coming(ks, u, k, n, v)) <= Cardinality(Coming(js, t, k, n, v))
        /\ IsFiniteSet(Coming(ks, u, k, n, v))
    BY <2>1, FS_Subset, Zenon
  <2>3. /\ Cardinality(Coming(js, t, k, n, v)) \in Nat /\ Cardinality(Coming(ks, u, k, n, v)) \in Nat
        /\ Cardinality(There(t, k, n, v)) \in Nat /\ Cardinality(Handlers) \in Nat
    BY <2>1, <2>2, PlatformAssumption, FS_CardinalityType, Zenon DEF Few
  <2> QED BY <2>2, <2>3 DEF Few
\* A request is about to add a resource, of which there was none.
<1>FirstComing.
  ASSUME NEW js, NEW t, NEW k, NEW n, NEW v, There(t, k, n, v) = {}
  PROVE  Few(js, t, k, n, v)
  <2> USE <1>FirstComing
  <2>1. Coming(js, t, k, n, v) \in SUBSET Handlers
    BY Zenon DEF Coming
  <2>2. /\ IsFiniteSet(Coming(js, t, k, n, v))
        /\ Cardinality(Coming(js, t, k, n, v)) <= Cardinality(Handlers)
    BY <2>1, PlatformAssumption, FS_Subset, Zenon
  <2>3. Cardinality(Coming(js, t, k, n, v)) \in Nat /\ Cardinality(Handlers) \in Nat
    BY <2>2, PlatformAssumption, FS_CardinalityType, Zenon
  <2> QED BY <2>2, <2>3, FS_EmptySet DEF Few
\* One that was coming is there.
<1>OneArrives.
  ASSUME NEW js, NEW t, NEW ks, NEW u, NEW k, NEW n, NEW v, Few(js, t, k, n, v),
         NEW i, i \notin There(t, k, n, v), There(u, k, n, v) = There(t, k, n, v) \cup {i},
         NEW h, h \in Coming(js, t, k, n, v), Coming(ks, u, k, n, v) \subseteq Coming(js, t, k, n, v) \ {h}
  PROVE  Few(ks, u, k, n, v)
  <2> USE <1>OneArrives
  <2>1. IsFiniteSet(Coming(js, t, k, n, v))
    BY PlatformAssumption, FS_Subset, Zenon DEF Coming
  <2>2. /\ IsFiniteSet(Coming(js, t, k, n, v) \ {h})
        /\ Cardinality(Coming(js, t, k, n, v) \ {h}) = Cardinality(Coming(js, t, k, n, v)) - 1
    BY <2>1, FS_RemoveElement, Zenon
  <2>3. /\ Cardinality(Coming(ks, u, k, n, v)) <= Cardinality(Coming(js, t, k, n, v) \ {h})
        /\ IsFiniteSet(Coming(ks, u, k, n, v))
    BY <2>2, FS_Subset, Zenon
  <2>4. /\ IsFiniteSet(There(u, k, n, v))
        /\ Cardinality(There(u, k, n, v)) = Cardinality(There(t, k, n, v)) + 1
    BY FS_AddElement, Zenon DEF Few
  <2>5. /\ Cardinality(Coming(js, t, k, n, v)) \in Nat /\ Cardinality(Coming(ks, u, k, n, v)) \in Nat
        /\ Cardinality(There(t, k, n, v)) \in Nat /\ Cardinality(Handlers) \in Nat
    BY <2>1, <2>3, PlatformAssumption, FS_CardinalityType, Zenon DEF Few
  <2> QED BY <2>2, <2>3, <2>4, <2>5 DEF Few
\* A method of PostgreSQL has seen no resource of the key it adds to.
<1>SaveCopies.
  ASSUME IInv, CopiesInv, NEW h \in Handlers, NEW n, NEW i, NEW value, NEW step, Saves(h, n, i, value, step)
  PROVE  CopiesInv'
  <2> USE <1>SaveCopies
  <2>1. CASE repository = "file"
    <3>1. OneEach(rows') /\ repository' = "file"
      BY <2>1, <1>FileCopies, SaveRows, Zenon DEF CopiesInv
    <3>2. OneEach(disk'.rows)
      BY <2>1, <3>1, SaveRows, Zenon DEF CopiesInv
    <3> QED BY <3>1, <3>2, Zenon DEF CopiesInv
  <2>2. CASE repository = "postgres"
    <3>1. rows' = rows /\ repository' = "postgres" /\ i \in Ids /\ value.name = n
      BY <2>2, SaveRows
    <3>2. PICK j : j = [at |-> "Write", name |-> n, id |-> i, value |-> value, then |-> step]
      BY Zenon
    <3>3. j.id = i /\ j.value = value
      BY <3>2, Zenon
    <3>4. job'[h] = j /\ \A g \in Handlers \ {h} : job'[g] = job[g]
      BY <2>2, <3>2, SaveRows DEF IInv, JobsInv
    <3>5. ASSUME NEW k \in Unique, NEW m, NEW v PROVE Few(job', rows, k, m, v)
      <4>1. Few(job, rows, k, m, v)
        BY <2>2, Zenon DEF CopiesInv
      <4>2. CASE rows[i] = Absent /\ HasKey(value, k, m, v)
        <5>1. value.kind = k /\ m = n /\ value.version = v
          BY <3>1, <4>2, Zenon DEF HasKey
        <5>2. There(rows, k, m, v) = {}
          BY <3>1, <4>1, <4>2, <5>1, <1>NoneThere, Zenon DEF Few, Saves
        <5> QED BY <5>2, <1>FirstComing, Zenon
      <4>3. CASE ~(rows[i] = Absent /\ HasKey(value, k, m, v))
        <5>1. Coming(job', rows, k, m, v) \subseteq Coming(job, rows, k, m, v)
          BY <3>3, <3>4, <4>3, Zenon DEF Coming
        <5> QED BY <4>1, <5>1, <1>FewerComing, Zenon
      <4> QED BY <4>2, <4>3, Zenon
    <3> QED BY <3>1, <3>5, Zenon DEF CopiesInv
  <2> QED BY <2>1, <2>2, Zenon DEF Saves, Save
\* A transaction turns a resource that is coming into one that is there.
<1>WriteCopies.
  ASSUME IInv, CopiesInv, NEW h \in Handlers, write(h)
  PROVE  CopiesInv'
  <2> USE <1>WriteCopies
  <2>0. repository = "postgres" /\ repository' = "postgres"
    BY WriteRows, Zenon
  <2>1. PICK i, value, step : i = job[h].id /\ value = job[h].value /\ step = job[h].then
    BY Zenon
  <2>2. /\ i \in Ids /\ value \in Row /\ value # Absent /\ Follows(step, i, value) /\ Named(job[h], {"Write"})
        /\ rows[i] # Absent => Same(rows[i], value)
    BY <2>1, WriteRows, Zenon
  <2>3. SUFFICES ASSUME NEW k \in Unique, NEW m, NEW v PROVE Few(job', rows', k, m, v)
    BY <2>0, Zenon DEF CopiesInv
  <2>4. Few(job, rows, k, m, v)
    BY <2>0, Zenon DEF CopiesInv
  <2>5. CASE rows' = rows /\ Goto(h, Absent)
    <3>1. Coming(job', rows', k, m, v) \subseteq Coming(job, rows, k, m, v)
      BY <2>5, NoJob, Zenon DEF Coming, Goto, IInv, JobsInv
    <3> QED BY <2>4, <2>5, <3>1, <1>FewerComing, Zenon
  <2>6. CASE rows'[i] = value /\ (\A l \in Ids \ {i} : rows'[l] = rows[l]) /\ Goto(h, step)
    <3>1. ~Named(step, {"Write"})
      BY <2>2, FollowsWrite, Zenon
    <3>2. ~Named(job'[h], {"Write"}) /\ \A g \in Handlers \ {h} : job'[g] = job[g]
      BY <2>6, <3>1, Zenon DEF Goto, IInv, JobsInv
    <3>3. \A g \in Handlers : Named(job[g], {"Write"}) => job[g].id \in Ids
      BY Zenon DEF IInv, JobsInv, JobInv, Writing
    <3>4. Coming(job', rows', k, m, v) \subseteq Coming(job, rows, k, m, v) \ {h}
      BY <2>2, <2>6, <3>2, <3>3, ZenonT(30) DEF Coming
    <3>5. CASE rows[i] = Absent /\ HasKey(value, k, m, v)
      <4>1. i \notin There(rows, k, m, v) /\ There(rows', k, m, v) = There(rows, k, m, v) \cup {i}
        BY <2>2, <2>6, <3>5 DEF There, HasKey
      <4>2. h \in Coming(job, rows, k, m, v)
        BY <2>1, <2>2, <3>5, Zenon DEF Coming
      <4> QED BY <2>4, <3>4, <4>1, <4>2, <1>OneArrives, Zenon
    <3>6. CASE ~(rows[i] = Absent /\ HasKey(value, k, m, v))
      <4>1. There(rows', k, m, v) = There(rows, k, m, v)
        BY <2>2, <2>6, <3>6 DEF There, HasKey, Same
      <4> QED BY <2>4, <3>4, <4>1, <1>FewerComing, Zenon
    <3> QED BY <3>5, <3>6, Zenon
  <2> QED BY <2>1, <2>5, <2>6, WriteRows, Zenon
\* Steps that give no resource a value.
<1>PlainCopies.
  ASSUME IInv, CopiesInv, NEW h \in Handlers, NEW n, NEW j, Plain(h, n, j)
  PROVE  CopiesInv'
  <2> USE <1>PlainCopies
  <2>1. UNCHANGED <<repository, rows>> /\ disk'.rows \in {disk.rows, rows} /\ ~Named(j, {"Write"})
    BY Zenon DEF Plain
  <2>2. job'[h] = j /\ \A g \in Handlers \ {h} : job'[g] = job[g]
    BY Zenon DEF Plain, Moves, Goto, IInv, JobsInv
  <2>3. \A k, m, v : Coming(job', rows, k, m, v) \subseteq Coming(job, rows, k, m, v)
    BY <2>1, <2>2, Zenon DEF Coming
  <2> QED BY <2>1, <2>3, <1>FewerComing, Zenon DEF CopiesInv
\* A restart ends what was coming.
<1>RestartCopies.
  ASSUME IInv, CopiesInv, restart
  PROVE  CopiesInv'
  <2> USE <1>RestartCopies
  <2>1. \A h \in Handlers : ~Named(job'[h], {"Write"})
    BY Zenon DEF restart, Outside, Idle, Named
  <2>2. \A k, m, v : Coming(job', rows, k, m, v) \subseteq Coming(job, rows, k, m, v)
    BY <2>1, Zenon DEF Coming
  <2> QED BY <2>2, <1>FewerComing, Zenon DEF CopiesInv, restart
<1>1. Init => CopiesInv
  <2> SUFFICES ASSUME Init PROVE CopiesInv
    BY Zenon
  <2>1. rows = [i \in Ids |-> Absent] /\ disk.rows = rows
    BY Zenon DEF Init, RepositoryInit, Snapshot
  <2>2. \A k, n, v : There(rows, k, n, v) = {}
    BY <2>1, Zenon DEF There, HasKey
  <2>3. OneEach(rows) /\ OneEach(disk.rows)
    BY <2>1 DEF OneEach, HasKey
  <2> QED BY <2>2, <2>3, <1>FirstComing, Zenon DEF CopiesInv
<1>2. IInv /\ CopiesInv /\ [Next]_vars => CopiesInv'
  <2> SUFFICES ASSUME IInv, CopiesInv, [Next]_vars PROVE CopiesInv'
    BY Zenon
  <2>1. CASE Restart
    BY <2>1, <1>RestartCopies, Zenon DEF Restart
  <2>2. CASE UNCHANGED vars
    BY <2>2, Zenon DEF vars, catalogVars, modelVars, storeVars, CopiesInv
  <2>3. ASSUME NEW h \in Handlers, Request(h) \/ Continue(h) PROVE CopiesInv'
    BY <2>3, <1>SaveCopies, <1>WriteCopies, <1>PlainCopies, RequestSteps, ContinueSteps, ZenonT(30) DEF Stores, Pauses, Rests
  <2> QED BY <2>1, <2>2, <2>3, Zenon DEF Next
<1> QED BY <1>1, <1>2, Invariant, PTL DEF Spec

\* RegisterModel, RegisterTool and ApplyFeatureView add no second resource of a key
\* in the file store, and in PostgreSQL no more than there are handlers: each of
\* them must have looked before the first one was written.
THEOREM NamesUnique == Spec => []UniqueNames
<1>1. IInv /\ CopiesInv => UniqueNames
  <2> SUFFICES ASSUME IInv, CopiesInv, NEW i \in Rows("model") \cup Rows("tool") \cup Rows("feature_view")
               PROVE  Cardinality(Copies(i)) <= IF repository = "file" THEN 1 ELSE Cardinality(Handlers)
    BY Zenon DEF UniqueNames
  <2>1. PICK k, n, v : k = rows[i].kind /\ n = rows[i].name /\ v = rows[i].version
    BY Zenon
  <2>2. k \in Unique /\ i \in Ids /\ HasKey(rows[i], k, n, v)
    BY <2>1, Zenon DEF Rows, HasKind, Unique, HasKey
  <2>3. Copies(i) = There(rows, k, n, v)
    BY <2>1, Zenon DEF Copies, Rows, HasKind, There, HasKey
  <2>4. CASE repository = "file"
    <3>1. Copies(i) \subseteq {i}
      BY <2>2, <2>3, <2>4, Zenon DEF CopiesInv, OneEach, There
    <3>2. Cardinality(Copies(i)) <= Cardinality({i})
      BY <3>1, FS_Singleton, FS_Subset, Zenon
    <3>3. Cardinality({i}) = 1
      BY FS_Singleton, Zenon
    <3> QED BY <2>4, <3>2, <3>3, Zenon
  <2>5. CASE repository = "postgres"
    <3>1. Few(job, rows, k, n, v)
      BY <2>2, <2>5, Zenon DEF CopiesInv
    <3>2. IsFiniteSet(Coming(job, rows, k, n, v))
      BY PlatformAssumption, FS_Subset, Zenon DEF Coming
    <3>3. /\ Cardinality(There(rows, k, n, v)) \in Nat /\ Cardinality(Coming(job, rows, k, n, v)) \in Nat
          /\ Cardinality(Handlers) \in Nat
      BY <3>1, <3>2, PlatformAssumption, FS_CardinalityType, Zenon DEF Few
    <3> QED BY <2>3, <2>5, <3>1, <3>3 DEF Few
  <2> QED BY <2>4, <2>5, Zenon DEF IInv
<1> QED BY <1>1, Invariant, CopiesInvariant, PTL

-----------------------------------------------------------------------------
(* Sessions and traces *)

Turns(s) == IF s = Absent THEN 0 ELSE s.turns

\* The reports of a session that are stored and not yet counted.
Readers(js, k) == {h \in Handlers : Named(js[h], {"ReadSession"}) /\ <<js[h].agent, js[h].session>> = k}

Ledger(s, t) == s \in [SessionKeys -> Session \cup {Absent}] /\ t \in [SessionKeys -> Nat]

Even(s, t) == \A k \in SessionKeys : Turns(s[k]) = t[k]

Reports(j) ==
  /\ Named(j, {"RecordTrace", "ReadSession"}) => j.usage \in Nat
  /\ Named(j, {"WriteSession"}) => j.key \in SessionKeys /\ j.value \in Session

\* A session, or the value about to be written to it, misses the reports that have
\* not read it.
Misses(s, t, js) ==
  /\ \A k \in SessionKeys : Turns(s[k]) + Cardinality(Readers(js, k)) <= t[k]
  /\ \A h \in Handlers : Named(js[h], {"WriteSession"}) =>
       js[h].value.turns + Cardinality(Readers(js, js[h].key)) <= t[js[h].key]

CountInv ==
  /\ Ledger(sessions, traces) /\ Ledger(disk.sessions, disk.traces) /\ thread \in [Sessions -> Nat]
  /\ \A h \in Handlers : Reports(job[h])
  /\ repository = "file" => Even(sessions, traces) /\ Even(disk.sessions, disk.traces)
  /\ repository = "postgres" => Misses(sessions, traces, job)

\* A step that has nothing to do with traces.
Quiet(h, j) ==
  /\ Goto(h, j) /\ ~Named(j, SessionAts) /\ UNCHANGED <<repository, sessions, traces>> /\ thread' \in [Sessions -> Nat]
  /\ disk' = disk \/ (disk'.sessions = sessions /\ disk'.traces = traces)

\* There are finitely many readers, and fewer are less.
LEMMA FewerReaders ==
  ASSUME NEW js, NEW ls, NEW k, Readers(ls, k) \subseteq Readers(js, k)
  PROVE  /\ IsFiniteSet(Readers(js, k)) /\ Cardinality(Readers(js, k)) \in Nat /\ Cardinality(Readers(ls, k)) \in Nat
         /\ Cardinality(Readers(ls, k)) <= Cardinality(Readers(js, k))
<1>1. Readers(js, k) \subseteq Handlers
  BY Zenon DEF Readers
<1>2. IsFiniteSet(Readers(js, k))
  BY <1>1, PlatformAssumption, FS_Subset, Zenon
<1> QED BY <1>2, FS_Subset, FS_CardinalityType, Zenon

\* The arithmetic of it.
LEMMA Below == ASSUME NEW a \in Nat, NEW b \in Nat, NEW c \in Nat, NEW d \in Nat, a + c <= d, b <= c PROVE a + b <= d
OBVIOUS

\* A session has turns.
LEMMA TurnsNat == ASSUME NEW s \in Session \cup {Absent} PROVE Turns(s) \in Nat
BY Zenon DEF Turns, Session

\* What sessions, traces and reports in flight have to do with each other.
THEOREM CountInvariant == Spec => []CountInv
\* With fewer readers, and no new value to be written, sessions miss no more.
<1>MissesLess.
  ASSUME NEW s, NEW t, Ledger(s, t), NEW js, NEW ls, Misses(s, t, js), \A h \in Handlers : Reports(js[h]),
         \A k \in SessionKeys : Readers(ls, k) \subseteq Readers(js, k),
         \A h \in Handlers : Named(ls[h], {"WriteSession"}) => ls[h] = js[h]
  PROVE  Misses(s, t, ls)
  <2> USE <1>MissesLess
  <2>1. ASSUME NEW k \in SessionKeys PROVE Turns(s[k]) + Cardinality(Readers(ls, k)) <= t[k]
    <3>1. /\ Cardinality(Readers(js, k)) \in Nat /\ Cardinality(Readers(ls, k)) \in Nat
          /\ Cardinality(Readers(ls, k)) <= Cardinality(Readers(js, k))
      BY FewerReaders, Zenon
    <3>2. Turns(s[k]) \in Nat /\ t[k] \in Nat
      BY TurnsNat, Zenon DEF Ledger
    <3>3. Turns(s[k]) + Cardinality(Readers(js, k)) <= t[k]
      BY Zenon DEF Misses
    <3> QED BY <3>1, <3>2, <3>3, Below, Zenon
  <2>2. ASSUME NEW h \in Handlers, Named(ls[h], {"WriteSession"})
        PROVE  ls[h].value.turns + Cardinality(Readers(ls, ls[h].key)) <= t[ls[h].key]
    <3>1. PICK k, v : k = ls[h].key /\ v = ls[h].value.turns
      BY Zenon
    <3>2. ls[h] = js[h] /\ k \in SessionKeys /\ v \in Nat
      BY <2>2, <3>1, Zenon DEF Reports, Session
    <3>3. /\ Cardinality(Readers(js, k)) \in Nat /\ Cardinality(Readers(ls, k)) \in Nat
          /\ Cardinality(Readers(ls, k)) <= Cardinality(Readers(js, k))
      BY <3>2, FewerReaders, Zenon
    <3>4. t[k] \in Nat
      BY <3>2, Zenon DEF Ledger
    <3>5. v + Cardinality(Readers(js, k)) <= t[k]
      BY <2>2, <3>1, <3>2, Zenon DEF Misses
    <3>6. v + Cardinality(Readers(ls, k)) <= t[k]
      BY <3>2, <3>3, <3>4, <3>5, Below, Zenon
    <3> QED BY <3>1, <3>6, Zenon
  <2> QED BY <2>1, <2>2, Zenon DEF Misses
\* Who reads after a step of a handler.
<1>ReadersAfter.
  ASSUME IInv, NEW h \in Handlers, NEW j, Goto(h, j)
  PROVE  /\ job'[h] = j /\ \A g \in Handlers \ {h} : job'[g] = job[g]
         /\ ~Named(j, {"ReadSession"}) => \A k : Readers(job', k) \subseteq Readers(job, k) \ {h}
  <2> USE <1>ReadersAfter
  <2>1. job'[h] = j /\ \A g \in Handlers \ {h} : job'[g] = job[g]
    BY Zenon DEF Goto, IInv, JobsInv
  <2> QED BY <2>1, Zenon DEF Readers
\* Quiet steps.
<1>QuietCounts.
  ASSUME IInv, CountInv, NEW h \in Handlers, NEW j, Quiet(h, j)
  PROVE  CountInv'
  <2> USE <1>QuietCounts
  <2>1. /\ Goto(h, j) /\ ~Named(j, SessionAts) /\ UNCHANGED <<repository, sessions, traces>>
        /\ thread' \in [Sessions -> Nat]
        /\ disk' = disk \/ (disk'.sessions = sessions /\ disk'.traces = traces)
    BY Zenon DEF Quiet
  <2>2. ~Named(j, {"ReadSession"}) /\ ~Named(j, {"WriteSession"}) /\ Reports(j)
    BY <2>1, Zenon DEF Named, SessionAts, Reports
  <2>3. job'[h] = j /\ (\A g \in Handlers \ {h} : job'[g] = job[g]) /\ \A k : Readers(job', k) \subseteq Readers(job, k)
    BY <2>1, <2>2, <1>ReadersAfter, Zenon
  <2>4. \A g \in Handlers : Reports(job'[g])
    BY <2>2, <2>3, Zenon DEF CountInv
  <2>5. repository = "postgres" => Misses(sessions', traces', job')
    <3>1. \A g \in Handlers : Named(job'[g], {"WriteSession"}) => job'[g] = job[g]
      BY <2>2, <2>3, Zenon
    <3>2. repository = "postgres" => Misses(sessions, traces, job')
      BY <2>3, <3>1, <1>MissesLess, Zenon DEF CountInv
    <3> QED BY <2>1, <3>2, Zenon
  <2>6. Ledger(sessions', traces') /\ Ledger(disk'.sessions, disk'.traces)
    BY <2>1, Zenon DEF CountInv
  <2>7. repository = "file" => Even(sessions', traces') /\ Even(disk'.sessions, disk'.traces)
    BY <2>1, Zenon DEF CountInv
  <2>8. repository' = repository /\ thread' \in [Sessions -> Nat]
    BY <2>1, Zenon
  <2> QED BY <2>4, <2>5, <2>6, <2>7, <2>8, Zenon DEF CountInv
\* Saving a resource is quiet.
<1>SaveQuiet.
  ASSUME IInv, CountInv, NEW h \in Handlers, NEW n, NEW i, NEW value, NEW step, Saves(h, n, i, value, step), UNCHANGED thread
  PROVE  CountInv'
  <2> USE <1>SaveQuiet
  <2>1. PICK j : j = [at |-> "Write", name |-> n, id |-> i, value |-> value, then |-> step]
    BY ZenonT(30)
  <2>2. j.at = "Write"
    BY <2>1, Zenon
  <2>3. ~Named(j, SessionAts) /\ ~Named(Absent, SessionAts)
    BY <2>2, Zenon DEF Named, SessionAts
  <2>4. ~Named(step, SessionAts)
    <3>1. i \in Ids /\ value \in Row /\ Follows(step, i, value)
      BY Zenon DEF Saves, Saved
    <3> QED BY <3>1, FollowsWrite, Zenon
  <2>5. /\ UNCHANGED <<repository, sessions, traces>> /\ (Goto(h, j) \/ Goto(h, step) \/ Goto(h, Absent))
        /\ disk' = disk \/ (disk'.sessions = sessions /\ disk'.traces = traces)
    BY <2>1 DEF Saves, Save, persist, Snapshot
  <2>6. thread' \in [Sessions -> Nat]
    BY Zenon DEF CountInv
  <2>7. Quiet(h, j) \/ Quiet(h, step) \/ Quiet(h, Absent)
    BY <2>3, <2>4, <2>5, <2>6, Zenon DEF Quiet
  <2> QED BY <2>7, <1>QuietCounts, Zenon
\* So is a call.
<1>CallQuiet.
  ASSUME IInv, CountInv, NEW h \in Handlers, NEW n, NEW j, Plain(h, n, j), ~Named(j, SessionAts), Call(h), UNCHANGED thread
  PROVE  CountInv'
  <2> USE <1>CallQuiet
  <2>1. Quiet(h, j)
    BY Zenon DEF Quiet, Plain, Moves, Call, CountInv
  <2> QED BY <2>1, <1>QuietCounts, Zenon
\* A transaction.
<1>WriteQuiet.
  ASSUME IInv, CountInv, NEW h \in Handlers, write(h), UNCHANGED thread
  PROVE  CountInv'
  <2> USE <1>WriteQuiet
  <2>1. PICK step : step = job[h].then
    BY Zenon
  <2>2. ~Named(step, SessionAts) /\ ~Named(Absent, SessionAts)
    <3>1. job[h].id \in Ids /\ job[h].value \in Row /\ Follows(step, job[h].id, job[h].value)
      BY <2>1, WriteRows, Zenon
    <3>2. ~Named(Absent, SessionAts)
      BY Zenon DEF Named
    <3> QED BY <3>1, <3>2, FollowsWrite, Zenon
  <2>3. UNCHANGED <<repository, sessions, traces, disk>> /\ (Goto(h, step) \/ Goto(h, Absent))
    BY <2>1, Zenon DEF write
  <2>4. Quiet(h, step) \/ Quiet(h, Absent)
    BY <2>2, <2>3, Zenon DEF Quiet, CountInv
  <2> QED BY <2>4, <1>QuietCounts, Zenon
\* Requests store no trace.
<1>RequestCounts.
  ASSUME IInv, CountInv, NEW h \in Handlers, Request(h)
  PROVE  CountInv'
  <2> USE <1>RequestCounts
  <2>1. UNCHANGED thread
    BY Zenon DEF Request, AgentRequest, deployAgent, DeployAgent, agentTraffic, SetAgentTraffic, invokeAgent, NoTurn
  <2>2. Stores(h) \/ \E n, j : Plain(h, n, j) /\ ~Named(j, SessionAts) /\ Call(h)
    <3>1. testConnection(h) \/ invokeAgent(h) => Call(h)
      BY Zenon DEF testConnection, invokeAgent
    <3> QED BY <3>1, ModelRequestSaves, CatalogRequestSaves, TestRests, AgentRequestSaves, InvokeRests, ZenonT(30)
            DEF Request, AgentRequest, Stores, Rests
  <2> QED BY <2>1, <2>2, <1>SaveQuiet, <1>CallQuiet, Zenon DEF Stores
\* Neither do the steps of deployments and of the feature job.
<1>OtherCounts.
  ASSUME IInv, CountInv, NEW h \in Handlers, Continue(h), ~AgentStep(h)
  PROVE  CountInv'
  <2> USE <1>OtherCounts
  <2>1. UNCHANGED thread
    BY Zenon DEF Continue
  <2>2. write(h) \/ Stores(h) \/ \E n, j : Plain(h, n, j) /\ ~Named(j, SessionAts) /\ Call(h)
    <3>1. requestServing(h) \/ DeleteDeployment(h) \/ Put(h) \/ write_offline_snapshot(h) => Call(h)
      BY ZenonT(30) DEF requestServing, Deploy, Undeploy, Create, Start, do, DeleteDeployment, Put, write_offline_snapshot
    <3>2. CASE ServingStep(h)
      BY <3>1, <3>2, RequestServingPlain, DeployedSaves, DeletePlain, NoJob, Zenon DEF ServingStep, Stores
    <3>3. CASE Put(h) \/ write_offline_snapshot(h) \/ UpdateConnectionStatus(h)
      BY <3>1, <3>3, PutRests, SnapshotRests, StatusSaves, Zenon DEF Stores, Rests
    <3>4. CASE reportMaterialization(h)
      BY <3>4, ReportSaves, NoJob, Zenon DEF Stores, Rests
    <3> QED BY <3>2, <3>3, <3>4, Zenon DEF Continue, CatalogStep
  <2> QED BY <2>1, <2>2, <1>WriteQuiet, <1>SaveQuiet, <1>CallQuiet, ZenonT(30) DEF Stores
\* The job of a report, and the job after it.
<1>TurnCounts.
  ASSUME IInv, CountInv, NEW h \in Handlers, turn(h)
  PROVE  CountInv'
  <2> USE <1>TurnCounts
  <2>1. At(h, "Turn") /\ Call(h)
    BY Zenon DEF turn
  <2>2. PICK s : s = job[h].session
    BY Zenon
  <2>3. s \in Sessions
    BY <2>1, <2>2, TurnJob, Zenon
  <2>4. thread' = thread \/ thread' = [thread EXCEPT ![s] = @ + 1]
    BY <2>2, Zenon DEF turn, invoke, stream, reply, fails
  <2>5. thread' \in [Sessions -> Nat]
    BY <2>3, <2>4 DEF CountInv
  <2>6. Goto(h, Absent) \/ \E u \in Nat : Goto(h, Report(h, u))
    <3>1. thread'[s] \in Nat
      BY <2>3, <2>5, Zenon
    <3>2. \A r \in Nat : usage_from_messages(r) \in Nat
      BY DEF usage_from_messages, Cost
    <3>3. CASE invoke(h)
      BY <2>2, <3>1, <3>2, <3>3, Zenon DEF invoke
    <3>4. CASE stream(h)
      <4>1. \E n \in 0..1 : Goto(h, Report(h, usage_from_messages(n)))
        BY <3>4 DEF stream
      <4>2. \A n \in 0..1 : n \in Nat
        OBVIOUS
      <4> QED BY <3>2, <4>1, <4>2, Zenon
    <3> QED BY <3>3, <3>4, Zenon DEF turn
  <2>7. ASSUME NEW j, Goto(h, j), ~Named(j, {"ReadSession"}), ~Named(j, {"WriteSession"}), Reports(j) PROVE CountInv'
    <3>1. job'[h] = j /\ (\A g \in Handlers \ {h} : job'[g] = job[g]) /\ \A k : Readers(job', k) \subseteq Readers(job, k)
      BY <2>7, <1>ReadersAfter, Zenon
    <3>2. \A g \in Handlers : Reports(job'[g])
      BY <2>7, <3>1, Zenon DEF CountInv
    <3>3. repository = "postgres" => Misses(sessions, traces, job')
      <4>1. \A g \in Handlers : Named(job'[g], {"WriteSession"}) => job'[g] = job[g]
        BY <2>7, <3>1, Zenon
      <4> QED BY <3>1, <4>1, <1>MissesLess, Zenon DEF CountInv
    <3>4. UNCHANGED <<repository, sessions, traces, disk>>
      BY <2>1, Zenon DEF Call
    <3> QED BY <2>5, <3>2, <3>3, <3>4, Zenon DEF CountInv
  <2>8. ASSUME NEW u \in Nat, Goto(h, Report(h, u)) PROVE CountInv'
    <3>1. PICK j : j = Report(h, u)
      BY Zenon
    <3>2. j.at = "RecordTrace" /\ j.usage = u
      BY <3>1, Zenon DEF Report
    <3>3. ~Named(j, {"ReadSession"}) /\ ~Named(j, {"WriteSession"}) /\ Reports(j)
      BY <3>2, Zenon DEF Named, Reports
    <3> QED BY <2>7, <2>8, <3>1, <3>3, Zenon
  <2>9. ~Named(Absent, {"ReadSession"}) /\ ~Named(Absent, {"WriteSession"}) /\ Reports(Absent)
    BY Zenon DEF Named, Reports
  <2> QED BY <2>6, <2>7, <2>8, <2>9, Zenon
\* A session with one more turn.
<1>CountedTurns.
  ASSUME NEW old \in Session \cup {Absent}, NEW usage \in Nat
  PROVE  Counted(old, usage) \in Session /\ Counted(old, usage) # Absent /\ Counted(old, usage).turns = Turns(old) + 1
         /\ Turns(Counted(old, usage)) = Turns(old) + 1
  <2> USE <1>CountedTurns
  <2>1. Counted(old, usage) \in Session /\ Counted(old, usage).turns = Turns(old) + 1
    BY DEF Counted, Session, Turns
  <2>2. Counted(old, usage) # Absent
    BY <2>1, PlatformAssumption, Zenon
  <2> QED BY <2>1, <2>2, Zenon DEF Turns
\* The file store counts the trace it stores; PostgreSQL has one more reader.
<1>RecordCounts.
  ASSUME IInv, CountInv, NEW h \in Handlers, record_trace(h)
  PROVE  CountInv'
  <2> USE <1>RecordCounts
  <2>1. At(h, "RecordTrace") /\ UNCHANGED <<repository, thread>> /\ repository \in {"file", "postgres"}
    BY Zenon DEF record_trace, NoTurn, IInv
  <2>2. PICK k, u : k = Key(h) /\ u = job[h].usage
    BY Zenon
  <2>3. k \in SessionKeys
    BY <2>1, <2>2, TurnJob, Zenon
  <2>4. u \in Nat
    BY <2>1, <2>2, Zenon DEF At, Idle, CountInv, Reports, Named
  <2>5. CASE Goto(h, Absent) /\ UNCHANGED <<sessions, traces, disk>>
    <3>1. Quiet(h, Absent)
      BY <2>1, <2>5, NoJob, Zenon DEF Quiet, CountInv
    <3> QED BY <3>1, <1>QuietCounts, Zenon
  <2>6. CASE RecordTrace(h) /\ repository = "file"
    <3>1. PICK v : v = Counted(sessions[k], u)
      BY Zenon
    <3>2. /\ traces' = [traces EXCEPT ![k] = @ + 1] /\ sessions' = [sessions EXCEPT ![k] = v] /\ Goto(h, Absent)
          /\ disk' = disk \/ (disk'.sessions = sessions' /\ disk'.traces = traces')
      <4>1. traces' = [traces EXCEPT ![k] = @ + 1]
        BY <2>2, <2>6, Zenon DEF RecordTrace
      <4>2. sessions' = [sessions EXCEPT ![k] = v] /\ Goto(h, Absent)
        BY <2>2, <2>6, <3>1, Zenon DEF RecordTrace, SessionKey
      <4>3. UNCHANGED disk \/ disk' = [rows |-> rows, sessions |-> sessions', traces |-> traces']
        BY <2>6, Zenon DEF RecordTrace
      <4>4. disk' = disk \/ (disk'.sessions = sessions' /\ disk'.traces = traces')
        BY <4>3
      <4> QED BY <4>1, <4>2, <4>4, Zenon
    <3>3. v \in Session /\ Turns(v) = Turns(sessions[k]) + 1
      BY <2>3, <2>4, <3>1, <1>CountedTurns, Zenon DEF CountInv, Ledger
    <3>4. sessions'[k] = v /\ traces'[k] = traces[k] + 1
          /\ \A l \in SessionKeys \ {k} : sessions'[l] = sessions[l] /\ traces'[l] = traces[l]
      BY <2>3, <3>2, Zenon DEF CountInv, Ledger
    <3>5. Ledger(sessions', traces')
      BY <2>3, <3>2, <3>3 DEF CountInv, Ledger
    <3>6. Even(sessions', traces')
      <4>1. Even(sessions, traces)
        BY <2>6, Zenon DEF CountInv
      <4> QED BY <2>3, <3>3, <3>4, <4>1, Zenon DEF Even
    <3>7. Ledger(disk'.sessions, disk'.traces) /\ Even(disk'.sessions, disk'.traces)
      BY <2>6, <3>2, <3>5, <3>6, Zenon DEF CountInv
    <3>8. \A g \in Handlers : Reports(job'[g])
      BY <3>2, <1>ReadersAfter, ZenonT(30) DEF CountInv, Reports, Named
    <3> QED BY <2>1, <2>6, <3>5, <3>6, <3>7, <3>8, ZenonT(30) DEF CountInv
  <2>7. CASE RecordTrace(h) /\ repository = "postgres"
    <3>1. PICK j : j = [job[h] EXCEPT !.at = "ReadSession"]
      BY Zenon
    <3>2. j.at = "ReadSession" /\ <<j.agent, j.session>> = k /\ j.usage = u
      <4>1. job[h] = [at |-> job[h].at, name |-> job[h].name, agent |-> job[h].agent,
                      session |-> job[h].session, usage |-> job[h].usage]
        BY <2>1, Zenon DEF At, Idle, Named, IInv, JobsInv, JobInv, Shape
      <4> QED BY <2>2, <3>1, <4>1, Zenon DEF Key
    <3>3. traces' = [traces EXCEPT ![k] = @ + 1] /\ Goto(h, j) /\ UNCHANGED <<sessions, disk>>
      BY <2>2, <2>7, <3>1, Zenon DEF RecordTrace
    <3>4. Ledger(sessions, traces)
      BY Zenon DEF CountInv
    <3>5. /\ Ledger(sessions', traces') /\ traces'[k] = traces[k] + 1 /\ traces[k] \in Nat
          /\ \A l \in SessionKeys \ {k} : traces'[l] = traces[l]
      <4>1. sessions' = sessions /\ traces' = [traces EXCEPT ![k] = @ + 1]
        BY <3>3, Zenon
      <4>2. traces'[k] = traces[k] + 1 /\ traces[k] \in Nat
        BY <2>3, <3>4, <4>1, Zenon DEF Ledger
      <4>3. \A l \in SessionKeys \ {k} : traces'[l] = traces[l]
        BY <3>4, <4>1, Zenon DEF Ledger
      <4>4. Ledger(sessions', traces')
        BY <2>3, <3>4, <4>1 DEF Ledger
      <4> QED BY <4>2, <4>3, <4>4, Zenon
    <3>6. job'[h] = j /\ \A g \in Handlers \ {h} : job'[g] = job[g]
      BY <3>3, <1>ReadersAfter, Zenon
    <3>7. ~Named(j, {"WriteSession"}) /\ Reports(j)
      BY <2>4, <3>2, Zenon DEF Named, Reports
    <3>8. \A g \in Handlers : Reports(job[g]) /\ Reports(job'[g])
      BY <3>6, <3>7, Zenon DEF CountInv
    <3>9. /\ Readers(job', k) \subseteq Readers(job, k) \cup {h}
          /\ \A l \in SessionKeys \ {k} : Readers(job', l) \subseteq Readers(job, l)
      BY <3>2, <3>6 DEF Readers
    <3>10. PICK c, d : c = Cardinality(Readers(job, k)) /\ d = Cardinality(Readers(job', k))
      BY Zenon
    <3>11. c \in Nat /\ d \in Nat /\ d <= c + 1
      <4>1. IsFiniteSet(Readers(job, k)) /\ c \in Nat
        BY <3>10, FewerReaders, Zenon
      <4>2. /\ IsFiniteSet(Readers(job, k) \cup {h})
            /\ Cardinality(Readers(job, k) \cup {h}) = c \/ Cardinality(Readers(job, k) \cup {h}) = c + 1
        BY <3>10, <4>1, FS_AddElement, Zenon
      <4>3. Cardinality(Readers(job', k)) <= Cardinality(Readers(job, k) \cup {h})
        BY <3>9, <4>2, FS_Subset, Zenon
      <4>4. d \in Nat
        BY <3>10, FewerReaders, Zenon
      <4> QED BY <3>10, <4>1, <4>2, <4>3, <4>4
    <3>12. Misses(sessions, traces, job)
      BY <2>7, Zenon DEF CountInv
    <3>13. ASSUME NEW l \in SessionKeys, NEW v \in Nat, v + Cardinality(Readers(job, l)) <= traces[l]
           PROVE  v + Cardinality(Readers(job', l)) <= traces'[l]
      <4>1. CASE l = k
        BY <3>5, <3>10, <3>11, <3>13, <4>1
      <4>2. CASE l # k
        <5>1. /\ Cardinality(Readers(job, l)) \in Nat /\ Cardinality(Readers(job', l)) \in Nat
              /\ Cardinality(Readers(job', l)) <= Cardinality(Readers(job, l))
          BY <3>9, <4>2, FewerReaders, ZenonT(30)
        <5>2. traces'[l] = traces[l] /\ traces[l] \in Nat
          BY <3>4, <3>5, <4>2, ZenonT(30) DEF Ledger
        <5> QED BY <3>13, <5>1, <5>2, Below, Zenon
      <4> QED BY <4>1, <4>2, Zenon
    <3>14. \A l \in SessionKeys : Turns(sessions'[l]) + Cardinality(Readers(job', l)) <= traces'[l]
      <4> TAKE l \in SessionKeys
      <4>1. Turns(sessions[l]) \in Nat
        BY <3>4, TurnsNat, Zenon DEF Ledger
      <4>2. Turns(sessions[l]) + Cardinality(Readers(job, l)) <= traces[l]
        BY <3>12, Zenon DEF Misses
      <4>3. sessions' = sessions
        BY <3>3, Zenon
      <4> QED BY <3>13, <4>1, <4>2, <4>3, ZenonT(30)
    <3>15. ASSUME NEW g \in Handlers, Named(job'[g], {"WriteSession"})
           PROVE  job'[g].value.turns + Cardinality(Readers(job', job'[g].key)) <= traces'[job'[g].key]
      <4>1. job'[g] = job[g]
        BY <3>6, <3>7, <3>15, ZenonT(30)
      <4>2. PICK l, v : l = job[g].key /\ v = job[g].value.turns
        BY Zenon
      <4>3. l \in SessionKeys /\ v \in Nat /\ v + Cardinality(Readers(job, l)) <= traces[l]
        BY <3>8, <3>12, <3>15, <4>1, <4>2, ZenonT(30) DEF Misses, Reports, Session
      <4>4. v + Cardinality(Readers(job', l)) <= traces'[l]
        BY <3>13, <4>3, Zenon
      <4> QED BY <4>1, <4>2, <4>4, ZenonT(30)
    <3>16. Misses(sessions', traces', job')
      BY <3>14, <3>15, Zenon DEF Misses
    <3>17. Ledger(disk'.sessions, disk'.traces)
      BY <3>3, Zenon DEF CountInv
    <3> QED BY <2>1, <2>7, <3>5, <3>8, <3>16, <3>17, ZenonT(30) DEF CountInv
  <2> QED BY <2>1, <2>5, <2>6, <2>7, ZenonT(30) DEF record_trace
\* The value read counts one more turn, for the reader.
<1>ReadCounts.
  ASSUME IInv, CountInv, NEW h \in Handlers, ReadSession(h)
  PROVE  CountInv'
  <2> USE <1>ReadCounts
  <2>1. At(h, "ReadSession") /\ UNCHANGED <<repository, sessions, traces, disk, thread>> /\ Named(job[h], {"ReadSession"})
    BY ZenonT(30) DEF ReadSession, NoTurn, Call, At, Idle, Named
  <2>2. PICK k, u : k = Key(h) /\ u = job[h].usage
    BY Zenon
  <2>3. k \in SessionKeys /\ u \in Nat /\ repository = "postgres"
    BY <2>1, <2>2, TurnJob, ZenonT(30) DEF CountInv, Reports, Named, IInv, FileInv
  <2>4. PICK v : v = Counted(sessions[k], u)
    BY Zenon
  <2>5. v \in Session /\ v.turns = Turns(sessions[k]) + 1 /\ Turns(sessions[k]) \in Nat /\ traces[k] \in Nat
    BY <2>3, <2>4, <1>CountedTurns, TurnsNat, ZenonT(30) DEF CountInv, Ledger
  <2>6. PICK j : j = [at |-> "WriteSession", name |-> job[h].name, key |-> k, value |-> v]
    BY Zenon
  <2>7. j.at = "WriteSession" /\ j.key = k /\ j.value = v
    BY <2>6, Zenon
  <2>8. Goto(h, j)
    BY <2>2, <2>4, <2>6, ZenonT(30) DEF ReadSession, SessionKey
  <2>9. ~Named(j, {"ReadSession"}) /\ Reports(j)
    BY <2>3, <2>5, <2>7, Zenon DEF Named, Reports
  <2>10. /\ job'[h] = j /\ (\A g \in Handlers \ {h} : job'[g] = job[g])
         /\ \A l : Readers(job', l) \subseteq Readers(job, l) \ {h}
    BY <2>8, <2>9, <1>ReadersAfter, Zenon
  <2>11. \A g \in Handlers : Reports(job[g]) /\ Reports(job'[g])
    BY <2>9, <2>10, Zenon DEF CountInv
  <2>12. Misses(sessions, traces, job) /\ Ledger(sessions, traces)
    BY <2>3, Zenon DEF CountInv
  <2>13. PICK js : js = [job' EXCEPT ![h] = Absent]
    BY ZenonT(30)
  <2>14. js[h] = Absent /\ \A g \in Handlers \ {h} : js[g] = job[g]
    <3>1. job' = [job EXCEPT ![h] = j] /\ job = [g \in Handlers |-> job[g]]
      BY <2>8, Zenon DEF Goto, IInv, JobsInv
    <3> QED BY <2>13, <3>1, Zenon
  <2>15. /\ \A l : Readers(js, l) = Readers(job', l)
         /\ \A l \in SessionKeys : Readers(js, l) \subseteq Readers(job, l)
    BY <2>9, <2>10, <2>14 DEF Readers, Named
  <2>16. Misses(sessions, traces, js)
    <3>1. \A g \in Handlers : Named(js[g], {"WriteSession"}) => js[g] = job[g]
      BY <2>14, NoJob, Zenon
    <3> QED BY <2>11, <2>12, <2>15, <3>1, <1>MissesLess, ZenonT(30)
  <2>17. v.turns + Cardinality(Readers(job', k)) <= traces[k]
    <3>1. PICK R, c, d : R = Readers(job, k) /\ c = Cardinality(R) /\ d = Cardinality(Readers(job', k))
      BY Zenon
    <3>2. IsFiniteSet(R) /\ c \in Nat /\ h \in R
      <4>1. IsFiniteSet(R) /\ c \in Nat
        BY <3>1, FewerReaders, Zenon
      <4>2. h \in R
        BY <2>1, <2>2, <3>1, Zenon DEF Readers, Key
      <4> QED BY <4>1, <4>2, Zenon
    <3>3. IsFiniteSet(R \ {h}) /\ Cardinality(R \ {h}) = c - 1
      BY <3>1, <3>2, FS_RemoveElement, Zenon
    <3>4. d <= Cardinality(R \ {h})
      BY <2>10, <3>1, <3>3, FS_Subset, Zenon
    <3>5. d \in Nat
      BY <3>1, FewerReaders, Zenon
    <3>6. Turns(sessions[k]) + c <= traces[k]
      BY <2>3, <2>12, <3>1, Zenon DEF Misses
    <3> QED BY <2>5, <3>1, <3>2, <3>3, <3>4, <3>5, <3>6
  <2>18. Misses(sessions, traces, job')
    <3>1. \A l \in SessionKeys : Turns(sessions[l]) + Cardinality(Readers(job', l)) <= traces[l]
      BY <2>15, <2>16, Zenon DEF Misses
    <3>2. ASSUME NEW g \in Handlers, Named(job'[g], {"WriteSession"})
          PROVE  job'[g].value.turns + Cardinality(Readers(job', job'[g].key)) <= traces[job'[g].key]
      <4>1. CASE g = h
        BY <2>7, <2>10, <2>17, <4>1, Zenon
      <4>2. CASE g # h
        BY <2>10, <2>14, <2>15, <2>16, <3>2, <4>2, ZenonT(30) DEF Misses
      <4> QED BY <4>1, <4>2, Zenon
    <3> QED BY <3>1, <3>2, Zenon DEF Misses
  <2> QED BY <2>1, <2>3, <2>11, <2>18, ZenonT(30) DEF CountInv
\* The session takes the value that was computed, which misses no less than the
\* traces allow.
<1>WriteSessionCounts.
  ASSUME IInv, CountInv, NEW h \in Handlers, WriteSession(h)
  PROVE  CountInv'
  <2> USE <1>WriteSessionCounts
  <2>1. /\ At(h, "WriteSession") /\ UNCHANGED <<repository, traces, disk, thread>> /\ Goto(h, Absent)
        /\ sessions' = sessions \/ sessions' = [sessions EXCEPT ![job[h].key] = job[h].value]
        /\ Named(job[h], {"WriteSession"})
    BY Zenon DEF WriteSession, NoTurn, At, Idle, Named
  <2>2. CASE sessions' = sessions
    <3>1. Quiet(h, Absent)
      BY <2>1, <2>2, NoJob, ZenonT(30) DEF Quiet, CountInv
    <3> QED BY <3>1, <1>QuietCounts, Zenon
  <2>3. CASE sessions' = [sessions EXCEPT ![job[h].key] = job[h].value]
    <3>1. PICK k, v : k = job[h].key /\ v = job[h].value
      BY Zenon
    <3>2. k \in SessionKeys /\ v \in Session /\ v # Absent
      BY <2>1, <3>1, PlatformAssumption, ZenonT(30) DEF CountInv, Reports
    <3>3. repository = "postgres"
      BY <2>1, ZenonT(30) DEF Named, IInv, FileInv
    <3>4. sessions'[k] = v /\ \A l \in SessionKeys \ {k} : sessions'[l] = sessions[l]
      BY <2>3, <3>1, <3>2, Zenon DEF CountInv, Ledger
    <3>5. Ledger(sessions', traces)
      BY <2>3, <3>1, <3>2, Zenon DEF CountInv, Ledger
    <3>6. Misses(sessions', traces, job)
      <4>1. Misses(sessions, traces, job)
        BY <3>3, Zenon DEF CountInv
      <4>2. v.turns + Cardinality(Readers(job, k)) <= traces[k]
        BY <2>1, <3>1, <4>1, Zenon DEF Misses
      <4> QED BY <3>2, <3>4, <4>1, <4>2, Zenon DEF Misses, Turns
    <3>7. (\A g \in Handlers \ {h} : job'[g] = job[g]) /\ job'[h] = Absent
          /\ \A l \in SessionKeys : Readers(job', l) \subseteq Readers(job, l)
      BY <2>1, NoJob, <1>ReadersAfter, Zenon
    <3>8. \A g \in Handlers : Reports(job[g]) /\ Reports(job'[g])
      BY <3>7, Zenon DEF CountInv, Reports, Named
    <3>9. Misses(sessions', traces, job')
      <4>1. \A g \in Handlers : Named(job'[g], {"WriteSession"}) => job'[g] = job[g]
        BY <3>7, NoJob, Zenon
      <4> QED BY <3>5, <3>6, <3>7, <3>8, <4>1, <1>MissesLess, ZenonT(30)
    <3> QED BY <2>1, <3>3, <3>5, <3>8, <3>9, ZenonT(30) DEF CountInv
  <2> QED BY <2>1, <2>2, <2>3, Zenon
\* A restart loads sessions and traces from one file.
<1>RestartCounts.
  ASSUME IInv, CountInv, restart, UNCHANGED thread
  PROVE  CountInv'
  <2> USE <1>RestartCounts
  <2>1. \A h \in Handlers : job'[h] = Absent \/ job'[h] = job[h]
    BY Zenon DEF restart
  <2>2. \A g \in Handlers : Reports(job'[g])
    BY <2>1, Zenon DEF CountInv, Reports, Named
  <2>3. /\ repository = "file" => sessions' = disk.sessions /\ traces' = disk.traces
        /\ repository # "file" => UNCHANGED <<sessions, traces>>
        /\ UNCHANGED <<repository, disk>>
    BY Zenon DEF restart
  <2>4. Ledger(sessions', traces')
    BY <2>3, Zenon DEF CountInv
  <2>5. repository = "file" => Even(sessions', traces') /\ Even(disk.sessions, disk.traces)
    BY <2>3, Zenon DEF CountInv
  <2>6. repository = "postgres" => Misses(sessions', traces', job')
    <3>1. \A l \in SessionKeys : Readers(job', l) \subseteq Readers(job, l)
      BY <2>1, NoJob, Zenon DEF Readers
    <3>2. \A g \in Handlers : Named(job'[g], {"WriteSession"}) => job'[g] = job[g]
      BY <2>1, NoJob, Zenon
    <3> QED BY <2>3, <3>1, <3>2, <1>MissesLess, Zenon DEF CountInv
  <2> QED BY <2>2, <2>3, <2>4, <2>5, <2>6, ZenonT(30) DEF CountInv
<1>1. Init => CountInv
  <2> SUFFICES ASSUME Init PROVE CountInv
    BY Zenon
  <2>1. /\ sessions = [k \in SessionKeys |-> Absent] /\ traces = [k \in SessionKeys |-> 0]
        /\ disk.sessions = sessions /\ disk.traces = traces /\ job = [h \in Handlers |-> Absent]
    BY Zenon DEF Init, RepositoryInit, Snapshot
  <2>2. thread \in [Sessions -> Nat]
    BY Zenon DEF Init, AgentsInit
  <2>3. Ledger(sessions, traces) /\ Even(sessions, traces)
    BY <2>1 DEF Ledger, Even, Turns
  <2>4. \A h \in Handlers : ~Named(job[h], {"ReadSession"}) /\ ~Named(job[h], {"WriteSession"}) /\ Reports(job[h])
    BY <2>1, Zenon DEF Named, Reports
  <2>5. Misses(sessions, traces, job)
    <3>1. \A k : Readers(job, k) = {}
      BY <2>4, Zenon DEF Readers
    <3>2. Cardinality({}) = 0
      BY FS_EmptySet, Zenon
    <3>3. \A k \in SessionKeys : Turns(sessions[k]) = 0 /\ traces[k] = 0
      BY <2>1, Zenon DEF Turns
    <3> QED BY <2>4, <3>1, <3>2, <3>3 DEF Misses
  <2> QED BY <2>1, <2>2, <2>3, <2>4, <2>5, ZenonT(30) DEF CountInv
<1>2. IInv /\ CountInv /\ [Next]_vars => CountInv'
  <2> SUFFICES ASSUME IInv, CountInv, [Next]_vars PROVE CountInv'
    BY Zenon
  <2>1. CASE Restart
    BY <2>1, <1>RestartCounts, Zenon DEF Restart
  <2>2. CASE UNCHANGED vars
    BY <2>2, Zenon DEF vars, catalogVars, modelVars, storeVars, CountInv
  <2>3. ASSUME NEW h \in Handlers, Continue(h) PROVE CountInv'
    BY <2>3, <1>OtherCounts, <1>TurnCounts, <1>RecordCounts, <1>ReadCounts, <1>WriteSessionCounts, ZenonT(30) DEF AgentStep
  <2> QED BY <2>1, <2>2, <2>3, <1>RequestCounts, ZenonT(30) DEF Next
<1> QED BY <1>1, <1>2, Invariant, PTL DEF Spec

\* RecordTrace counts each stored trace once in the file store, after failed writes
\* and restarts too; in PostgreSQL reports that read the session at the same time
\* may lose a turn, and never add one.
THEOREM TracesCounted == Spec => []SessionsCountTraces
<1>1. IInv /\ CountInv => SessionsCountTraces
  <2> SUFFICES ASSUME IInv, CountInv, NEW k \in SessionKeys
               PROVE  IF repository = "file" THEN Turns(sessions[k]) = traces[k] ELSE Turns(sessions[k]) <= traces[k]
    BY Zenon DEF SessionsCountTraces, Turns
  <2>1. CASE repository = "file"
    BY <2>1, Zenon DEF CountInv, Even
  <2>2. CASE repository = "postgres"
    <3>1. Turns(sessions[k]) + Cardinality(Readers(job, k)) <= traces[k]
      BY <2>2, Zenon DEF CountInv, Misses
    <3>2. Turns(sessions[k]) \in Nat /\ traces[k] \in Nat
      BY TurnsNat, Zenon DEF CountInv, Ledger
    <3>3. Cardinality(Readers(job, k)) \in Nat
      BY FewerReaders, Zenon
    <3> QED BY <2>2, <3>1, <3>2, <3>3
  <2> QED BY <2>1, <2>2, Zenon DEF IInv
<1> QED BY <1>1, Invariant, CountInvariant, PTL

=============================================================================
