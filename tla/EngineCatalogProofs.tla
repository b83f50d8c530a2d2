------------------------- MODULE EngineCatalogProofs -------------------------
(* Theorems about EngineCatalog for any set of callers and any bounds.      *)
EXTENDS EngineCatalog, TLAPS

(* The initial state of createAskSql is well typed.                         *)
LEMMA TypeInitial == Init => TypeOK
  <1> SUFFICES ASSUME Init PROVE TypeOK
    OBVIOUS
  <1>1. refresh \in [Callers -> BOOLEAN]
    BY Zenon DEF Init
  <1>2. connected \in BOOLEAN /\ connecting \in BOOLEAN
    BY Zenon DEF Init
  <1> QED
    BY <1>1, <1>2, EngineCatalogAssumption
    DEF EngineCatalogAssumption, Init, TypeOK, PCs, Settled

(* One step per action; Boolean-valued variables go to Zenon.               *)
LEMMA TypePreserved == TypeOK /\ [Next]_vars => TypeOK'
  <1> SUFFICES ASSUME TypeOK, [Next]_vars PROVE TypeOK'
    OBVIOUS
  <1> USE EngineCatalogAssumption DEF EngineCatalogAssumption, TypeOK, PCs, Settled
  <1>1. ASSUME NEW c \in Callers, NEW k \in {"catalog", "ask"}, NEW r \in BOOLEAN, Call(c, k, r)
        PROVE  TypeOK'
    <2>1. refresh' \in [Callers -> BOOLEAN]
      BY <1>1, Zenon DEF Call
    <2>2. connected' \in BOOLEAN /\ connecting' \in BOOLEAN
      BY <1>1, Zenon DEF Call, EnsureConnected, connVars
    <2>4. dialing' \in Nat /\ pools' \in Nat
      BY <1>1 DEF Call, EnsureConnected, connVars
    <2>3. pc' \in [Callers -> PCs]
      BY <1>1 DEF Call, EnsureConnected
    <2> QED
      BY <1>1, <2>1, <2>2, <2>3, <2>4 DEF Call, cacheVars, staleVars, readVars
  <1>2. ASSUME NEW ok \in BOOLEAN, ConnectSettles(ok)
        PROVE  TypeOK'
    <2>1. connected' \in BOOLEAN /\ connecting' \in BOOLEAN
      BY <1>2, Zenon DEF ConnectSettles
    <2>2. pc' \in [Callers -> PCs]
      BY <1>2, Zenon DEF ConnectSettles
    <2> QED
      BY <1>2, <2>1, <2>2 DEF ConnectSettles, cacheVars, staleVars, readVars
  <1>3. ASSUME NEW c \in Callers, CatalogFromCache(c)
        PROVE  TypeOK'
    BY <1>3 DEF CatalogFromCache, AfterCatalog, connVars, cacheVars, staleVars, readVars
  <1>4. ASSUME NEW c \in Callers, JoinInflight(c)
        PROVE  TypeOK'
    BY <1>4 DEF JoinInflight, connVars, cacheVars, staleVars, readVars
  <1>5. ASSUME NEW c \in Callers, StartRead(c)
        PROVE  TypeOK'
    BY <1>5 DEF StartRead, connVars, staleVars
  <1>6. ASSUME NEW c \in Callers, Observe(c)
        PROVE  TypeOK'
    BY <1>6 DEF Observe, connVars, cacheVars, staleVars, callVars
  <1>7. ASSUME NEW c \in Callers, NEW w \in BOOLEAN, ReadSucceeds(c, w)
        PROVE  TypeOK'
    BY <1>7 DEF ReadSucceeds, WriteCache, Woken, ClearInflight, AfterCatalog, connVars, staleVars
  <1>8. ASSUME NEW c \in Callers, ReadFails(c)
        PROVE  TypeOK'
    BY <1>8 DEF ReadFails, Woken, ClearInflight, AfterFailure, connVars, staleVars
  <1>9. ASSUME NEW c \in Callers, AskKeepsCatalog(c)
        PROVE  TypeOK'
    BY <1>9 DEF AskKeepsCatalog, connVars, cacheVars, staleVars, readVars
  <1>10. ASSUME NEW c \in Callers, AskRefreshes(c)
         PROVE  TypeOK'
    <2>1. refresh' \in [Callers -> BOOLEAN]
      BY <1>10, Zenon DEF AskRefreshes
    <2>2. connected' \in BOOLEAN /\ connecting' \in BOOLEAN
      BY <1>10, Zenon DEF AskRefreshes, EnsureConnected, connVars
    <2>4. dialing' \in Nat /\ pools' \in Nat
      BY <1>10 DEF AskRefreshes, EnsureConnected, connVars
    <2>3. pc' \in [Callers -> PCs]
      BY <1>10 DEF AskRefreshes, EnsureConnected
    <2> QED
      BY <1>10, <2>1, <2>2, <2>3, <2>4 DEF AskRefreshes, cacheVars, readVars
  <1>11. CASE Tick
    BY <1>11 DEF Tick, connVars, cacheVars, staleVars, readVars, callVars
  <1>12. CASE SchemaChanges
    BY <1>12 DEF SchemaChanges, connVars, cacheVars, staleVars, readVars, callVars
  <1>13. CASE UNCHANGED vars
    BY <1>13 DEF vars, connVars, cacheVars, staleVars, readVars, callVars
  <1> QED
    BY <1>1, <1>2, <1>3, <1>4, <1>5, <1>6, <1>7, <1>8, <1>9, <1>10, <1>11, <1>12, <1>13
    DEF Next, Connects, Progress

(* The engine's maps and its suspended calls are always well typed.         *)
THEOREM TypeCorrect == SafeSpec => []TypeOK
  BY TypeInitial, TypePreserved, PTL DEF SafeSpec

-----------------------------------------------------------------------------
(* CatalogInv is inductive.                                                 *)
LEMMA InvInitial == Init => CatalogInv
  BY EngineCatalogAssumption
  DEF EngineCatalogAssumption, Init, CatalogInv, ConnInv, ReadInv, VersionInv,
      StaleInv, RefreshIsFresh, OneReadPerGeneration

(* Each step, action by action and part by part, keeps it.                  *)
LEMMA InvPreserved == TypeOK /\ TypeOK' /\ CatalogInv /\ [Next]_vars => CatalogInv'
  <1> SUFFICES ASSUME TypeOK, TypeOK', CatalogInv, [Next]_vars PROVE CatalogInv'
    OBVIOUS
  <1> USE EngineCatalogAssumption
      DEF EngineCatalogAssumption, connVars, cacheVars, staleVars, readVars, callVars
  <1>1. ASSUME NEW c \in Callers, NEW k \in {"catalog", "ask"}, NEW r \in BOOLEAN, Call(c, k, r)
        PROVE  CatalogInv'
    <2>1. ConnInv'
      BY <1>1 DEF CatalogInv, TypeOK, ConnInv, Call, EnsureConnected
    <2>a. pc[c] # "read" /\ pc'[c] \in {"check", "connect"} /\ \A d \in Callers \ {c} : pc'[d] = pc[d]
      BY <1>1 DEF TypeOK, Call, EnsureConnected, Settled
    <2>b. waits[c] = None /\ read[c] = "none"
      BY <2>a DEF CatalogInv, ReadInv, TypeOK
    <2>c. \A d \in Callers \ {c} : refresh'[d] = refresh[d] /\ kind'[d] = kind[d] /\ floor'[d] = floor[d] /\ held'[d] = held[d]
      BY <1>1 DEF TypeOK, Call
    <2>d. floor'[c] = dbVersion /\ (kind'[c] = "ask" => ~refresh'[c])
      BY <1>1, Zenon DEF TypeOK, Call
    <2>e. UNCHANGED <<now, dbVersion, cacheVars, staleVars, readVars, waits>>
      BY <1>1 DEF Call
    <2>2. ReadInv'
      BY <2>a, <2>b, <2>c, <2>e DEF CatalogInv, TypeOK, ReadInv
    <2>3. VersionInv'
      BY <2>a, <2>b, <2>c, <2>d, <2>e DEF CatalogInv, TypeOK, VersionInv
    <2>4. StaleInv'
      BY <1>1 DEF CatalogInv, TypeOK, StaleInv, Call, EnsureConnected
    <2>5. RefreshIsFresh'
      BY <1>1 DEF CatalogInv, TypeOK, ReadInv, VersionInv, RefreshIsFresh, Call, EnsureConnected
    <2>6. OneReadPerGeneration'
      BY <1>1 DEF CatalogInv, TypeOK, ReadInv, OneReadPerGeneration, Call, EnsureConnected
    <2> QED BY <2>1, <2>2, <2>3, <2>4, <2>5, <2>6 DEF CatalogInv
  <1>2. ASSUME NEW ok \in BOOLEAN, ConnectSettles(ok)
        PROVE  CatalogInv'
    <2>1. ConnInv'
      BY <1>2 DEF CatalogInv, TypeOK, ConnInv, ConnectSettles
    <2>2. ReadInv'
      BY <1>2 DEF CatalogInv, TypeOK, ReadInv, ConnectSettles
    <2>3. VersionInv'
      BY <1>2 DEF CatalogInv, TypeOK, ReadInv, VersionInv, ConnectSettles
    <2>4. StaleInv'
      BY <1>2 DEF CatalogInv, TypeOK, StaleInv, ConnectSettles
    <2>5. RefreshIsFresh'
      BY <1>2 DEF CatalogInv, TypeOK, ReadInv, VersionInv, RefreshIsFresh, ConnectSettles
    <2>6. OneReadPerGeneration'
      BY <1>2 DEF CatalogInv, TypeOK, ReadInv, OneReadPerGeneration, ConnectSettles
    <2> QED BY <2>1, <2>2, <2>3, <2>4, <2>5, <2>6 DEF CatalogInv
  <1>3. ASSUME NEW c \in Callers, CatalogFromCache(c)
        PROVE  CatalogInv'
    <2>1. ConnInv'
      BY <1>3 DEF CatalogInv, TypeOK, ConnInv, CatalogFromCache, CacheValid, AfterCatalog
    <2>2. ReadInv'
      BY <1>3 DEF CatalogInv, TypeOK, ReadInv, CatalogFromCache, CacheValid, AfterCatalog
    <2>3. VersionInv'
      BY <1>3 DEF CatalogInv, TypeOK, ReadInv, VersionInv, CatalogFromCache, CacheValid, AfterCatalog
    <2>4. StaleInv'
      BY <1>3 DEF CatalogInv, TypeOK, StaleInv, CatalogFromCache, CacheValid, AfterCatalog
    <2>5. RefreshIsFresh'
      BY <1>3 DEF CatalogInv, TypeOK, ReadInv, VersionInv, RefreshIsFresh, CatalogFromCache, CacheValid, AfterCatalog
    <2>6. OneReadPerGeneration'
      BY <1>3 DEF CatalogInv, TypeOK, ReadInv, OneReadPerGeneration, CatalogFromCache, CacheValid, AfterCatalog
    <2> QED BY <2>1, <2>2, <2>3, <2>4, <2>5, <2>6 DEF CatalogInv
  <1>4. ASSUME NEW c \in Callers, JoinInflight(c)
        PROVE  CatalogInv'
    <2>1. ConnInv'
      BY <1>4 DEF CatalogInv, TypeOK, ConnInv, JoinInflight
    <2>2. ReadInv'
      BY <1>4 DEF CatalogInv, TypeOK, ReadInv, JoinInflight
    <2>3. VersionInv'
      BY <1>4 DEF CatalogInv, TypeOK, ReadInv, VersionInv, JoinInflight
    <2>4. StaleInv'
      BY <1>4 DEF CatalogInv, TypeOK, StaleInv, JoinInflight
    <2>5. RefreshIsFresh'
      BY <1>4 DEF CatalogInv, TypeOK, ReadInv, VersionInv, RefreshIsFresh, JoinInflight
    <2>6. OneReadPerGeneration'
      BY <1>4 DEF CatalogInv, TypeOK, ReadInv, OneReadPerGeneration, JoinInflight
    <2> QED BY <2>1, <2>2, <2>3, <2>4, <2>5, <2>6 DEF CatalogInv
  <1>5. ASSUME NEW c \in Callers, StartRead(c)
        PROVE  CatalogInv'
    <2>1. ConnInv'
      BY <1>5 DEF CatalogInv, TypeOK, ConnInv, StartRead
    <2>2. ReadInv'
      BY <1>5 DEF CatalogInv, TypeOK, ReadInv, StartRead
    <2>3. VersionInv'
      BY <1>5 DEF CatalogInv, TypeOK, ReadInv, VersionInv, StartRead
    <2>4. StaleInv'
      BY <1>5 DEF CatalogInv, TypeOK, StaleInv, StartRead
    <2>5. RefreshIsFresh'
      BY <1>5 DEF CatalogInv, TypeOK, ReadInv, VersionInv, RefreshIsFresh, StartRead
    <2>6. OneReadPerGeneration'
      BY <1>5 DEF CatalogInv, TypeOK, ReadInv, OneReadPerGeneration, StartRead
    <2> QED BY <2>1, <2>2, <2>3, <2>4, <2>5, <2>6 DEF CatalogInv
  <1>6. ASSUME NEW c \in Callers, Observe(c)
        PROVE  CatalogInv'
    <2>1. ConnInv'
      BY <1>6 DEF CatalogInv, TypeOK, ConnInv, Observe
    <2>2. ReadInv'
      BY <1>6 DEF CatalogInv, TypeOK, ReadInv, Observe
    <2>3. VersionInv'
      BY <1>6 DEF CatalogInv, TypeOK, ReadInv, VersionInv, Observe
    <2>4. StaleInv'
      BY <1>6 DEF CatalogInv, TypeOK, StaleInv, Observe
    <2>5. RefreshIsFresh'
      BY <1>6 DEF CatalogInv, TypeOK, ReadInv, VersionInv, RefreshIsFresh, Observe
    <2>6. OneReadPerGeneration'
      BY <1>6 DEF CatalogInv, TypeOK, ReadInv, OneReadPerGeneration, Observe
    <2> QED BY <2>1, <2>2, <2>3, <2>4, <2>5, <2>6 DEF CatalogInv
  <1>7. ASSUME NEW c \in Callers, NEW w \in BOOLEAN, ReadSucceeds(c, w)
        PROVE  CatalogInv'
    <2>1. ConnInv'
      BY <1>7 DEF CatalogInv, TypeOK, ConnInv, ReadSucceeds, WriteCache, Woken, ClearInflight, AfterCatalog
    <2>2. ReadInv'
      BY <1>7 DEF CatalogInv, TypeOK, ReadInv, ReadSucceeds, WriteCache, Woken, ClearInflight, AfterCatalog
    <2>3. VersionInv'
      BY <1>7 DEF CatalogInv, TypeOK, ReadInv, VersionInv, ReadSucceeds, WriteCache, Woken, ClearInflight, AfterCatalog
    <2>4. StaleInv'
      BY <1>7 DEF CatalogInv, TypeOK, StaleInv, ReadSucceeds, WriteCache, Woken, ClearInflight, AfterCatalog
    <2>5. RefreshIsFresh'
      BY <1>7 DEF CatalogInv, TypeOK, ReadInv, VersionInv, RefreshIsFresh, ReadSucceeds, WriteCache, Woken, ClearInflight, AfterCatalog
    <2>6. OneReadPerGeneration'
      BY <1>7 DEF CatalogInv, TypeOK, ReadInv, OneReadPerGeneration, ReadSucceeds, WriteCache, Woken, ClearInflight, AfterCatalog
    <2> QED BY <2>1, <2>2, <2>3, <2>4, <2>5, <2>6 DEF CatalogInv
  <1>8. ASSUME NEW c \in Callers, ReadFails(c)
        PROVE  CatalogInv'
    <2>1. ConnInv'
      BY <1>8 DEF CatalogInv, TypeOK, ConnInv, ReadFails, Woken, ClearInflight, AfterFailure
    <2>2. ReadInv'
      BY <1>8 DEF CatalogInv, TypeOK, ReadInv, ReadFails, Woken, ClearInflight, AfterFailure
    <2>3. VersionInv'
      BY <1>8 DEF CatalogInv, TypeOK, ReadInv, VersionInv, ReadFails, Woken, ClearInflight, AfterFailure
    <2>4. StaleInv'
      BY <1>8 DEF CatalogInv, TypeOK, StaleInv, ReadFails, Woken, ClearInflight, AfterFailure
    <2>5. RefreshIsFresh'
      BY <1>8 DEF CatalogInv, TypeOK, ReadInv, VersionInv, RefreshIsFresh, ReadFails, Woken, ClearInflight, AfterFailure
    <2>6. OneReadPerGeneration'
      BY <1>8 DEF CatalogInv, TypeOK, ReadInv, OneReadPerGeneration, ReadFails, Woken, ClearInflight, AfterFailure
    <2> QED BY <2>1, <2>2, <2>3, <2>4, <2>5, <2>6 DEF CatalogInv
  <1>9. ASSUME NEW c \in Callers, AskKeepsCatalog(c)
        PROVE  CatalogInv'
    <2>1. ConnInv'
      BY <1>9 DEF CatalogInv, TypeOK, ConnInv, AskKeepsCatalog
    <2>2. ReadInv'
      BY <1>9 DEF CatalogInv, TypeOK, ReadInv, AskKeepsCatalog
    <2>3. VersionInv'
      BY <1>9 DEF CatalogInv, TypeOK, ReadInv, VersionInv, AskKeepsCatalog
    <2>4. StaleInv'
      BY <1>9 DEF CatalogInv, TypeOK, StaleInv, AskKeepsCatalog
    <2>5. RefreshIsFresh'
      BY <1>9 DEF CatalogInv, TypeOK, ReadInv, VersionInv, RefreshIsFresh, AskKeepsCatalog
    <2>6. OneReadPerGeneration'
      BY <1>9 DEF CatalogInv, TypeOK, ReadInv, OneReadPerGeneration, AskKeepsCatalog
    <2> QED BY <2>1, <2>2, <2>3, <2>4, <2>5, <2>6 DEF CatalogInv
  <1>10. ASSUME NEW c \in Callers, AskRefreshes(c)
        PROVE  CatalogInv'
    <2>1. ConnInv'
      BY <1>10 DEF CatalogInv, TypeOK, ConnInv, AskRefreshes, EnsureConnected, MayRefreshForStaleness
    <2>2. ReadInv'
      BY <1>10 DEF CatalogInv, TypeOK, ReadInv, AskRefreshes, EnsureConnected, MayRefreshForStaleness
    <2>3. VersionInv'
      BY <1>10 DEF CatalogInv, TypeOK, ReadInv, VersionInv, AskRefreshes, EnsureConnected, MayRefreshForStaleness
    <2>4. StaleInv'
      BY <1>10 DEF CatalogInv, TypeOK, StaleInv, AskRefreshes, EnsureConnected, MayRefreshForStaleness
    <2>5. RefreshIsFresh'
      BY <1>10 DEF CatalogInv, TypeOK, ReadInv, VersionInv, RefreshIsFresh, AskRefreshes, EnsureConnected, MayRefreshForStaleness
    <2>6. OneReadPerGeneration'
      BY <1>10 DEF CatalogInv, TypeOK, ReadInv, OneReadPerGeneration, AskRefreshes, EnsureConnected, MayRefreshForStaleness
    <2> QED BY <2>1, <2>2, <2>3, <2>4, <2>5, <2>6 DEF CatalogInv
  <1>11. CASE Tick
    <2>1. ConnInv'
      BY <1>11 DEF CatalogInv, TypeOK, ConnInv, Tick
    <2>2. ReadInv'
      BY <1>11 DEF CatalogInv, TypeOK, ReadInv, Tick
    <2>3. VersionInv'
      BY <1>11 DEF CatalogInv, TypeOK, ReadInv, VersionInv, Tick
    <2>4. StaleInv'
      BY <1>11 DEF CatalogInv, TypeOK, StaleInv, Tick
    <2>5. RefreshIsFresh'
      BY <1>11 DEF CatalogInv, TypeOK, ReadInv, VersionInv, RefreshIsFresh, Tick
    <2>6. OneReadPerGeneration'
      BY <1>11 DEF CatalogInv, TypeOK, ReadInv, OneReadPerGeneration, Tick
    <2> QED BY <2>1, <2>2, <2>3, <2>4, <2>5, <2>6 DEF CatalogInv
  <1>12. CASE SchemaChanges
    <2>1. ConnInv'
      BY <1>12 DEF CatalogInv, TypeOK, ConnInv, SchemaChanges
    <2>2. ReadInv'
      BY <1>12 DEF CatalogInv, TypeOK, ReadInv, SchemaChanges
    <2>3. VersionInv'
      BY <1>12 DEF CatalogInv, TypeOK, ReadInv, VersionInv, SchemaChanges
    <2>4. StaleInv'
      BY <1>12 DEF CatalogInv, TypeOK, StaleInv, SchemaChanges
    <2>5. RefreshIsFresh'
      BY <1>12 DEF CatalogInv, TypeOK, ReadInv, VersionInv, RefreshIsFresh, SchemaChanges
    <2>6. OneReadPerGeneration'
      BY <1>12 DEF CatalogInv, TypeOK, ReadInv, OneReadPerGeneration, SchemaChanges
    <2> QED BY <2>1, <2>2, <2>3, <2>4, <2>5, <2>6 DEF CatalogInv
  <1>13. CASE UNCHANGED vars
    <2>1. ConnInv'
      BY <1>13 DEF CatalogInv, TypeOK, ConnInv, vars
    <2>2. ReadInv'
      BY <1>13 DEF CatalogInv, TypeOK, ReadInv, vars
    <2>3. VersionInv'
      BY <1>13 DEF CatalogInv, TypeOK, ReadInv, VersionInv, vars
    <2>4. StaleInv'
      BY <1>13 DEF CatalogInv, TypeOK, StaleInv, vars
    <2>5. RefreshIsFresh'
      BY <1>13 DEF CatalogInv, TypeOK, ReadInv, VersionInv, RefreshIsFresh, vars
    <2>6. OneReadPerGeneration'
      BY <1>13 DEF CatalogInv, TypeOK, ReadInv, OneReadPerGeneration, vars
    <2> QED BY <2>1, <2>2, <2>3, <2>4, <2>5, <2>6 DEF CatalogInv
  <1> QED
    BY <1>1, <1>2, <1>3, <1>4, <1>5, <1>6, <1>7, <1>8, <1>9, <1>10, <1>11, <1>12, <1>13
    DEF Next, Connects, Progress

(* The maps and the promises their callers await stay coupled (getCatalog,  *)
(* ensureConnected, ask): the strengthening every theorem below rests on.   *)
THEOREM InvCorrect == SafeSpec => []CatalogInv
  BY TypeCorrect, InvInitial, InvPreserved, PTL DEF SafeSpec

-----------------------------------------------------------------------------
(* However many first operations race, one pool is built (ensureConnected). *)
THEOREM OnePoolCorrect == SafeSpec => []OnePool
  <1>1. TypeOK /\ CatalogInv => OnePool
    BY DEF TypeOK, CatalogInv, ConnInv, OnePool
  <1> QED BY <1>1, TypeCorrect, InvCorrect, PTL

(* The inflight map never holds a promise that has settled (getCatalog).    *)
THEOREM InflightCorrect == SafeSpec => []InflightIsRunning
  <1>1. TypeOK /\ CatalogInv => InflightIsRunning
    BY DEF TypeOK, CatalogInv, ReadInv, InflightIsRunning
  <1> QED BY <1>1, TypeCorrect, InvCorrect, PTL

(* Two reads of one generation never run at once (getCatalog).              *)
THEOREM OneReadCorrect == SafeSpec => []OneReadPerGeneration
  <1>1. CatalogInv => OneReadPerGeneration
    BY DEF CatalogInv
  <1> QED BY <1>1, InvCorrect, PTL

(* Any number of racing callers share one connect and one read of a         *)
(* generation.                                                              *)
THEOREM SharedCorrect == SafeSpec => []WorkIsShared
  <1>1. OnePool /\ OneReadPerGeneration => WorkIsShared
    BY DEF WorkIsShared
  <1> QED BY <1>1, OnePoolCorrect, OneReadCorrect, PTL

(* At most one staleness re-read per cooldown window, whatever its length   *)
(* (mayRefreshForStaleness).                                                *)
THEOREM StaleReadsCorrect == SafeSpec => []StaleReadsAreRare
  <1>1. TypeOK /\ CatalogInv => StaleReadsAreRare
    <2> SUFFICES ASSUME TypeOK, CatalogInv PROVE StaleReadsAreRare
      OBVIOUS
    <2> DEFINE windows == staleReads * STALE_REFRESH_COOLDOWN
    <2>1. windows \in Nat /\ windows <= staleRefreshAt /\ staleRefreshAt <= now
      BY EngineCatalogAssumption
      DEF EngineCatalogAssumption, TypeOK, CatalogInv, StaleInv
    <2>2. windows <= now
      <3> HIDE DEF windows
      <3> QED BY <2>1 DEF TypeOK
    <2> QED BY <2>2 DEF StaleReadsAreRare
  <1> QED BY <1>1, TypeCorrect, InvCorrect, PTL

(* A forced refresh never answers with a schema older than its call.        *)
THEOREM RefreshCorrect == SafeSpec => []RefreshIsFresh
  <1>1. CatalogInv => RefreshIsFresh
    BY DEF CatalogInv
  <1> QED BY <1>1, InvCorrect, PTL

(* Every catalog handed out is one the database had (getCatalog, ask).      *)
THEOREM AnswersCorrect == SafeSpec => []AnswersAreReal
  <1>1. CatalogInv => AnswersAreReal
    BY DEF CatalogInv, VersionInv, AnswersAreReal
  <1> QED BY <1>1, InvCorrect, PTL

(* A slow read that a refresh overtook never reinstates an older schema:    *)
(* the cached version only grows (the generation test of getCatalog).       *)
THEOREM CacheCorrect == SafeSpec => CacheNeverRegresses
  <1>1. TypeOK /\ CatalogInv /\ [Next]_vars => [cache'.v >= cache.v]_vars
    <2> SUFFICES ASSUME TypeOK, CatalogInv, Next PROVE cache'.v >= cache.v
      BY DEF TypeOK
    <2>1. ASSUME NEW c \in Callers, NEW w \in BOOLEAN, ReadSucceeds(c, w)
          PROVE  cache'.v >= cache.v
      BY <2>1 DEF TypeOK, CatalogInv, VersionInv, ReadSucceeds, WriteCache
    <2>2. CASE cache' = cache
      BY <2>2 DEF TypeOK
    <2> QED
      BY <2>1, <2>2 DEF Next, Connects, Progress, Call, ConnectSettles,
         CatalogFromCache, JoinInflight, StartRead, Observe, ReadFails,
         AskKeepsCatalog, AskRefreshes, Tick, SchemaChanges, cacheVars
  <1> QED BY <1>1, TypeCorrect, InvCorrect, PTL DEF SafeSpec, CacheNeverRegresses

=============================================================================
