-------------------------- MODULE SessionStoreProofs --------------------------
(***************************************************************************)
(* Proofs about SessionStore for every number of sessions, instances,      *)
(* writers and readers, and for every choice of failing statements.        *)
(***************************************************************************)
EXTENDS SessionStore, FiniteSetTheorems, TLAPS

\* The rows of a session are finitely many, and can be counted.
LEMMA RowsFinite == ASSUME NEW s PROVE IsFiniteSet(RowsOf(s))
  BY FS_Subset, StoreAssumption, RowsOf(s) \subseteq Instances DEF RowsOf

LEMMA RowsCount == ASSUME NEW s PROVE Cardinality(RowsOf(s)) \in Nat
  BY RowsFinite, FS_CardinalityType

\* So can the writers on their way to the lock.
LEMMA UncountedFinite == ASSUME NEW i PROVE IsFiniteSet(Uncounted(i))
  BY FS_Subset, StoreAssumption, Uncounted(i) \subseteq Writers DEF Uncounted

\* Every step keeps the shape of every variable.
LEMMA TypeStep == StoreInv /\ [Next]_vars => TypeOK'
  <1> SUFFICES ASSUME TypeOK, HolderInv, StmtInv, [Next]_vars PROVE TypeOK'
    BY DEF StoreInv
  <1> USE DEF TypeOK, MuOps, disk, runMem, callers
  <1>1. ASSUME NEW s \in Sessions, CreateSessionFile(s) PROVE TypeOK'
    BY <1>1 DEF CreateSessionFile
  <1>2. ASSUME NEW s \in Sessions, CreateSessionIndex(s) PROVE TypeOK'
    BY <1>2 DEF CreateSessionIndex, AddSession
  <1>3. ASSUME NEW i \in Instances, NEW s \in Sessions, StartOpen(i, s) PROVE TypeOK'
    BY <1>3 DEF StartOpen, ActiveIn
  <1>4. CASE StartInsert
    <2>1. mu' \in [op : MuOps, inst : Instances \cup {NoInstance},
                  sess : Sessions \cup {NoSession}]
      BY <1>4, SMTT(30) DEF StartInsert, StartReturnsError, Free
    <2>2. /\ file' \in [Sessions -> {"absent", "bare", "ready"}]
          /\ row' \in [Instances -> {"none", "open", "stopped", "deleted"}]
      BY <1>4 DEF StartInsert, StartReturnsError, Touched
    <2>3. /\ home' \in [Instances -> Sessions \cup {NoSession}]
          /\ openDBs' \subseteq Instances
      BY <1>4 DEF StartInsert, StartReturnsError
    <2>4. startErr' \subseteq Instances
      BY <1>4 DEF StartInsert, StartReturnsError, HolderInv, Starting, Unused, Untouched
    <2>5. QED
      BY <1>4, <2>1, <2>2, <2>3, <2>4 DEF StartInsert
  <1>5. CASE StartActivate
    <2>1. mu' \in [op : MuOps, inst : Instances \cup {NoInstance},
                  sess : Sessions \cup {NoSession}]
      BY <1>5 DEF StartActivate, StartReturnsError, Free
    <2>2. /\ activeRuns' \subseteq Instances
          /\ openDBs' \subseteq Instances
          /\ startErr' \subseteq Instances
      BY <1>5 DEF StartActivate, StartReturnsError, HolderInv, Starting
    <2>3. insertStmt' \in [Instances -> {"none", "open", "closed"}]
      BY <1>5 DEF StartActivate
    <2>4. QED
      BY <1>5, <2>1, <2>2, <2>3 DEF StartActivate
  <1>6. CASE StartIndex
    <2>1. runCount' \in [Sessions -> Nat]
      BY <1>6 DEF StartIndex, NextRunCount
    <2>2. startErr' \subseteq Instances
      BY <1>6 DEF StartIndex, HolderInv
    <2>3. QED
      BY <1>6, <2>1, <2>2 DEF StartIndex, Free
  <1>7. ASSUME NEW w \in Writers, NEW i \in Instances, WriteLookup(w, i) PROVE TypeOK'
    BY <1>7 DEF WriteLookup
  <1>8. ASSUME NEW w \in Writers, WriteExec(w) PROVE TypeOK'
    <2>1. writer[w].inst \in Instances
      BY <1>8 DEF WriteExec, StmtInv
    <2>2. stored' \in [Instances -> Nat]
      BY <1>8, <2>1 DEF WriteExec
    <2>3. writer' \in [Writers -> [pc : {"idle", "exec", "count"},
                                  inst : Instances \cup {NoInstance}]]
      BY <1>8, <2>1 DEF WriteExec, IdleWriter
    <2>4. QED
      BY <1>8, <2>2, <2>3 DEF WriteExec
  <1>9. ASSUME NEW w \in Writers, WriteCount(w) PROVE TypeOK'
    <2>1. eventCount' \in [Instances -> Nat]
      <3>1. writer[w].inst \in Instances
        BY <1>9 DEF WriteCount, StmtInv
      <3>2. QED
        BY <1>9, <3>1 DEF WriteCount
    <2>2. QED
      BY <1>9, <2>1 DEF WriteCount, IdleWriter
  <1>10. ASSUME NEW i \in Instances, StopRequest(i) PROVE TypeOK'
    BY <1>10 DEF StopRequest
  <1>11. ASSUME NEW i \in Instances, StopFinalize(i) PROVE TypeOK'
    <2>1. rowCount' \in [Instances -> Nat]
      BY <1>11 DEF StopFinalize, FinalCount
    <2>2. /\ row' \in [Instances -> {"none", "open", "stopped", "deleted"}]
          /\ stopCall' \in [Instances -> {"no", "pending", "returned"}]
      BY <1>11, ZenonT(40) DEF StopFinalize
    <2>3. mu' \in [op : MuOps, inst : Instances \cup {NoInstance},
                  sess : Sessions \cup {NoSession}]
      BY <1>11 DEF StopFinalize
    <2>4. QED
      BY <1>11, <2>1, <2>2, <2>3 DEF StopFinalize
  <1>12. CASE StopStmt
    BY <1>12 DEF StopStmt
  <1>13. CASE StopIndex
    BY <1>13 DEF StopIndex, Free, ClosesDB
  <1>14. ASSUME NEW s \in Sessions, DeleteIndex(s) PROVE TypeOK'
    BY <1>14 DEF DeleteIndex, IndexWithout
  <1>15. CASE DeleteFile
    BY <1>15 DEF DeleteFile, Free
  <1>16. ASSUME NEW r \in Readers, NEW s \in Sessions, ReadLookup(r, s) PROVE TypeOK'
    BY <1>16 DEF ReadLookup, ActiveIn
  <1>17. ASSUME NEW r \in Readers, ReadUse(r) PROVE TypeOK'
    BY <1>17 DEF ReadUse, Touched, IdleReader
  <1>18. CASE VerifyReadDir
    BY <1>18 DEF VerifyReadDir, Free
  <1>19. CASE VerifyListAll
    BY <1>19 DEF VerifyListAll
  <1>20. ASSUME NEW s \in Sessions, VerifyRemove(s) PROVE TypeOK'
    BY <1>20 DEF VerifyRemove, IndexWithout
  <1>21. ASSUME NEW s \in Sessions, VerifyAdd(s) PROVE TypeOK'
    BY <1>21, RowsCount DEF VerifyAdd, AddSession
  <1>22. CASE VerifyDone
    BY <1>22 DEF VerifyDone, Free, NoVerify
  <1>23. CASE Crash
    BY <1>23 DEF Crash, Free, IdleWriter, IdleReader, NoVerify
  <1>24. CASE UNCHANGED vars
    BY <1>24 DEF vars
  <1>25. QED
    BY <1>1, <1>2, <1>3, <1>4, <1>5, <1>6, <1>7, <1>8, <1>9, <1>10, <1>11, <1>12, <1>13, <1>14, <1>15, <1>16, <1>17, <1>18, <1>19, <1>20, <1>21, <1>22, <1>23, <1>24 DEF Next
-----------------------------------------------------------------------------
(* One lemma per part of the inductive invariant *)

LEMMA HolderInvStep == StoreInv /\ [Next]_vars => HolderInv'
  <1> SUFFICES ASSUME TypeOK, HolderInv, FreshInv, RowInv, StmtInv, ConnInv,
                      CountAccounting, [Next]_vars PROVE HolderInv'
    BY DEF StoreInv
  <1> USE DEF TypeOK, disk, runMem, callers
  <1>1. ASSUME NEW s \in Sessions, CreateSessionFile(s) PROVE HolderInv'
    BY <1>1 DEF CreateSessionFile, Free, HolderInv, Unused, Untouched, Starting, Stopping, ActiveIn, FreshInv
  <1>2. ASSUME NEW s \in Sessions, CreateSessionIndex(s) PROVE HolderInv'
    BY <1>2 DEF CreateSessionIndex, AddSession, Free, HolderInv, Unused, Untouched, Starting, Stopping, ActiveIn, FreshInv
  <1>3. ASSUME NEW i \in Instances, NEW s \in Sessions, StartOpen(i, s) PROVE HolderInv'
    BY <1>3 DEF StartOpen, ActiveIn, Free, HolderInv, Unused, Untouched, Starting, Stopping, FreshInv
  <1>4. CASE StartInsert
    BY <1>4 DEF StartInsert, StartReturnsError, Touched, Free, HolderInv, Unused, Untouched, Starting, Stopping, ActiveIn, FreshInv
  <1>5. CASE StartActivate
    BY <1>5 DEF StartActivate, StartReturnsError, Free, HolderInv, Unused, Untouched, Starting, Stopping, ActiveIn, FreshInv
  <1>6. CASE StartIndex
    BY <1>6 DEF StartIndex, NextRunCount, Free, HolderInv, Unused, Untouched, Starting, Stopping, ActiveIn, FreshInv
  <1>7. ASSUME NEW w \in Writers, NEW i \in Instances, WriteLookup(w, i) PROVE HolderInv'
    BY <1>7 DEF WriteLookup, Free, HolderInv, Unused, Untouched, Starting, Stopping, ActiveIn, FreshInv
  <1>8. ASSUME NEW w \in Writers, WriteExec(w) PROVE HolderInv'
    BY <1>8 DEF WriteExec, IdleWriter, Free, HolderInv, Unused, Untouched, Starting, Stopping, ActiveIn, FreshInv
  <1>9. ASSUME NEW w \in Writers, WriteCount(w) PROVE HolderInv'
    BY <1>9 DEF WriteCount, IdleWriter, Free, HolderInv, Unused, Untouched, Starting, Stopping, ActiveIn, FreshInv
  <1>10. ASSUME NEW i \in Instances, StopRequest(i) PROVE HolderInv'
    BY <1>10 DEF StopRequest, Free, HolderInv, Unused, Untouched, Starting, Stopping, ActiveIn, FreshInv
  <1>11. ASSUME NEW i \in Instances, StopFinalize(i) PROVE HolderInv'
    BY <1>11 DEF StopFinalize, FinalCount, Free, HolderInv, Unused, Untouched, Starting, Stopping, ActiveIn, FreshInv, RowInv
  <1>12. CASE StopStmt
    BY <1>12 DEF StopStmt, Free, HolderInv, Unused, Untouched, Starting, Stopping, ActiveIn, FreshInv
  <1>13. CASE StopIndex
    BY <1>13 DEF StopIndex, Free, ClosesDB, HolderInv, Unused, Untouched, Starting, Stopping, ActiveIn, FreshInv
  <1>14. ASSUME NEW s \in Sessions, DeleteIndex(s) PROVE HolderInv'
    BY <1>14 DEF DeleteIndex, IndexWithout, Free, HolderInv, Unused, Untouched, Starting, Stopping, ActiveIn, FreshInv, Deletable
  <1>15. CASE DeleteFile
    BY <1>15 DEF DeleteFile, Free, HolderInv, Unused, Untouched, Starting, Stopping, ActiveIn, FreshInv
  <1>16. ASSUME NEW r \in Readers, NEW s \in Sessions, ReadLookup(r, s) PROVE HolderInv'
    BY <1>16 DEF ReadLookup, ActiveIn, Free, HolderInv, Unused, Untouched, Starting, Stopping, FreshInv
  <1>17. ASSUME NEW r \in Readers, ReadUse(r) PROVE HolderInv'
    BY <1>17 DEF ReadUse, Touched, IdleReader, Free, HolderInv, Unused, Untouched, Starting, Stopping, ActiveIn, FreshInv
  <1>18. CASE VerifyReadDir
    BY <1>18 DEF VerifyReadDir, Free, HolderInv, Unused, Untouched, Starting, Stopping, ActiveIn, FreshInv
  <1>19. CASE VerifyListAll
    BY <1>19 DEF VerifyListAll, Free, HolderInv, Unused, Untouched, Starting, Stopping, ActiveIn, FreshInv
  <1>20. ASSUME NEW s \in Sessions, VerifyRemove(s) PROVE HolderInv'
    BY <1>20 DEF VerifyRemove, IndexWithout, Free, HolderInv, Unused, Untouched, Starting, Stopping, ActiveIn, FreshInv
  <1>21. ASSUME NEW s \in Sessions, VerifyAdd(s) PROVE HolderInv'
    BY <1>21 DEF VerifyAdd, AddSession, Free, HolderInv, Unused, Untouched, Starting, Stopping, ActiveIn, FreshInv
  <1>22. CASE VerifyDone
    BY <1>22 DEF VerifyDone, Free, NoVerify, HolderInv, Unused, Untouched, Starting, Stopping, ActiveIn, FreshInv
  <1>23. CASE Crash
    BY <1>23 DEF Crash, Free, IdleWriter, IdleReader, NoVerify, HolderInv, Unused, Untouched, Starting, Stopping, ActiveIn, FreshInv
  <1>24. CASE UNCHANGED vars
    BY <1>24 DEF vars, HolderInv, Unused, Untouched, Starting, Stopping, ActiveIn, FreshInv
  <1>25. QED
    BY <1>1, <1>2, <1>3, <1>4, <1>5, <1>6, <1>7, <1>8, <1>9, <1>10, <1>11, <1>12, <1>13, <1>14, <1>15, <1>16, <1>17, <1>18, <1>19, <1>20, <1>21, <1>22, <1>23, <1>24 DEF Next

LEMMA FreshInvStep == StoreInv /\ [Next]_vars => FreshInv'
  <1> SUFFICES ASSUME TypeOK, HolderInv, FreshInv, RowInv, StmtInv, ConnInv,
                      CountAccounting, [Next]_vars PROVE FreshInv'
    BY DEF StoreInv
  <1> USE DEF TypeOK, disk, runMem, callers
  <1>1. ASSUME NEW s \in Sessions, CreateSessionFile(s) PROVE FreshInv'
    BY <1>1 DEF CreateSessionFile, Free, FreshInv, Unused, Untouched, HolderInv, StmtInv
  <1>2. ASSUME NEW s \in Sessions, CreateSessionIndex(s) PROVE FreshInv'
    BY <1>2 DEF CreateSessionIndex, AddSession, Free, FreshInv, Unused, Untouched, HolderInv, StmtInv
  <1>3. ASSUME NEW i \in Instances, NEW s \in Sessions, StartOpen(i, s) PROVE FreshInv'
    BY <1>3 DEF StartOpen, ActiveIn, Free, FreshInv, Unused, Untouched, HolderInv, StmtInv
  <1>4. CASE StartInsert
    BY <1>4 DEF StartInsert, StartReturnsError, Touched, Free, FreshInv, Unused, Untouched, HolderInv, StmtInv, Starting
  <1>5. CASE StartActivate
    BY <1>5 DEF StartActivate, StartReturnsError, Free, FreshInv, Unused, Untouched, HolderInv, StmtInv
  <1>6. CASE StartIndex
    BY <1>6 DEF StartIndex, NextRunCount, Free, FreshInv, Unused, Untouched, HolderInv, StmtInv
  <1>7. ASSUME NEW w \in Writers, NEW i \in Instances, WriteLookup(w, i) PROVE FreshInv'
    BY <1>7 DEF WriteLookup, Free, FreshInv, Unused, Untouched, HolderInv, StmtInv
  <1>8. ASSUME NEW w \in Writers, WriteExec(w) PROVE FreshInv'
    BY <1>8 DEF WriteExec, IdleWriter, Free, FreshInv, Unused, Untouched, HolderInv, StmtInv
  <1>9. ASSUME NEW w \in Writers, WriteCount(w) PROVE FreshInv'
    BY <1>9 DEF WriteCount, IdleWriter, Free, FreshInv, Unused, Untouched, HolderInv, StmtInv
  <1>10. ASSUME NEW i \in Instances, StopRequest(i) PROVE FreshInv'
    BY <1>10 DEF StopRequest, Free, FreshInv, Unused, Untouched, HolderInv, StmtInv
  <1>11. ASSUME NEW i \in Instances, StopFinalize(i) PROVE FreshInv'
    BY <1>11 DEF StopFinalize, FinalCount, Free, FreshInv, Unused, Untouched, HolderInv, StmtInv
  <1>12. CASE StopStmt
    BY <1>12 DEF StopStmt, Free, FreshInv, Unused, Untouched, HolderInv, StmtInv, Stopping
  <1>13. CASE StopIndex
    BY <1>13 DEF StopIndex, Free, ClosesDB, FreshInv, Unused, Untouched, HolderInv, StmtInv
  <1>14. ASSUME NEW s \in Sessions, DeleteIndex(s) PROVE FreshInv'
    BY <1>14 DEF DeleteIndex, IndexWithout, Free, FreshInv, Unused, Untouched, HolderInv, StmtInv
  <1>15. CASE DeleteFile
    BY <1>15 DEF DeleteFile, Free, FreshInv, Unused, Untouched, HolderInv, StmtInv, RowsOf
  <1>16. ASSUME NEW r \in Readers, NEW s \in Sessions, ReadLookup(r, s) PROVE FreshInv'
    BY <1>16 DEF ReadLookup, ActiveIn, Free, FreshInv, Unused, Untouched, HolderInv, StmtInv
  <1>17. ASSUME NEW r \in Readers, ReadUse(r) PROVE FreshInv'
    BY <1>17 DEF ReadUse, Touched, IdleReader, Free, FreshInv, Unused, Untouched, HolderInv, StmtInv
  <1>18. CASE VerifyReadDir
    BY <1>18 DEF VerifyReadDir, Free, FreshInv, Unused, Untouched, HolderInv, StmtInv
  <1>19. CASE VerifyListAll
    BY <1>19 DEF VerifyListAll, Free, FreshInv, Unused, Untouched, HolderInv, StmtInv
  <1>20. ASSUME NEW s \in Sessions, VerifyRemove(s) PROVE FreshInv'
    BY <1>20 DEF VerifyRemove, IndexWithout, Free, FreshInv, Unused, Untouched, HolderInv, StmtInv
  <1>21. ASSUME NEW s \in Sessions, VerifyAdd(s) PROVE FreshInv'
    BY <1>21 DEF VerifyAdd, AddSession, Free, FreshInv, Unused, Untouched, HolderInv, StmtInv
  <1>22. CASE VerifyDone
    BY <1>22 DEF VerifyDone, Free, NoVerify, FreshInv, Unused, Untouched, HolderInv, StmtInv
  <1>23. CASE Crash
    BY <1>23 DEF Crash, Free, IdleWriter, IdleReader, NoVerify, FreshInv, Unused, Untouched, HolderInv, StmtInv
  <1>24. CASE UNCHANGED vars
    BY <1>24 DEF vars, FreshInv, Unused, Untouched, HolderInv, StmtInv
  <1>25. QED
    BY <1>1, <1>2, <1>3, <1>4, <1>5, <1>6, <1>7, <1>8, <1>9, <1>10, <1>11, <1>12, <1>13, <1>14, <1>15, <1>16, <1>17, <1>18, <1>19, <1>20, <1>21, <1>22, <1>23, <1>24 DEF Next

LEMMA RowInvStep == StoreInv /\ [Next]_vars => RowInv'
  <1> SUFFICES ASSUME TypeOK, HolderInv, FreshInv, RowInv, StmtInv, ConnInv,
                      CountAccounting, [Next]_vars PROVE RowInv'
    BY DEF StoreInv
  <1> USE DEF TypeOK, disk, runMem, callers
  <1>1. ASSUME NEW s \in Sessions, CreateSessionFile(s) PROVE RowInv'
    BY <1>1 DEF CreateSessionFile, Free, RowInv, HolderInv, FreshInv, Unused, Untouched, Starting, Stopping, ActiveIn, RowsOf
  <1>2. ASSUME NEW s \in Sessions, CreateSessionIndex(s) PROVE RowInv'
    BY <1>2 DEF CreateSessionIndex, AddSession, Free, RowInv, HolderInv, FreshInv, Unused, Untouched, Starting, Stopping, ActiveIn, RowsOf
  <1>3. ASSUME NEW i \in Instances, NEW s \in Sessions, StartOpen(i, s) PROVE RowInv'
    BY <1>3 DEF StartOpen, ActiveIn, Free, RowInv, HolderInv, FreshInv, Unused, Untouched, Starting, Stopping, RowsOf
  <1>4. CASE StartInsert
    BY <1>4 DEF StartInsert, StartReturnsError, Touched, Free, RowInv, HolderInv, FreshInv, Unused, Untouched, Starting, Stopping, ActiveIn, RowsOf
  <1>5. CASE StartActivate
    BY <1>5 DEF StartActivate, StartReturnsError, Free, RowInv, HolderInv, FreshInv, Unused, Untouched, Starting, Stopping, ActiveIn, RowsOf
  <1>6. CASE StartIndex
    BY <1>6 DEF StartIndex, NextRunCount, Free, RowInv, HolderInv, FreshInv, Unused, Untouched, Starting, Stopping, ActiveIn, RowsOf
  <1>7. ASSUME NEW w \in Writers, NEW i \in Instances, WriteLookup(w, i) PROVE RowInv'
    BY <1>7 DEF WriteLookup, Free, RowInv, HolderInv, FreshInv, Unused, Untouched, Starting, Stopping, ActiveIn, RowsOf
  <1>8. ASSUME NEW w \in Writers, WriteExec(w) PROVE RowInv'
    BY <1>8 DEF WriteExec, IdleWriter, Free, RowInv, HolderInv, FreshInv, Unused, Untouched, Starting, Stopping, ActiveIn, RowsOf
  <1>9. ASSUME NEW w \in Writers, WriteCount(w) PROVE RowInv'
    BY <1>9 DEF WriteCount, IdleWriter, Free, RowInv, HolderInv, FreshInv, Unused, Untouched, Starting, Stopping, ActiveIn, RowsOf
  <1>10. ASSUME NEW i \in Instances, StopRequest(i) PROVE RowInv'
    BY <1>10 DEF StopRequest, Free, RowInv, HolderInv, FreshInv, Unused, Untouched, Starting, Stopping, ActiveIn, RowsOf
  <1>11. ASSUME NEW i \in Instances, StopFinalize(i) PROVE RowInv'
    BY <1>11 DEF StopFinalize, FinalCount, Free, RowInv, HolderInv, FreshInv, Unused, Untouched, Starting, Stopping, ActiveIn, RowsOf
  <1>12. CASE StopStmt
    BY <1>12 DEF StopStmt, Free, RowInv, HolderInv, FreshInv, Unused, Untouched, Starting, Stopping, ActiveIn, RowsOf
  <1>13. CASE StopIndex
    BY <1>13 DEF StopIndex, Free, ClosesDB, RowInv, HolderInv, FreshInv, Unused, Untouched, Starting, Stopping, ActiveIn, RowsOf
  <1>14. ASSUME NEW s \in Sessions, DeleteIndex(s) PROVE RowInv'
    BY <1>14 DEF DeleteIndex, IndexWithout, Free, RowInv, HolderInv, FreshInv, Unused, Untouched, Starting, Stopping, ActiveIn, RowsOf
  <1>15. CASE DeleteFile
    BY <1>15 DEF DeleteFile, Free, RowInv, HolderInv, FreshInv, Unused, Untouched, Starting, Stopping, ActiveIn, RowsOf
  <1>16. ASSUME NEW r \in Readers, NEW s \in Sessions, ReadLookup(r, s) PROVE RowInv'
    BY <1>16 DEF ReadLookup, ActiveIn, Free, RowInv, HolderInv, FreshInv, Unused, Untouched, Starting, Stopping, RowsOf
  <1>17. ASSUME NEW r \in Readers, ReadUse(r) PROVE RowInv'
    BY <1>17 DEF ReadUse, Touched, IdleReader, Free, RowInv, HolderInv, FreshInv, Unused, Untouched, Starting, Stopping, ActiveIn, RowsOf
  <1>18. CASE VerifyReadDir
    BY <1>18 DEF VerifyReadDir, Free, RowInv, HolderInv, FreshInv, Unused, Untouched, Starting, Stopping, ActiveIn, RowsOf
  <1>19. CASE VerifyListAll
    BY <1>19 DEF VerifyListAll, Free, RowInv, HolderInv, FreshInv, Unused, Untouched, Starting, Stopping, ActiveIn, RowsOf
  <1>20. ASSUME NEW s \in Sessions, VerifyRemove(s) PROVE RowInv'
    BY <1>20 DEF VerifyRemove, IndexWithout, Free, RowInv, HolderInv, FreshInv, Unused, Untouched, Starting, Stopping, ActiveIn, RowsOf
  <1>21. ASSUME NEW s \in Sessions, VerifyAdd(s) PROVE RowInv'
    BY <1>21 DEF VerifyAdd, AddSession, Free, RowInv, HolderInv, FreshInv, Unused, Untouched, Starting, Stopping, ActiveIn, RowsOf
  <1>22. CASE VerifyDone
    BY <1>22 DEF VerifyDone, Free, NoVerify, RowInv, HolderInv, FreshInv, Unused, Untouched, Starting, Stopping, ActiveIn, RowsOf
  <1>23. CASE Crash
    BY <1>23 DEF Crash, Free, IdleWriter, IdleReader, NoVerify, RowInv, HolderInv, FreshInv, Unused, Untouched, Starting, Stopping, ActiveIn, RowsOf
  <1>24. CASE UNCHANGED vars
    BY <1>24 DEF vars, RowInv, HolderInv, FreshInv, Unused, Untouched, Starting, Stopping, ActiveIn, RowsOf
  <1>25. QED
    BY <1>1, <1>2, <1>3, <1>4, <1>5, <1>6, <1>7, <1>8, <1>9, <1>10, <1>11, <1>12, <1>13, <1>14, <1>15, <1>16, <1>17, <1>18, <1>19, <1>20, <1>21, <1>22, <1>23, <1>24 DEF Next

LEMMA StmtInvStep == StoreInv /\ [Next]_vars => StmtInv'
  <1> SUFFICES ASSUME TypeOK, HolderInv, FreshInv, RowInv, StmtInv, ConnInv,
                      CountAccounting, [Next]_vars PROVE StmtInv'
    BY DEF StoreInv
  <1> USE DEF TypeOK, disk, runMem, callers
  <1>1. ASSUME NEW s \in Sessions, CreateSessionFile(s) PROVE StmtInv'
    BY <1>1 DEF CreateSessionFile, Free, StmtInv, HolderInv, FreshInv, Unused, Untouched, Starting, Stopping
  <1>2. ASSUME NEW s \in Sessions, CreateSessionIndex(s) PROVE StmtInv'
    BY <1>2 DEF CreateSessionIndex, AddSession, Free, StmtInv, HolderInv, FreshInv, Unused, Untouched, Starting, Stopping
  <1>3. ASSUME NEW i \in Instances, NEW s \in Sessions, StartOpen(i, s) PROVE StmtInv'
    BY <1>3 DEF StartOpen, ActiveIn, Free, StmtInv, HolderInv, FreshInv, Unused, Untouched, Starting, Stopping
  <1>4. CASE StartInsert
    BY <1>4 DEF StartInsert, StartReturnsError, Touched, Free, StmtInv, HolderInv, FreshInv, Unused, Untouched, Starting, Stopping
  <1>5. CASE StartActivate
    BY <1>5 DEF StartActivate, StartReturnsError, Free, StmtInv, HolderInv, FreshInv, Unused, Untouched, Starting, Stopping
  <1>6. CASE StartIndex
    BY <1>6 DEF StartIndex, NextRunCount, Free, StmtInv, HolderInv, FreshInv, Unused, Untouched, Starting, Stopping
  <1>7. ASSUME NEW w \in Writers, NEW i \in Instances, WriteLookup(w, i) PROVE StmtInv'
    BY <1>7 DEF WriteLookup, Free, StmtInv, HolderInv, FreshInv, Unused, Untouched, Starting, Stopping
  <1>8. ASSUME NEW w \in Writers, WriteExec(w) PROVE StmtInv'
    BY <1>8 DEF WriteExec, IdleWriter, Free, StmtInv, HolderInv, FreshInv, Unused, Untouched, Starting, Stopping
  <1>9. ASSUME NEW w \in Writers, WriteCount(w) PROVE StmtInv'
    BY <1>9 DEF WriteCount, IdleWriter, Free, StmtInv, HolderInv, FreshInv, Unused, Untouched, Starting, Stopping
  <1>10. ASSUME NEW i \in Instances, StopRequest(i) PROVE StmtInv'
    BY <1>10 DEF StopRequest, Free, StmtInv, HolderInv, FreshInv, Unused, Untouched, Starting, Stopping
  <1>11. ASSUME NEW i \in Instances, StopFinalize(i) PROVE StmtInv'
    BY <1>11 DEF StopFinalize, FinalCount, Free, StmtInv, HolderInv, FreshInv, Unused, Untouched, Starting, Stopping
  <1>12. CASE StopStmt
    BY <1>12 DEF StopStmt, Free, StmtInv, HolderInv, FreshInv, Unused, Untouched, Starting, Stopping
  <1>13. CASE StopIndex
    BY <1>13 DEF StopIndex, Free, ClosesDB, StmtInv, HolderInv, FreshInv, Unused, Untouched, Starting, Stopping
  <1>14. ASSUME NEW s \in Sessions, DeleteIndex(s) PROVE StmtInv'
    BY <1>14 DEF DeleteIndex, IndexWithout, Free, StmtInv, HolderInv, FreshInv, Unused, Untouched, Starting, Stopping
  <1>15. CASE DeleteFile
    BY <1>15 DEF DeleteFile, Free, StmtInv, HolderInv, FreshInv, Unused, Untouched, Starting, Stopping
  <1>16. ASSUME NEW r \in Readers, NEW s \in Sessions, ReadLookup(r, s) PROVE StmtInv'
    BY <1>16 DEF ReadLookup, ActiveIn, Free, StmtInv, HolderInv, FreshInv, Unused, Untouched, Starting, Stopping
  <1>17. ASSUME NEW r \in Readers, ReadUse(r) PROVE StmtInv'
    BY <1>17 DEF ReadUse, Touched, IdleReader, Free, StmtInv, HolderInv, FreshInv, Unused, Untouched, Starting, Stopping
  <1>18. CASE VerifyReadDir
    BY <1>18 DEF VerifyReadDir, Free, StmtInv, HolderInv, FreshInv, Unused, Untouched, Starting, Stopping
  <1>19. CASE VerifyListAll
    BY <1>19 DEF VerifyListAll, Free, StmtInv, HolderInv, FreshInv, Unused, Untouched, Starting, Stopping
  <1>20. ASSUME NEW s \in Sessions, VerifyRemove(s) PROVE StmtInv'
    BY <1>20 DEF VerifyRemove, IndexWithout, Free, StmtInv, HolderInv, FreshInv, Unused, Untouched, Starting, Stopping
  <1>21. ASSUME NEW s \in Sessions, VerifyAdd(s) PROVE StmtInv'
    BY <1>21 DEF VerifyAdd, AddSession, Free, StmtInv, HolderInv, FreshInv, Unused, Untouched, Starting, Stopping
  <1>22. CASE VerifyDone
    BY <1>22 DEF VerifyDone, Free, NoVerify, StmtInv, HolderInv, FreshInv, Unused, Untouched, Starting, Stopping
  <1>23. CASE Crash
    BY <1>23 DEF Crash, Free, IdleWriter, IdleReader, NoVerify, StmtInv, HolderInv, FreshInv, Unused, Untouched, Starting, Stopping
  <1>24. CASE UNCHANGED vars
    BY <1>24 DEF vars, StmtInv, HolderInv, FreshInv, Unused, Untouched, Starting, Stopping
  <1>25. QED
    BY <1>1, <1>2, <1>3, <1>4, <1>5, <1>6, <1>7, <1>8, <1>9, <1>10, <1>11, <1>12, <1>13, <1>14, <1>15, <1>16, <1>17, <1>18, <1>19, <1>20, <1>21, <1>22, <1>23, <1>24 DEF Next

LEMMA ConnInvStep == StoreInv /\ [Next]_vars => ConnInv'
  <1> SUFFICES ASSUME TypeOK, HolderInv, FreshInv, RowInv, StmtInv, ConnInv,
                      CountAccounting, [Next]_vars PROVE ConnInv'
    BY DEF StoreInv
  <1> USE DEF TypeOK, disk, runMem, callers
  <1>1. ASSUME NEW s \in Sessions, CreateSessionFile(s) PROVE ConnInv'
    BY <1>1 DEF CreateSessionFile, Free, ConnInv, HolderInv, FreshInv, Unused, Untouched, Starting, Stopping, RowInv, ActiveIn
  <1>2. ASSUME NEW s \in Sessions, CreateSessionIndex(s) PROVE ConnInv'
    BY <1>2 DEF CreateSessionIndex, AddSession, Free, ConnInv, HolderInv, FreshInv, Unused, Untouched, Starting, Stopping, RowInv, ActiveIn
  <1>3. ASSUME NEW i \in Instances, NEW s \in Sessions, StartOpen(i, s) PROVE ConnInv'
    <2>1. i \notin started /\ home[i] = NoSession /\ i \notin activeRuns /\ ~Starting
      BY <1>3 DEF StartOpen, FreshInv, Unused, Untouched, Free, Starting
    <2>2. \A j \in activeRuns : j # i /\ sessionDB'[j] = sessionDB[j]
      BY <1>3, <2>1 DEF StartOpen
    <2>3. CASE ActiveIn(s) # {}
      <3>1. PICK j \in ActiveIn(s) : sessionDB' = [sessionDB EXCEPT ![i] = sessionDB[j]]
        BY <1>3, <2>3 DEF StartOpen
      <3>2. j \in activeRuns /\ home[j] = s /\ sessionDB'[i] = sessionDB[j]
        BY <3>1 DEF ActiveIn
      <3>3. openDBs' = openDBs /\ mu'.inst = i /\ mu'.sess = s /\ UNCHANGED <<activeRuns, home>>
        BY <1>3, <2>3 DEF StartOpen
      <3>4. sessionDB[j] # i
        BY <2>1, <3>2, StoreAssumption DEF ConnInv
      <3>5. QED
        BY <2>1, <2>2, <3>2, <3>3, <3>4 DEF ConnInv, ActiveIn, Starting
    <2>4. CASE ActiveIn(s) = {}
      <3>1. /\ sessionDB'[i] = i
            /\ openDBs' = openDBs \cup {i}
            /\ mu' = [op |-> "startInsert", inst |-> i, sess |-> s]
            /\ UNCHANGED <<activeRuns, home>>
        BY <1>3, <2>4 DEF StartOpen
      <3>2. QED
        BY <2>1, <2>2, <2>4, <3>1 DEF ConnInv, ActiveIn, Starting
    <2>5. QED
      BY <2>3, <2>4
  <1>4. CASE StartInsert
    <2> DEFINE i == mu.inst
    <2>1. /\ i \in started /\ mu.sess \in Sessions /\ Starting
          /\ i \notin activeRuns /\ home[i] = NoSession /\ row[i] = "none"
      BY <1>4 DEF StartInsert, HolderInv, Starting, Unused, Untouched
    <2>2. \A j \in activeRuns : j # i /\ home[j] \in Sessions /\ home[sessionDB[j]] = home[j]
      BY <2>1 DEF RowInv, ConnInv
    <2>3. \A j \in activeRuns : sessionDB[j] # i
      BY <2>1, <2>2, StoreAssumption
    <2>4. UNCHANGED <<activeRuns, sessionDB>>
      BY <1>4 DEF StartInsert
    <2>5. CASE mu' = Free /\ openDBs' = openDBs \ {i}
               /\ \A j \in Instances : j # i => home'[j] = home[j]
      BY <2>1, <2>2, <2>3, <2>4, <2>5 DEF ConnInv, Starting, Free
    <2>6. CASE /\ file[mu.sess] = "ready"
               /\ home' = [home EXCEPT ![i] = mu.sess]
               /\ mu' = [mu EXCEPT !.op = "startActivate"]
               /\ openDBs' = openDBs
      <3>1. /\ mu'.inst = i /\ mu'.sess = mu.sess
            /\ mu'.op = "startActivate" /\ home'[i] = mu.sess
            /\ \A j \in Instances : j # i => home'[j] = home[j]
        BY <2>1, <2>6
      <3>2. sessionDB[i] \in Instances
        BY <2>1 DEF ConnInv
      <3>3. QED
        BY <2>1, <2>2, <2>3, <2>4, <2>6, <3>1, <3>2 DEF ConnInv, Starting, ActiveIn
    <2>7. QED
      BY <1>4, <2>1, <2>5, <2>6 DEF StartInsert, StartReturnsError
  <1>5. CASE StartActivate
    <2> DEFINE i == mu.inst
    <2>1. /\ i \in started /\ mu.sess \in Sessions /\ Starting
          /\ i \notin activeRuns /\ home[i] = mu.sess
      BY <1>5 DEF StartActivate, HolderInv, Starting, Untouched
    <2>2. UNCHANGED <<home, sessionDB>>
      BY <1>5 DEF StartActivate
    <2>3. /\ sessionDB[i] \in openDBs
          /\ home[sessionDB[i]] = mu.sess
          /\ \A j \in activeRuns : home[j] = mu.sess => sessionDB[j] = sessionDB[i]
      BY <2>1 DEF ConnInv, ActiveIn
    <2>4. CASE activeRuns' = activeRuns \cup {i} /\ openDBs' = openDBs
               /\ mu' = [mu EXCEPT !.op = "startIndex"]
      <3>1. ~Starting'
        BY <2>4 DEF Starting
      <3>2. \A c \in openDBs : \E j \in activeRuns \cup {i} : sessionDB[j] = c
        BY <2>1, <2>3 DEF ConnInv
      <3>3. QED
        BY <2>1, <2>2, <2>3, <2>4, <3>1, <3>2 DEF ConnInv
    <2>5. CASE StartReturnsError(i) /\ activeRuns' = activeRuns
      <3>1. ~Starting' /\ openDBs' = openDBs \ {i}
        BY <2>5 DEF StartReturnsError, Starting, Free
      <3>2. \A j \in activeRuns : sessionDB[j] # i
        <4>1. SUFFICES ASSUME NEW j \in activeRuns, sessionDB[j] = i PROVE FALSE
          OBVIOUS
        <4>2. home[j] = mu.sess /\ sessionDB[i] = i
          BY <2>1, <2>3, <4>1 DEF ConnInv
        <4>3. QED
          BY <2>1, <4>1, <4>2 DEF ConnInv, ActiveIn
      <3>3. QED
        BY <2>1, <2>2, <2>5, <3>1, <3>2 DEF ConnInv
    <2>6. QED
      BY <1>5, <2>4, <2>5 DEF StartActivate
  <1>6. CASE StartIndex
    BY <1>6 DEF StartIndex, NextRunCount, Free, ConnInv, HolderInv, FreshInv, Unused, Untouched, Starting, Stopping, RowInv, ActiveIn
  <1>7. ASSUME NEW w \in Writers, NEW i \in Instances, WriteLookup(w, i) PROVE ConnInv'
    BY <1>7 DEF WriteLookup, Free, ConnInv, HolderInv, FreshInv, Unused, Untouched, Starting, Stopping, RowInv, ActiveIn
  <1>8. ASSUME NEW w \in Writers, WriteExec(w) PROVE ConnInv'
    BY <1>8 DEF WriteExec, IdleWriter, Free, ConnInv, HolderInv, FreshInv, Unused, Untouched, Starting, Stopping, RowInv, ActiveIn
  <1>9. ASSUME NEW w \in Writers, WriteCount(w) PROVE ConnInv'
    BY <1>9 DEF WriteCount, IdleWriter, Free, ConnInv, HolderInv, FreshInv, Unused, Untouched, Starting, Stopping, RowInv, ActiveIn
  <1>10. ASSUME NEW i \in Instances, StopRequest(i) PROVE ConnInv'
    BY <1>10 DEF StopRequest, Free, ConnInv, HolderInv, FreshInv, Unused, Untouched, Starting, Stopping, RowInv, ActiveIn
  <1>11. ASSUME NEW i \in Instances, StopFinalize(i) PROVE ConnInv'
    BY <1>11 DEF StopFinalize, FinalCount, Free, ConnInv, HolderInv, FreshInv, Unused, Untouched, Starting, Stopping, RowInv, ActiveIn
  <1>12. CASE StopStmt
    BY <1>12 DEF StopStmt, Free, ConnInv, HolderInv, FreshInv, Unused, Untouched, Starting, Stopping, RowInv, ActiveIn
  <1>13. CASE StopIndex
    BY <1>13 DEF StopIndex, Free, ClosesDB, ConnInv, HolderInv, FreshInv, Unused, Untouched, Starting, Stopping, RowInv, ActiveIn
  <1>14. ASSUME NEW s \in Sessions, DeleteIndex(s) PROVE ConnInv'
    BY <1>14 DEF DeleteIndex, IndexWithout, Free, ConnInv, HolderInv, FreshInv, Unused, Untouched, Starting, Stopping, RowInv, ActiveIn
  <1>15. CASE DeleteFile
    BY <1>15 DEF DeleteFile, Free, ConnInv, HolderInv, FreshInv, Unused, Untouched, Starting, Stopping, RowInv, ActiveIn
  <1>16. ASSUME NEW r \in Readers, NEW s \in Sessions, ReadLookup(r, s) PROVE ConnInv'
    BY <1>16 DEF ReadLookup, ActiveIn, Free, ConnInv, HolderInv, FreshInv, Unused, Untouched, Starting, Stopping, RowInv
  <1>17. ASSUME NEW r \in Readers, ReadUse(r) PROVE ConnInv'
    BY <1>17 DEF ReadUse, Touched, IdleReader, Free, ConnInv, HolderInv, FreshInv, Unused, Untouched, Starting, Stopping, RowInv, ActiveIn
  <1>18. CASE VerifyReadDir
    BY <1>18 DEF VerifyReadDir, Free, ConnInv, HolderInv, FreshInv, Unused, Untouched, Starting, Stopping, RowInv, ActiveIn
  <1>19. CASE VerifyListAll
    BY <1>19 DEF VerifyListAll, Free, ConnInv, HolderInv, FreshInv, Unused, Untouched, Starting, Stopping, RowInv, ActiveIn
  <1>20. ASSUME NEW s \in Sessions, VerifyRemove(s) PROVE ConnInv'
    BY <1>20 DEF VerifyRemove, IndexWithout, Free, ConnInv, HolderInv, FreshInv, Unused, Untouched, Starting, Stopping, RowInv, ActiveIn
  <1>21. ASSUME NEW s \in Sessions, VerifyAdd(s) PROVE ConnInv'
    BY <1>21 DEF VerifyAdd, AddSession, Free, ConnInv, HolderInv, FreshInv, Unused, Untouched, Starting, Stopping, RowInv, ActiveIn
  <1>22. CASE VerifyDone
    BY <1>22 DEF VerifyDone, Free, NoVerify, ConnInv, HolderInv, FreshInv, Unused, Untouched, Starting, Stopping, RowInv, ActiveIn
  <1>23. CASE Crash
    BY <1>23 DEF Crash, Free, IdleWriter, IdleReader, NoVerify, ConnInv, HolderInv, FreshInv, Unused, Untouched, Starting, Stopping, RowInv, ActiveIn
  <1>24. CASE UNCHANGED vars
    BY <1>24 DEF vars, ConnInv, HolderInv, FreshInv, Unused, Untouched, Starting, Stopping, RowInv, ActiveIn
  <1>25. QED
    BY <1>1, <1>2, <1>3, <1>4, <1>5, <1>6, <1>7, <1>8, <1>9, <1>10, <1>11, <1>12, <1>13, <1>14, <1>15, <1>16, <1>17, <1>18, <1>19, <1>20, <1>21, <1>22, <1>23, <1>24 DEF Next

LEMMA CountAccountingStep == StoreInv /\ [Next]_vars => CountAccounting'
  <1> SUFFICES ASSUME TypeOK, HolderInv, FreshInv, RowInv, StmtInv, ConnInv,
                      CountAccounting, [Next]_vars PROVE CountAccounting'
    BY DEF StoreInv
  <1> USE DEF TypeOK, disk, runMem, callers
  <1>1. ASSUME NEW s \in Sessions, CreateSessionFile(s) PROVE CountAccounting'
    BY <1>1 DEF CreateSessionFile, Free, CountAccounting, Uncounted, HolderInv, StmtInv, Unused, Untouched, Starting
  <1>2. ASSUME NEW s \in Sessions, CreateSessionIndex(s) PROVE CountAccounting'
    BY <1>2 DEF CreateSessionIndex, AddSession, Free, CountAccounting, Uncounted, HolderInv, StmtInv, Unused, Untouched, Starting
  <1>3. ASSUME NEW i \in Instances, NEW s \in Sessions, StartOpen(i, s) PROVE CountAccounting'
    BY <1>3 DEF StartOpen, ActiveIn, Free, CountAccounting, Uncounted, HolderInv, StmtInv, Unused, Untouched, Starting
  <1>4. CASE StartInsert
    BY <1>4 DEF StartInsert, StartReturnsError, Touched, Free, CountAccounting, Uncounted, HolderInv, StmtInv, Unused, Untouched, Starting
  <1>5. CASE StartActivate
    <2>0. PICK i \in Instances : i = mu.inst
      BY <1>5 DEF StartActivate, HolderInv, Starting
    <2>1. /\ insertStmt[i] = "none" /\ eventCount[i] = 0 /\ stored[i] = 0
          /\ UNCHANGED <<stored, eventCount, writer>>
          /\ activeRuns' \subseteq activeRuns \cup {i}
      BY <1>5, <2>0 DEF StartActivate, HolderInv, Untouched
    <2>2. Uncounted(i) = {}
      BY <2>1 DEF Uncounted, StmtInv
    <2>3. \A j \in Instances : Uncounted(j)' = Uncounted(j)
      BY <2>1 DEF Uncounted
    <2>4. Cardinality(Uncounted(i)) = 0
      BY <2>2, FS_EmptySet
    <2>5. QED
      BY <2>1, <2>3, <2>4 DEF CountAccounting
  <1>6. CASE StartIndex
    BY <1>6 DEF StartIndex, NextRunCount, Free, CountAccounting, Uncounted, HolderInv, StmtInv, Unused, Untouched, Starting
  <1>7. ASSUME NEW w \in Writers, NEW i \in Instances, WriteLookup(w, i) PROVE CountAccounting'
    <2>1. \A j \in Instances : Uncounted(j)' = Uncounted(j)
      BY <1>7 DEF WriteLookup, Uncounted, IdleWriter
    <2>2. QED
      BY <1>7, <2>1 DEF WriteLookup, CountAccounting
  <1>8. ASSUME NEW w \in Writers, WriteExec(w) PROVE CountAccounting'
    <2>0. PICK i \in Instances : i = writer[w].inst
      BY <1>8 DEF WriteExec, StmtInv
    <2>1. writer[w].pc = "exec" /\ UNCHANGED <<activeRuns, eventCount>>
      BY <1>8 DEF WriteExec
    <2>2. \A j \in Instances \ {i} : Uncounted(j)' = Uncounted(j) /\ stored'[j] = stored[j]
      BY <1>8, <2>0, <2>1, SMTT(30) DEF WriteExec, Uncounted, IdleWriter
    <2>3. CASE stored' = [stored EXCEPT ![i] = @ + 1] /\ writer' = [writer EXCEPT ![w].pc = "count"]
      <3>1. Uncounted(i)' = Uncounted(i) \cup {w} /\ w \notin Uncounted(i)
        BY <2>0, <2>1, <2>3 DEF Uncounted
      <3>2. Cardinality(Uncounted(i)') = Cardinality(Uncounted(i)) + 1
        <4>1. IsFiniteSet(Uncounted(i))
          BY UncountedFinite
        <4>2. Cardinality(Uncounted(i) \cup {w}) = Cardinality(Uncounted(i)) + 1
          BY <3>1, <4>1, FS_AddElement
        <4>3. QED
          BY <3>1, <4>2
      <3>3. Cardinality(Uncounted(i)) \in Nat
        BY UncountedFinite, FS_CardinalityType
      <3>4. stored'[i] = stored[i] + 1
        BY <2>1, <2>3
      <3>5. QED
        BY <2>1, <2>2, <3>2, <3>3, <3>4 DEF CountAccounting
    <2>4. CASE stored' = stored /\ writer' = [writer EXCEPT ![w] = IdleWriter]
      <3>1. Uncounted(i)' = Uncounted(i)
        BY <2>0, <2>1, <2>4 DEF Uncounted, IdleWriter
      <3>2. QED
        BY <2>1, <2>2, <2>4, <3>1 DEF CountAccounting
    <2>5. QED
      BY <1>8, <2>0, <2>3, <2>4 DEF WriteExec
  <1>9. ASSUME NEW w \in Writers, WriteCount(w) PROVE CountAccounting'
    <2>0. PICK i \in Instances : i = writer[w].inst
      BY <1>9 DEF WriteCount, StmtInv
    <2>1. writer[w].pc = "count" /\ UNCHANGED <<activeRuns, stored>>
      BY <1>9 DEF WriteCount
    <2>2. /\ writer' = [writer EXCEPT ![w] = IdleWriter]
          /\ eventCount'[i] = eventCount[i] + 1
          /\ \A j \in Instances \ {i} : eventCount'[j] = eventCount[j]
      BY <1>9, <2>0, <2>1 DEF WriteCount
    <2>3. \A j \in Instances \ {i} : Uncounted(j)' = Uncounted(j)
      BY <2>0, <2>1, <2>2 DEF Uncounted, IdleWriter
    <2>4. Uncounted(i)' = Uncounted(i) \ {w} /\ w \in Uncounted(i)
      BY <2>0, <2>1, <2>2 DEF Uncounted, IdleWriter
    <2>5. Cardinality(Uncounted(i)') = Cardinality(Uncounted(i)) - 1
      <3>1. IsFiniteSet(Uncounted(i))
        BY UncountedFinite
      <3>2. Cardinality(Uncounted(i) \ {w}) = Cardinality(Uncounted(i)) - 1
        <4>1. w \in Uncounted(i)
          BY <2>4
        <4>2. QED
          BY <3>1, <4>1, FS_RemoveElement, Zenon
      <3>3. QED
        BY <2>4, <3>2
    <2>6. Cardinality(Uncounted(i)) \in Nat
      BY UncountedFinite, FS_CardinalityType
    <2>7. QED
      BY <2>1, <2>2, <2>3, <2>5, <2>6, SMTT(30) DEF CountAccounting
  <1>10. ASSUME NEW i \in Instances, StopRequest(i) PROVE CountAccounting'
    BY <1>10 DEF StopRequest, Free, CountAccounting, Uncounted, HolderInv, StmtInv, Unused, Untouched, Starting
  <1>11. ASSUME NEW i \in Instances, StopFinalize(i) PROVE CountAccounting'
    BY <1>11 DEF StopFinalize, FinalCount, Free, CountAccounting, Uncounted, HolderInv, StmtInv, Unused, Untouched, Starting
  <1>12. CASE StopStmt
    BY <1>12 DEF StopStmt, Free, CountAccounting, Uncounted, HolderInv, StmtInv, Unused, Untouched, Starting
  <1>13. CASE StopIndex
    BY <1>13 DEF StopIndex, Free, ClosesDB, CountAccounting, Uncounted, HolderInv, StmtInv, Unused, Untouched, Starting
  <1>14. ASSUME NEW s \in Sessions, DeleteIndex(s) PROVE CountAccounting'
    BY <1>14 DEF DeleteIndex, IndexWithout, Free, CountAccounting, Uncounted, HolderInv, StmtInv, Unused, Untouched, Starting
  <1>15. CASE DeleteFile
    BY <1>15 DEF DeleteFile, Free, CountAccounting, Uncounted, HolderInv, StmtInv, Unused, Untouched, Starting
  <1>16. ASSUME NEW r \in Readers, NEW s \in Sessions, ReadLookup(r, s) PROVE CountAccounting'
    BY <1>16 DEF ReadLookup, ActiveIn, Free, CountAccounting, Uncounted, HolderInv, StmtInv, Unused, Untouched, Starting
  <1>17. ASSUME NEW r \in Readers, ReadUse(r) PROVE CountAccounting'
    BY <1>17 DEF ReadUse, Touched, IdleReader, Free, CountAccounting, Uncounted, HolderInv, StmtInv, Unused, Untouched, Starting
  <1>18. CASE VerifyReadDir
    BY <1>18 DEF VerifyReadDir, Free, CountAccounting, Uncounted, HolderInv, StmtInv, Unused, Untouched, Starting
  <1>19. CASE VerifyListAll
    BY <1>19 DEF VerifyListAll, Free, CountAccounting, Uncounted, HolderInv, StmtInv, Unused, Untouched, Starting
  <1>20. ASSUME NEW s \in Sessions, VerifyRemove(s) PROVE CountAccounting'
    BY <1>20 DEF VerifyRemove, IndexWithout, Free, CountAccounting, Uncounted, HolderInv, StmtInv, Unused, Untouched, Starting
  <1>21. ASSUME NEW s \in Sessions, VerifyAdd(s) PROVE CountAccounting'
    BY <1>21 DEF VerifyAdd, AddSession, Free, CountAccounting, Uncounted, HolderInv, StmtInv, Unused, Untouched, Starting
  <1>22. CASE VerifyDone
    BY <1>22 DEF VerifyDone, Free, NoVerify, CountAccounting, Uncounted, HolderInv, StmtInv, Unused, Untouched, Starting
  <1>23. CASE Crash
    BY <1>23 DEF Crash, Free, IdleWriter, IdleReader, NoVerify, CountAccounting, Uncounted, HolderInv, StmtInv, Unused, Untouched, Starting
  <1>24. CASE UNCHANGED vars
    BY <1>24 DEF vars, CountAccounting, Uncounted, HolderInv, StmtInv, Unused, Untouched, Starting
  <1>25. QED
    BY <1>1, <1>2, <1>3, <1>4, <1>5, <1>6, <1>7, <1>8, <1>9, <1>10, <1>11, <1>12, <1>13, <1>14, <1>15, <1>16, <1>17, <1>18, <1>19, <1>20, <1>21, <1>22, <1>23, <1>24 DEF Next

-----------------------------------------------------------------------------
(* The index *)

\* A step that leaves the run rows alone leaves those of each session alone.
LEMMA RowsSame ==
  ASSUME UNCHANGED <<row, home>>
  PROVE  \A t : Cardinality(RowsOf(t))' = Cardinality(RowsOf(t))
  <1>1. \A s : RowsOf(s)' = RowsOf(s)
    BY DEF RowsOf
  <1>2. QED
    BY <1>1

\* A step of a writer, a reader or a caller keeps the promise.
LEMMA QuietIndexStep ==
  ASSUME IndexInv,
         UNCHANGED <<row, home, indexed, runCount, mu, creating, known, generated>>,
         \A s \in indexed \cup creating : file[s] = "ready" => file'[s] = "ready"
  PROVE  IndexInv'
  BY RowsSame DEF IndexInv

LEMMA IndexInvStep == StoreInv /\ [Next]_vars => IndexInv'
  <1> SUFFICES ASSUME TypeOK, HolderInv, FreshInv, RowInv, IndexInv, [Next]_vars
               PROVE  IndexInv'
    BY DEF StoreInv
  <1> USE DEF TypeOK, disk, runMem, callers
  <1>0. \A t : Cardinality(RowsOf(t)) \in Nat
    BY RowsCount
  <1>1. ASSUME NEW s \in Sessions, CreateSessionFile(s) PROVE IndexInv'
    <2>1. \A t : Cardinality(RowsOf(t))' = Cardinality(RowsOf(t))
      BY <1>1, RowsSame DEF CreateSessionFile
    <2>2. QED
      BY <1>0, <1>1, <2>1 DEF CreateSessionFile, IndexInv
  <1>2. ASSUME NEW s \in Sessions, CreateSessionIndex(s) PROVE IndexInv'
    <2>1. \A t : Cardinality(RowsOf(t))' = Cardinality(RowsOf(t))
      BY <1>2, RowsSame DEF CreateSessionIndex
    <2>2. mu.op \in {"startActivate", "startIndex"} =>
            Cardinality(RowsOf(mu.sess)) >= 1
      <3>1. mu.op \in {"startActivate", "startIndex"} => mu.inst \in RowsOf(mu.sess)
        BY DEF HolderInv, Starting, RowInv, RowsOf
      <3>2. RowsOf(mu.sess) # {} => Cardinality(RowsOf(mu.sess)) # 0
        BY RowsFinite, FS_EmptySet
      <3>3. QED
        BY <1>0, <3>1, <3>2
    <2>3. IndexInv!1'
      BY <1>2, <2>1 DEF CreateSessionIndex, AddSession, IndexInv
    <2>4. IndexInv!2'
      BY <1>0, <1>2, <2>1 DEF CreateSessionIndex, AddSession, IndexInv
    <2>5. IndexInv!3'
      BY <1>0, <1>2, <2>1, <2>2 DEF CreateSessionIndex, AddSession, IndexInv
    <2>6. QED
      BY <2>3, <2>4, <2>5 DEF IndexInv
  <1>3. ASSUME NEW i \in Instances, NEW s \in Sessions, StartOpen(i, s) PROVE IndexInv'
    <2>1. \A t : Cardinality(RowsOf(t))' = Cardinality(RowsOf(t))
      BY <1>3, RowsSame DEF StartOpen
    <2>2. QED
      BY <1>0, <1>3, <2>1 DEF StartOpen, Free, IndexInv
  <1>4. CASE StartInsert
    <2>1. PICK i \in Instances, s \in Sessions :
            /\ i = mu.inst /\ s = mu.sess
            /\ row[i] = "none" /\ i \notin RowsOf(s)
      BY <1>4 DEF StartInsert, HolderInv, Starting, Unused, RowsOf
    <2>2. CASE /\ row' = [row EXCEPT ![i] = "open"]
               /\ home' = [home EXCEPT ![i] = s]
               /\ file' = file
      <3>1. /\ RowsOf(s)' = RowsOf(s) \cup {i}
            /\ \A t \in Sessions \ {s} : RowsOf(t)' = RowsOf(t)
        BY <2>1, <2>2 DEF RowsOf
      <3>2. Cardinality(RowsOf(s))' = Cardinality(RowsOf(s)) + 1
        <4>1. IsFiniteSet(RowsOf(s)) /\ i \notin RowsOf(s)
          BY <2>1, RowsFinite
        <4>2. Cardinality(RowsOf(s) \cup {i}) = Cardinality(RowsOf(s)) + 1
          BY <4>1, FS_AddElement, Zenon
        <4>3. QED
          BY <3>1, <4>2
      <3>3. ASSUME NEW t \in Sessions
            PROVE  /\ Cardinality(RowsOf(t))' \in Nat
                   /\ Cardinality(RowsOf(t)) <= Cardinality(RowsOf(t))'
        <4>1. Cardinality(RowsOf(t)) \in Nat
          BY <1>0
        <4>2. CASE t = s
          BY <3>2, <4>1, <4>2
        <4>3. CASE t # s
          <5>1. Cardinality(RowsOf(t))' = Cardinality(RowsOf(t))
            BY <3>1, <4>3
          <5>2. QED
            BY <4>1, <5>1
        <4>4. QED
          BY <4>2, <4>3
      <3>4. IndexInv!1'
        BY <1>4, <2>2 DEF StartInsert, StartReturnsError, Free, IndexInv
      <3>5. IndexInv!2'
        <4>1. UNCHANGED <<indexed, runCount>>
          BY <1>4 DEF StartInsert
        <4>2. ASSUME NEW t \in indexed
              PROVE  runCount[t] <= Cardinality(RowsOf(t))'
          <5>1. /\ runCount[t] \in Nat /\ runCount[t] <= Cardinality(RowsOf(t))
                /\ Cardinality(RowsOf(t)) \in Nat /\ Cardinality(RowsOf(t))' \in Nat
                /\ Cardinality(RowsOf(t)) <= Cardinality(RowsOf(t))'
            BY <1>0, <3>3 DEF IndexInv
          <5>2. QED
            BY <5>1
        <4>3. QED
          BY <4>1, <4>2
      <3>6. IndexInv!3'
        BY <1>0, <1>4, <2>1, <2>2, <3>2
           DEF StartInsert, StartReturnsError, Free, IndexInv
      <3>7. QED
        BY <3>4, <3>5, <3>6 DEF IndexInv
    <2>3. CASE UNCHANGED <<row, home>>
      <3>1. \A t : Cardinality(RowsOf(t))' = Cardinality(RowsOf(t))
        BY <2>3, RowsSame
      <3>2. mu'.op \notin {"startActivate", "startIndex", "deleteFile", "verifyList", "verifyFix"}
        BY <1>4, <2>1, <2>3 DEF StartInsert, StartReturnsError, Free
      <3>3. \A t \in Sessions : file[t] = "ready" => file'[t] = "ready"
        BY <1>4 DEF StartInsert, Touched
      <3>4. QED
        BY <1>0, <1>4, <3>1, <3>2, <3>3 DEF StartInsert, IndexInv
    <2>4. QED
      BY <1>4, <2>1, <2>2, <2>3 DEF StartInsert
  <1>5. CASE StartActivate
    <2>1. \A t : Cardinality(RowsOf(t))' = Cardinality(RowsOf(t))
      BY <1>5, RowsSame DEF StartActivate
    <2>2. QED
      BY <1>0, <1>5, <2>1 DEF StartActivate, StartReturnsError, Free, IndexInv
  <1>6. CASE StartIndex
    <2>1. \A t : Cardinality(RowsOf(t))' = Cardinality(RowsOf(t))
      BY <1>6, RowsSame DEF StartIndex
    <2>2. QED
      BY <1>0, <1>6, <2>1 DEF StartIndex, NextRunCount, Free, IndexInv
  <1>7. ASSUME NEW w \in Writers, NEW i \in Instances, WriteLookup(w, i) PROVE IndexInv'
    BY <1>7, QuietIndexStep DEF WriteLookup
  <1>8. ASSUME NEW w \in Writers, WriteExec(w) PROVE IndexInv'
    BY <1>8, QuietIndexStep DEF WriteExec
  <1>9. ASSUME NEW w \in Writers, WriteCount(w) PROVE IndexInv'
    BY <1>9, QuietIndexStep DEF WriteCount
  <1>10. ASSUME NEW i \in Instances, StopRequest(i) PROVE IndexInv'
    BY <1>10, QuietIndexStep DEF StopRequest
  <1>11. ASSUME NEW i \in Instances, StopFinalize(i) PROVE IndexInv'
    <2>1. \A s : RowsOf(s)' = RowsOf(s)
      BY <1>11 DEF StopFinalize, RowInv, RowsOf
    <2>2. \A t : Cardinality(RowsOf(t))' = Cardinality(RowsOf(t))
      BY <2>1
    <2>3. QED
      BY <1>0, <1>11, <2>2 DEF StopFinalize, IndexInv
  <1>12. CASE StopStmt
    <2>1. \A t : Cardinality(RowsOf(t))' = Cardinality(RowsOf(t))
      BY <1>12, RowsSame DEF StopStmt
    <2>2. QED
      BY <1>0, <1>12, <2>1 DEF StopStmt, IndexInv
  <1>13. CASE StopIndex
    <2>1. \A t : Cardinality(RowsOf(t))' = Cardinality(RowsOf(t))
      BY <1>13, RowsSame DEF StopIndex
    <2>2. QED
      BY <1>0, <1>13, <2>1 DEF StopIndex, Free, IndexInv
  <1>14. ASSUME NEW s \in Sessions, DeleteIndex(s) PROVE IndexInv'
    <2>1. \A t : Cardinality(RowsOf(t))' = Cardinality(RowsOf(t))
      BY <1>14, RowsSame DEF DeleteIndex
    <2>2. QED
      BY <1>0, <1>14, <2>1 DEF DeleteIndex, IndexWithout, IndexInv
  <1>15. CASE DeleteFile
    <2>0. PICK s \in Sessions : s = mu.sess
      BY <1>15 DEF DeleteFile, HolderInv
    <2>1. CASE /\ file' = [file EXCEPT ![s] = "absent"]
               /\ row' = [i \in Instances |-> IF i \in RowsOf(s) THEN "deleted" ELSE row[i]]
      <3>1. /\ RowsOf(s)' = {}
            /\ \A t \in Sessions \ {s} : RowsOf(t)' = RowsOf(t)
        BY <1>15, <2>1 DEF DeleteFile, RowsOf
      <3>2. /\ Cardinality(RowsOf(s))' = 0
            /\ \A t \in Sessions \ {s} : Cardinality(RowsOf(t))' = Cardinality(RowsOf(t))
        BY <3>1, FS_EmptySet
      <3>3. IndexInv!1'
        BY <1>15, <2>0, <2>1 DEF DeleteFile, Free, IndexInv
      <3>4. IndexInv!2'
        BY <1>0, <1>15, <2>0, <2>1, <3>2 DEF DeleteFile, Free, IndexInv
      <3>5. IndexInv!3'
        BY <1>15 DEF DeleteFile, Free, IndexInv
      <3>6. QED
        BY <3>3, <3>4, <3>5 DEF IndexInv
    <2>2. CASE UNCHANGED <<file, row>>
      <3>1. \A t : Cardinality(RowsOf(t))' = Cardinality(RowsOf(t))
        BY <1>15, <2>2, RowsSame DEF DeleteFile
      <3>2. QED
        BY <1>0, <1>15, <2>2, <3>1 DEF DeleteFile, Free, IndexInv
    <2>3. QED
      BY <1>15, <2>0, <2>1, <2>2 DEF DeleteFile
  <1>16. ASSUME NEW r \in Readers, NEW s \in Sessions, ReadLookup(r, s) PROVE IndexInv'
    BY <1>16, QuietIndexStep DEF ReadLookup
  <1>17. ASSUME NEW r \in Readers, ReadUse(r) PROVE IndexInv'
    BY <1>17, QuietIndexStep DEF ReadUse, Touched
  <1>18. CASE VerifyReadDir
    <2>1. \A t : Cardinality(RowsOf(t))' = Cardinality(RowsOf(t))
      BY <1>18, RowsSame DEF VerifyReadDir
    <2>2. QED
      BY <1>0, <1>18, <2>1 DEF VerifyReadDir, Free, IndexInv
  <1>19. CASE VerifyListAll
    <2>1. \A t : Cardinality(RowsOf(t))' = Cardinality(RowsOf(t))
      BY <1>19, RowsSame DEF VerifyListAll
    <2>2. QED
      BY <1>0, <1>19, <2>1 DEF VerifyListAll, IndexInv
  <1>20. ASSUME NEW s \in Sessions, VerifyRemove(s) PROVE IndexInv'
    <2>1. \A t : Cardinality(RowsOf(t))' = Cardinality(RowsOf(t))
      BY <1>20, RowsSame DEF VerifyRemove
    <2>2. QED
      BY <1>0, <1>20, <2>1 DEF VerifyRemove, IndexWithout, IndexInv
  <1>21. ASSUME NEW s \in Sessions, VerifyAdd(s) PROVE IndexInv'
    <2>1. \A t : Cardinality(RowsOf(t))' = Cardinality(RowsOf(t))
      BY <1>21, RowsSame DEF VerifyAdd
    <2>2. QED
      BY <1>0, <1>21, <2>1 DEF VerifyAdd, AddSession, IndexInv
  <1>22. CASE VerifyDone
    <2>1. \A t : Cardinality(RowsOf(t))' = Cardinality(RowsOf(t))
      BY <1>22, RowsSame DEF VerifyDone
    <2>2. QED
      BY <1>0, <1>22, <2>1 DEF VerifyDone, Free, IndexInv
  <1>23. CASE Crash
    <2>1. \A t : Cardinality(RowsOf(t))' = Cardinality(RowsOf(t))
      BY <1>23, RowsSame DEF Crash
    <2>2. QED
      BY <1>0, <1>23, <2>1 DEF Crash, Free, IndexInv
  <1>24. CASE UNCHANGED vars
    BY <1>24, QuietIndexStep DEF vars
  <1>25. QED
    BY <1>1, <1>2, <1>3, <1>4, <1>5, <1>6, <1>7, <1>8, <1>9, <1>10, <1>11, <1>12, <1>13, <1>14, <1>15, <1>16, <1>17, <1>18, <1>19, <1>20, <1>21, <1>22, <1>23, <1>24 DEF Next

-----------------------------------------------------------------------------
(* The theorems *)

\* StoreInv is an invariant: the parts of it that a step disturbs are restored.
THEOREM StoreInvariant == Spec => []StoreInv
  <1>1. Init => StoreInv
    BY DEF Init, InitMemory, StoreInv, TypeOK, MuOps, Free, IdleWriter, IdleReader,
       NoVerify, HolderInv, FreshInv, RowInv, StmtInv, ConnInv, CountAccounting,
       IndexInv, Starting, Stopping, Unused, Untouched
  <1>2. StoreInv /\ [Next]_vars => StoreInv'
    BY TypeStep, HolderInvStep, FreshInvStep, RowInvStep, StmtInvStep, ConnInvStep,
       CountAccountingStep, IndexInvStep DEF StoreInv
  <1>3. QED
    BY <1>1, <1>2, PTL DEF Spec

\* Every variable keeps its shape, for every value of the constants.
THEOREM TypeCorrect == Spec => []TypeOK
  <1>1. StoreInv => TypeOK
    BY DEF StoreInv
  <1>2. QED
    BY <1>1, StoreInvariant, PTL

\* A session that is recorded to keeps its file and its run row, whatever
\* statement fails and wherever the process dies (service.go:391-393).
THEOREM ActiveSessionPresentAlways == Spec => []ActiveSessionPresent
  <1>1. StoreInv => ActiveSessionPresent
    BY DEF StoreInv, TypeOK, RowInv, ActiveSessionPresent
  <1>2. QED
    BY <1>1, StoreInvariant, PTL

\* The runs of a session share one open connection, which goes with the last
\* of them (service.go:172-181,291-296).
THEOREM ConnectionsAlwaysMatch == Spec => []ConnectionsMatchActiveRuns
  <1>1. StoreInv => ConnectionsMatchActiveRuns
    BY DEF StoreInv, ConnInv, Starting, Free, ConnectionsMatchActiveRuns
  <1>2. QED
    BY <1>1, StoreInvariant, PTL

\* No stored event of an active run is lost to the count, except those whose
\* writer is waiting for the lock (service.go:245-252).
THEOREM CountsAlwaysAccounted == Spec => []CountAccounting
  <1>1. StoreInv => CountAccounting
    BY DEF StoreInv
  <1>2. QED
    BY <1>1, StoreInvariant, PTL

\* A listed session has its file, unless VerifyIndex ever runs, and its run_count
\* never exceeds its rows, even then (service.go:140-154,218-229,395-407).
THEOREM IndexAlwaysTruthful == Spec => []IndexedHasFile
  <1>1. StoreInv => IndexedHasFile
    BY DEF StoreInv, IndexInv, IndexedHasFile
  <1>2. QED
    BY <1>1, StoreInvariant, PTL

\* What any step may do to a session whose file is gone: only a creation makes a
\* file ready, and only a creation under way or VerifyIndex lists a session.
LEMMA DeletedStep ==
  ASSUME StoreInv, [Next]_vars, NEW s \in generated, file[s] # "ready"
  PROVE  file'[s] # "ready" /\ (s \in indexed' => s \in indexed \cup creating)
  <1> USE DEF StoreInv, TypeOK, disk, runMem, callers
  <1>1. ASSUME NEW t \in Sessions, CreateSessionFile(t) \/ CreateSessionIndex(t)
        PROVE  file'[s] # "ready" /\ (s \in indexed' => s \in indexed \cup creating)
    BY <1>1 DEF CreateSessionFile, CreateSessionIndex, AddSession
  <1>2. CASE StartInsert
    BY <1>2 DEF StartInsert, Touched
  <1>3. ASSUME NEW t \in Sessions, DeleteIndex(t) \/ VerifyRemove(t) \/ VerifyAdd(t)
        PROVE  file'[s] # "ready" /\ (s \in indexed' => s \in indexed \cup creating)
    BY <1>3 DEF DeleteIndex, VerifyRemove, VerifyAdd, AddSession, IndexWithout
  <1>4. CASE DeleteFile
    BY <1>4 DEF DeleteFile
  <1>5. ASSUME NEW r \in Readers, ReadUse(r)
        PROVE  file'[s] # "ready" /\ (s \in indexed' => s \in indexed \cup creating)
    BY <1>5 DEF ReadUse, Touched
  <1>6. CASE UNCHANGED <<file, indexed>>
    BY <1>6
  <1>7. QED
    BY <1>1, <1>2, <1>3, <1>4, <1>5, <1>6 DEF Next, vars, StartOpen,
       StartActivate, StartIndex, WriteLookup, WriteExec, WriteCount, StopRequest,
       StopFinalize, StopStmt, StopIndex, ReadLookup, VerifyReadDir, VerifyListAll,
       VerifyDone, Crash

\* Deletion is final: no late opener, reader or rebuild of the index brings a
\* session back whose file is gone.
THEOREM DeletionIsFinal == Spec => DeletedStaysDeleted
  <1>1. StoreInv /\ [Next]_vars =>
          [\A s \in generated : file[s] # "ready" =>
             file'[s] # "ready" /\ (s \in indexed' => s \in indexed \cup creating)]_vars
    BY DeletedStep
  <1>2. QED
    BY <1>1, StoreInvariant, PTL DEF Spec, DeletedStaysDeleted

\* No event row is added to a run that StopGadgetRun has taken out of activeRuns.
THEOREM NoLateEvents == Spec => EventsOnlyWhileActive
  <1>1. StoreInv /\ [Next]_vars =>
          [\A i \in Instances : stored'[i] # stored[i] => i \in activeRuns]_vars
    <2> SUFFICES ASSUME StoreInv, [Next]_vars, NEW i \in Instances, stored'[i] # stored[i]
                 PROVE i \in activeRuns
      OBVIOUS
    <2>1. PICK w \in Writers : WriteExec(w)
      BY DEF Next, vars, disk, runMem, callers, CreateSessionFile,
       CreateSessionIndex, StartOpen, StartInsert, StartActivate, StartIndex,
       WriteLookup, WriteCount, StopRequest, StopFinalize, StopStmt,
       StopIndex, DeleteIndex, DeleteFile, ReadLookup, ReadUse, VerifyReadDir,
       VerifyListAll, VerifyRemove, VerifyAdd, VerifyDone, Crash
    <2>2. writer[w].inst = i /\ insertStmt[i] = "open"
      BY <2>1 DEF WriteExec, StoreInv, TypeOK
    <2>3. QED
      BY <2>2 DEF StoreInv, StmtInv
  <1>2. QED
    BY <1>1, StoreInvariant, PTL DEF Spec, EventsOnlyWhileActive

-----------------------------------------------------------------------------
(* The refinement of SessionArchive *)

HiddenSteps ==
  \/ \E s \in Sessions : CreateSessionIndex(s) \/ DeleteIndex(s)
                            \/ VerifyRemove(s) \/ VerifyAdd(s)
  \/ \E i \in Instances, s \in Sessions : StartOpen(i, s)
  \/ \E w \in Writers, i \in Instances : WriteLookup(w, i)
  \/ \E r \in Readers, s \in Sessions : ReadLookup(r, s)
  \/ \E w \in Writers : WriteCount(w)
  \/ \E i \in Instances : StopRequest(i)
  \/ \E r \in Readers : ReadUse(r)
  \/ StartIndex \/ StopStmt \/ VerifyReadDir \/ VerifyListAll \/ VerifyDone
  \/ UNCHANGED vars

\* Steps on the index, on the locks and on connections do not show.
LEMMA HiddenStep ==
  ASSUME UNCHANGED <<row, home, rowCount, stored, activeRuns, generated>>,
         \A s \in Sessions : file'[s] = "ready" <=> file[s] = "ready"
  PROVE  UNCHANGED Archive!vars
  BY DEF Archive!vars

\* Every step of the store is a step of the archive, or shows nothing.
LEMMA ArchiveStep == StoreInv /\ [Next]_vars => [Archive!Next]_(Archive!vars)
  <1> SUFFICES ASSUME TypeOK, HolderInv, FreshInv, RowInv, StmtInv, ConnInv,
                      CountAccounting, [Next]_vars
               PROVE  [Archive!Next]_(Archive!vars)
    BY DEF StoreInv
  <1> USE DEF TypeOK, disk, runMem, callers
  <1>1. ASSUME NEW s \in Sessions, CreateSessionFile(s) PROVE [Archive!Next]_(Archive!vars)
    <2>1. Archive!Create(s)
      BY <1>1 DEF CreateSessionFile, RowInv, Archive!Create
    <2>2. QED
      BY <2>1 DEF Archive!Next
  <1>2. CASE StartInsert
    <2>1. PICK i \in Instances, s \in Sessions :
            i = mu.inst /\ s = mu.sess /\ row[i] = "none"
      BY <1>2 DEF StartInsert, HolderInv, Starting, Unused
    <2>2. CASE /\ file[mu.sess] = "ready" /\ file' = file
               /\ row' = [row EXCEPT ![mu.inst] = "open"]
               /\ home' = [home EXCEPT ![mu.inst] = mu.sess]
      <3>1. Archive!Begin(i, s)
        BY <1>2, <2>1, <2>2 DEF StartInsert, Archive!Begin
      <3>2. QED
        BY <3>1 DEF Archive!Next
    <2>3. CASE UNCHANGED <<row, home>>
      BY <1>2, <2>3, HiddenStep DEF StartInsert, Touched
    <2>4. QED
      BY <1>2, <2>2, <2>3 DEF StartInsert
  <1>3. CASE StartActivate
    <2>1. mu.inst \in Instances /\ row[mu.inst] = "open" /\ stored[mu.inst] = 0
      BY <1>3 DEF StartActivate, HolderInv, Starting, Untouched
    <2>2. CASE activeRuns' = activeRuns \cup {mu.inst}
      <3>1. Archive!GoLive(mu.inst)
        BY <1>3, <2>1, <2>2 DEF StartActivate, Archive!GoLive
      <3>2. QED
        BY <2>1, <3>1 DEF Archive!Next
    <2>3. CASE activeRuns' = activeRuns
      BY <1>3, <2>3, HiddenStep DEF StartActivate
    <2>4. QED
      BY <1>3, <2>2, <2>3 DEF StartActivate
  <1>4. ASSUME NEW w \in Writers, WriteExec(w) PROVE [Archive!Next]_(Archive!vars)
    <2>1. CASE UNCHANGED stored
      BY <1>4, <2>1, HiddenStep DEF WriteExec
    <2>2. CASE /\ insertStmt[writer[w].inst] = "open"
               /\ stored' = [stored EXCEPT ![writer[w].inst] = @ + 1]
      <3>1. writer[w].inst \in activeRuns
        BY <1>4, <2>2 DEF WriteExec, StmtInv
      <3>2. Archive!Record(writer[w].inst)
        BY <1>4, <2>2, <3>1 DEF WriteExec, Archive!Record
      <3>3. QED
        BY <3>1, <3>2 DEF Archive!Next
    <2>3. QED
      BY <1>4, <2>1, <2>2 DEF WriteExec
  <1>5. ASSUME NEW i \in Instances, StopFinalize(i) PROVE [Archive!Next]_(Archive!vars)
    <2>1. CASE UNCHANGED <<row, rowCount>>
      BY <1>5, <2>1, HiddenStep DEF StopFinalize
    <2>2. CASE /\ i \in activeRuns
               /\ row' = [row EXCEPT ![i] = "stopped"]
               /\ rowCount' = [rowCount EXCEPT ![i] = FinalCount(i)]
      <3>1. row[i] = "open"
        BY <1>5, <2>2 DEF StopFinalize, RowInv, Stopping, Free
      <3>2. eventCount[i] <= stored[i]
        <4>1. Cardinality(Uncounted(i)) \in Nat
          BY UncountedFinite, FS_CardinalityType
        <4>2. stored[i] = eventCount[i] + Cardinality(Uncounted(i))
          BY <2>2 DEF CountAccounting
        <4>3. QED
          BY <4>1, <4>2
      <3>3. PICK n \in 0..stored[i] : n = eventCount[i]
        BY <3>2
      <3>4. Archive!Finish(i, n)
        BY <1>5, <2>2, <3>1, <3>2, <3>3 DEF StopFinalize, FinalCount, Archive!Finish
      <3>5. QED
        BY <3>4 DEF Archive!Next
    <2>3. QED
      BY <1>5, <2>1, <2>2 DEF StopFinalize
  <1>6. CASE StopIndex
    <2>1. mu.inst \in Instances
      BY <1>6 DEF StopIndex, HolderInv, Stopping
    <2>2. CASE activeRuns' = activeRuns \ {mu.inst}
      <3>1. Archive!Leave({mu.inst})
        BY <1>6, <2>2 DEF StopIndex, Archive!Leave
      <3>2. QED
        BY <2>1, <3>1 DEF Archive!Next
    <2>3. CASE UNCHANGED activeRuns
      BY <1>6, <2>3, HiddenStep DEF StopIndex
    <2>4. QED
      BY <1>6, <2>2, <2>3 DEF StopIndex
  <1>7. CASE DeleteFile
    <2>1. PICK s \in Sessions : s = mu.sess /\ ActiveIn(s) = {}
      BY <1>7 DEF DeleteFile, HolderInv
    <2>2. CASE UNCHANGED <<file, row>>
      BY <1>7, <2>2, HiddenStep DEF DeleteFile
    <2>3. CASE /\ file' = [file EXCEPT ![mu.sess] = "absent"]
               /\ row' = [i \in Instances |-> IF i \in RowsOf(mu.sess) THEN "deleted" ELSE row[i]]
      <3>1. CASE file[mu.sess] = "ready"
        <4>1. Archive!Delete(s)
          BY <1>7, <2>1, <2>3, <3>1 DEF DeleteFile, Archive!Delete, RowsOf, ActiveIn
        <4>2. QED
          BY <4>1 DEF Archive!Next
      <3>2. CASE file[mu.sess] # "ready"
        <4>1. \A i \in RowsOf(mu.sess) : row[i] = "deleted"
          BY <3>2 DEF RowsOf, RowInv
        <4>2. row' = row
          BY <2>3, <4>1 DEF RowsOf
        <4>3. QED
          BY <1>7, <2>1, <2>3, <3>2, <4>2, HiddenStep DEF DeleteFile
      <3>3. QED
        BY <3>1, <3>2
    <2>4. QED
      BY <1>7, <2>2, <2>3 DEF DeleteFile
  <1>8. CASE Crash
    <2>1. Archive!Leave(activeRuns)
      BY <1>8 DEF Crash, Archive!Leave
    <2>2. QED
      BY <2>1 DEF Archive!Next
  <1>9. CASE HiddenSteps
    <2>1. UNCHANGED <<row, home, rowCount, stored, activeRuns, generated>>
      BY <1>9 DEF vars, HiddenSteps, CreateSessionIndex, StartOpen, StartIndex, WriteLookup, WriteCount, StopRequest, StopStmt, DeleteIndex, ReadLookup, ReadUse, VerifyReadDir, VerifyListAll, VerifyRemove, VerifyAdd, VerifyDone
    <2>2. \A s \in Sessions : file'[s] = "ready" <=> file[s] = "ready"
      BY <1>9 DEF vars, HiddenSteps, Touched, CreateSessionIndex, StartOpen, StartIndex, WriteLookup, WriteCount, StopRequest, StopStmt, DeleteIndex, ReadLookup, ReadUse, VerifyReadDir, VerifyListAll, VerifyRemove, VerifyAdd, VerifyDone
    <2>3. QED
      BY <2>1, <2>2, HiddenStep
  <1>10. QED
    <2>1. CASE \E s \in Sessions : CreateSessionFile(s) \/ CreateSessionIndex(s)
      BY <2>1, <1>1, <1>9 DEF HiddenSteps
    <2>2. CASE \/ StartInsert \/ StartActivate \/ StopIndex \/ DeleteFile \/ Crash
      BY <2>2, <1>2, <1>3, <1>6, <1>7, <1>8
    <2>3. CASE \E w \in Writers : WriteExec(w) \/ WriteCount(w)
      BY <2>3, <1>4, <1>9 DEF HiddenSteps
    <2>4. CASE \E i \in Instances : StopRequest(i) \/ StopFinalize(i)
      BY <2>4, <1>5, <1>9 DEF HiddenSteps
    <2>5. CASE \/ \E s \in Sessions : DeleteIndex(s) \/ VerifyRemove(s) \/ VerifyAdd(s)
               \/ StartIndex \/ StopStmt \/ VerifyReadDir \/ VerifyListAll \/ VerifyDone
               \/ \E i \in Instances, s \in Sessions : StartOpen(i, s)
               \/ \E w \in Writers, i \in Instances : WriteLookup(w, i)
               \/ \E r \in Readers, s \in Sessions : ReadLookup(r, s)
               \/ \E r \in Readers : ReadUse(r)
               \/ UNCHANGED vars
      BY <2>5, <1>9 DEF HiddenSteps
    <2>6. QED
      BY <2>1, <2>2, <2>3, <2>4, <2>5 DEF Next

\* The store implements the archive: a run gets one final count, collects
\* events only while live, and a deleted session never exists again.
THEOREM ImplementsArchive == Spec => ArchiveSpec
  <1>1. Init => Archive!Init
    BY DEF Init, InitMemory, Archive!Init
  <1>2. QED
    BY <1>1, ArchiveStep, StoreInvariant, PTL DEF Spec, ArchiveSpec, Archive!Spec
=============================================================================
