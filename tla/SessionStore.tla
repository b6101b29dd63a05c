----------------------------- MODULE SessionStore -----------------------------
(***************************************************************************)
(* internal/session: the recording of gadget runs into one SQLite file per *)
(* session plus the index database that lists the sessions.                *)
(*                                                                         *)
(* The RWMutex Service.mu is the record mu: its field op says which step   *)
(* of which critical section runs next, so that what happens OUTSIDE the   *)
(* mutex (event inserts on a prepared statement, AddSession of             *)
(* CreateSession, reads on a connection looked up earlier, the end of the  *)
(* process) interleaves with every statement executed under it.            *)
(*                                                                         *)
(* An instance ID is a fresh UUID that starts at most one run              *)
(* (pkg/gadget/service.go:176,192), so a run and the connection opened for *)
(* it are both named by their instance.                                    *)
(***************************************************************************)
EXTENDS Integers, FiniteSets

CONSTANTS
  Sessions,    \* the session UUIDs that may be generated
  Instances,   \* the instance UUIDs that may be generated
  Writers,     \* goroutines that deliver events and log lines
  Readers,     \* goroutines that serve getSession, getGadgetRun, getRunEvents
  NoSession,   \* no session
  NoInstance,  \* no instance, and a temporary connection
  MaxEvents,   \* bound: a WriteEvent starts only below this many stored events
  Faults,      \* the statements that may return an error (SQLITE_BUSY, I/O)
  CanCrash,    \* whether the process may end in the middle of anything
  Repair       \* whether anything calls VerifyIndex (nothing does today)

FaultPoints == {"createFile", "indexAdd", "insertRun", "prepare", "indexUpdate",
                "insertEvent", "finalize", "removeFile"}

ASSUME StoreAssumption ==
  /\ NoSession \notin Sessions
  /\ NoInstance \notin Instances
  /\ IsFiniteSet(Instances)
  /\ IsFiniteSet(Writers)
  /\ MaxEvents \in Nat
  /\ Faults \subseteq FaultPoints
  /\ CanCrash \in BOOLEAN
  /\ Repair \in BOOLEAN

VARIABLES
  \* on disk
  file,        \* <session>.db: absent, bare (no session row) or ready
  indexed,     \* the sessions with a row in index.db
  runCount,    \* run_count of that row
  row,         \* the gadget_runs row of an instance's run
  home,        \* its session_id
  rowCount,    \* its event_count
  stored,      \* the number of its rows in the events table
  \* in memory
  mu,          \* Service.mu and what its holder does next
  activeRuns,  \* the keys of Service.activeRuns
  sessionDB,   \* activeRun.sessionDB, named by the instance that opened it
  insertStmt,  \* activeRun.insertStmt
  eventCount,  \* activeRun.eventCount
  openDBs,     \* the open connections held for active runs
  writer,      \* the progress of each WriteEvent
  reader,      \* the progress of each withSessionDB
  creating,    \* CreateSession calls between the file and the index row
  verify,      \* VerifyIndex: the file names and index rows left to handle
  \* what callers did and know
  generated,   \* session UUIDs already generated
  known,       \* session IDs some client has seen
  started,     \* instances whose StartGadgetRun was called
  startErr,    \* those whose StartGadgetRun returned an error
  stopCall     \* the StopGadgetRun call of each instance

disk    == <<file, indexed, runCount, row, home, rowCount, stored>>
runMem  == <<activeRuns, sessionDB, insertStmt, eventCount, openDBs>>
callers == <<generated, known, started, startErr, stopCall>>
vars == <<disk, mu, runMem, writer, reader, creating, verify, callers>>

-----------------------------------------------------------------------------
(* Helpers *)

Free == [op |-> "free", inst |-> NoInstance, sess |-> NoSession]

\* getActiveSessionDB: the active runs of a session; any of them will do
ActiveIn(s) == {i \in activeRuns : home[i] = s}

\* the gadget_runs rows of a session (GetRunCount)
RowsOf(s) == {i \in Instances : home[i] = s /\ row[i] \in {"open", "stopped"}}

Fails(point) == point \in Faults

\* what a file is once some connection has run a statement on it: SQLite creates
\* a missing file, but without tables
TouchedAsNewSession(s) == "ready"
Touched(s) == IF file[s] = "absent" THEN "bare" ELSE file[s]

\* what UpdateSession stores after RunCount++ (a copy read before, without ++)
NextRunCount(s) == runCount[s] + 1

\* what FinalizeGadgetRun stores
FinalCount(i) == eventCount[i]

\* StopGadgetRun closes the connection of the last active run of the session
ClosesDBAlways(i) == TRUE
ClosesDB(i) == ActiveIn(home[i]) \ {i} = {}

\* DeleteSession's check
DeletableAlways(s) == TRUE
Deletable(s) == ActiveIn(s) = {}

IdleWriter == [pc |-> "idle", inst |-> NoInstance]
IdleReader == [pc |-> "idle", sess |-> NoSession, db |-> NoInstance]
NoVerify   == [files |-> {}, rows |-> {}]

InitMemory ==
  /\ mu = Free
  /\ activeRuns = {}
  /\ sessionDB = [i \in Instances |-> NoInstance]
  /\ insertStmt = [i \in Instances |-> "none"]
  /\ eventCount = [i \in Instances |-> 0]
  /\ openDBs = {}
  /\ writer = [w \in Writers |-> IdleWriter]
  /\ reader = [r \in Readers |-> IdleReader]
  /\ creating = {}
  /\ verify = NoVerify

Init ==
  /\ file = [s \in Sessions |-> "absent"]
  /\ indexed = {}
  /\ runCount = [s \in Sessions |-> 0]
  /\ row = [i \in Instances |-> "none"]
  /\ home = [i \in Instances |-> NoSession]
  /\ rowCount = [i \in Instances |-> 0]
  /\ stored = [i \in Instances |-> 0]
  /\ InitMemory
  /\ generated = {}
  /\ known = {}
  /\ started = {}
  /\ startErr = {}
  /\ stopCall = [i \in Instances |-> "no"]

-----------------------------------------------------------------------------
(* CreateSession: runs without Service.mu *)

CreateSessionFile(s) ==
  /\ s \notin generated
  /\ generated' = generated \cup {s}
  /\ \/ /\ file' = [file EXCEPT ![s] = "ready"]
        /\ creating' = creating \cup {s}
     \/ /\ Fails("createFile")
        /\ file' = [file EXCEPT ![s] = "bare"]
        /\ UNCHANGED creating
  /\ UNCHANGED <<indexed, runCount, row, home, rowCount, stored, mu, runMem,
                 writer, reader, verify, known, started, startErr, stopCall>>

\* DeleteSession of the index: its rows without s (or with s, when forgotten)
IndexKeeping(s) == indexed
IndexWithout(s) == indexed \ {s}

\* IndexDB.AddSession: an INSERT on a primary key
AddSession(s) ==
  /\ s \notin indexed
  /\ indexed' = indexed \cup {s}
  /\ known' = known \cup {s}

CreateSessionIndex(s) ==
  /\ s \in creating
  /\ creating' = creating \ {s}
  /\ \/ AddSession(s) /\ runCount' = [runCount EXCEPT ![s] = 0]
     \/ /\ s \in indexed \/ Fails("indexAdd")
        /\ UNCHANGED <<indexed, known, runCount>>
  /\ UNCHANGED <<file, row, home, rowCount, stored, mu, runMem, writer, reader,
                 verify, generated, started, startErr, stopCall>>

-----------------------------------------------------------------------------
(* StartGadgetRun *)

\* takes mu and reuses the connection of another active run, or opens one
StartOpen(i, s) ==
  /\ mu = Free
  /\ i \notin started
  /\ s \in known
  /\ started' = started \cup {i}
  /\ mu' = [op |-> "startInsert", inst |-> i, sess |-> s]
  /\ IF ActiveIn(s) # {}
       THEN /\ \E j \in ActiveIn(s) : sessionDB' = [sessionDB EXCEPT ![i] = sessionDB[j]]
            /\ UNCHANGED openDBs
       ELSE /\ sessionDB' = [sessionDB EXCEPT ![i] = i]
            /\ openDBs' = openDBs \cup {i}
  /\ UNCHANGED <<disk, activeRuns, insertStmt, eventCount, writer, reader,
                 creating, verify, generated, known, startErr, stopCall>>

\* an early error return: closes the connection when this call opened it
StartReturnsError(i) ==
  /\ mu' = Free
  /\ openDBs' = openDBs \ {i}
  /\ startErr' = startErr \cup {i}

\* CreateGadgetRun: the INSERT, then UpdateTimestamp, which wants a session row;
\* the first statement on a missing file creates an empty one
StartInsert ==
  /\ mu.op = "startInsert"
  /\ LET i == mu.inst
         s == mu.sess
     IN \/ /\ file[s] = "ready"
           /\ row' = [row EXCEPT ![i] = "open"]
           /\ home' = [home EXCEPT ![i] = s]
           /\ mu' = [mu EXCEPT !.op = "startActivate"]
           /\ UNCHANGED <<file, openDBs, startErr>>
        \/ /\ file[s] # "ready"
           /\ file' = [file EXCEPT ![s] = Touched(s)]
           /\ StartReturnsError(i)
           /\ UNCHANGED <<row, home>>
        \/ /\ file[s] = "ready"
           /\ Fails("insertRun")
           /\ \/ UNCHANGED <<row, home>>
              \/ /\ row' = [row EXCEPT ![i] = "open"]
                 /\ home' = [home EXCEPT ![i] = s]
           /\ StartReturnsError(i)
           /\ UNCHANGED file
  /\ UNCHANGED <<indexed, runCount, rowCount, stored, activeRuns, sessionDB,
                 insertStmt, eventCount, writer, reader, creating, verify,
                 generated, known, started, stopCall>>

\* PrepareEventInsert, then the entry in activeRuns
StartActivate ==
  /\ mu.op = "startActivate"
  /\ LET i == mu.inst
     IN \/ /\ activeRuns' = activeRuns \cup {i}
           /\ insertStmt' = [insertStmt EXCEPT ![i] = "open"]
           /\ mu' = [mu EXCEPT !.op = "startIndex"]
           /\ UNCHANGED <<openDBs, startErr>>
        \/ /\ Fails("prepare")
           /\ StartReturnsError(i)
           /\ UNCHANGED <<activeRuns, insertStmt>>
  /\ UNCHANGED <<disk, sessionDB, eventCount, writer, reader, creating, verify,
                 generated, known, started, stopCall>>

\* index GetSession and UpdateSession; an error is returned although the run
\* is active by now
StartIndex ==
  /\ mu.op = "startIndex"
  /\ mu' = Free
  /\ \/ /\ mu.sess \in indexed
        /\ runCount' = [runCount EXCEPT ![mu.sess] = NextRunCount(mu.sess)]
        /\ UNCHANGED startErr
     \/ /\ mu.sess \notin indexed \/ Fails("indexUpdate")
        /\ startErr' = startErr \cup {mu.inst}
        /\ UNCHANGED runCount
  /\ UNCHANGED <<file, indexed, row, home, rowCount, stored, runMem, writer,
                 reader, creating, verify, generated, known, started, stopCall>>

-----------------------------------------------------------------------------
(* WriteEvent: only the lookup and the increment hold Service.mu *)

WriteLookup(w, i) ==
  /\ mu = Free
  /\ writer[w] = IdleWriter
  /\ i \in activeRuns
  /\ stored[i] < MaxEvents
  /\ writer' = [writer EXCEPT ![w] = [pc |-> "exec", inst |-> i]]
  /\ UNCHANGED <<disk, mu, runMem, reader, creating, verify, callers>>

\* as WriteExec, but a failed insert is counted too
WriteExecCountsErrors(w) ==
  /\ writer[w].pc = "exec"
  /\ stored' = IF insertStmt[writer[w].inst] = "open" /\ ~Fails("insertEvent")
                 THEN [stored EXCEPT ![writer[w].inst] = @ + 1] ELSE stored
  /\ writer' = [writer EXCEPT ![w].pc = "count"]
  /\ UNCHANGED <<file, indexed, runCount, row, home, rowCount, mu, runMem,
                 reader, creating, verify, callers>>

\* insertStmt.Exec: an error on a closed statement, and the event is lost
WriteExec(w) ==
  /\ writer[w].pc = "exec"
  /\ LET i == writer[w].inst
     IN \/ /\ insertStmt[i] = "open"
           /\ stored' = [stored EXCEPT ![i] = @ + 1]
           /\ writer' = [writer EXCEPT ![w].pc = "count"]
        \/ /\ insertStmt[i] # "open" \/ Fails("insertEvent")
           /\ writer' = [writer EXCEPT ![w] = IdleWriter]
           /\ UNCHANGED stored
  /\ UNCHANGED <<file, indexed, runCount, row, home, rowCount, mu, runMem,
                 reader, creating, verify, callers>>

WriteCount(w) ==
  /\ mu = Free
  /\ writer[w].pc = "count"
  /\ eventCount' = [eventCount EXCEPT ![writer[w].inst] = @ + 1]
  /\ writer' = [writer EXCEPT ![w] = IdleWriter]
  /\ UNCHANGED <<disk, mu, activeRuns, sessionDB, insertStmt, openDBs, reader,
                 creating, verify, callers>>

-----------------------------------------------------------------------------
(* StopGadgetRun: called once, when RunGadget has returned *)

StopRequest(i) ==
  /\ i \in started
  /\ mu.inst # i
  /\ stopCall[i] = "no"
  /\ stopCall' = [stopCall EXCEPT ![i] = "pending"]
  /\ UNCHANGED <<disk, mu, runMem, writer, reader, creating, verify, generated,
                 known, started, startErr>>

\* as StopFinalize, but it waits for an active run instead of returning nil
StopFinalizeWaits(i) ==
  /\ mu = Free
  /\ stopCall[i] = "pending"
  /\ i \in activeRuns
  /\ row' = [row EXCEPT ![i] = "stopped"]
  /\ rowCount' = [rowCount EXCEPT ![i] = FinalCount(i)]
  /\ mu' = [op |-> "stopStmt", inst |-> i, sess |-> home[i]]
  /\ UNCHANGED <<file, indexed, runCount, home, stored, runMem, writer, reader,
                 creating, verify, callers>>

\* no active run: a no-op; else FinalizeGadgetRun (an UPDATE, then
\* UpdateTimestamp: either may fail, and the entry stays)
StopFinalize(i) ==
  /\ mu = Free
  /\ stopCall[i] = "pending"
  /\ \/ /\ i \notin activeRuns
        /\ stopCall' = [stopCall EXCEPT ![i] = "returned"]
        /\ UNCHANGED <<row, rowCount, mu>>
     \/ /\ i \in activeRuns
        /\ row' = [row EXCEPT ![i] = "stopped"]
        /\ rowCount' = [rowCount EXCEPT ![i] = FinalCount(i)]
        /\ mu' = [op |-> "stopStmt", inst |-> i, sess |-> home[i]]
        /\ UNCHANGED stopCall
     \/ /\ i \in activeRuns
        /\ Fails("finalize")
        /\ \/ UNCHANGED <<row, rowCount>>
           \/ /\ row' = [row EXCEPT ![i] = "stopped"]
              /\ rowCount' = [rowCount EXCEPT ![i] = FinalCount(i)]
        /\ stopCall' = [stopCall EXCEPT ![i] = "returned"]
        /\ UNCHANGED mu
  /\ UNCHANGED <<file, indexed, runCount, home, stored, runMem, writer, reader,
                 creating, verify, generated, known, started, startErr>>

StopStmt ==
  /\ mu.op = "stopStmt"
  /\ insertStmt' = [insertStmt EXCEPT ![mu.inst] = "closed"]
  /\ mu' = [mu EXCEPT !.op = "stopIndex"]
  /\ UNCHANGED <<disk, activeRuns, sessionDB, eventCount, openDBs, writer, reader,
                 creating, verify, callers>>

\* the index row's updated_at; on an error the entry stays in activeRuns
StopIndex ==
  /\ mu.op = "stopIndex"
  /\ mu' = Free
  /\ stopCall' = [stopCall EXCEPT ![mu.inst] = "returned"]
  /\ \/ /\ mu.sess \in indexed
        /\ activeRuns' = activeRuns \ {mu.inst}
        /\ openDBs' = IF ClosesDB(mu.inst) THEN openDBs \ {sessionDB[mu.inst]}
                                           ELSE openDBs
     \/ /\ mu.sess \notin indexed \/ Fails("indexUpdate")
        /\ UNCHANGED <<activeRuns, openDBs>>
  /\ UNCHANGED <<disk, sessionDB, insertStmt, eventCount, writer, reader,
                 creating, verify, generated, known, started, startErr>>

-----------------------------------------------------------------------------
(* DeleteSession *)

DeleteIndex(s) ==
  /\ mu = Free
  /\ s \in known \cap indexed
  /\ Deletable(s)
  /\ indexed' = IndexWithout(s)
  /\ mu' = [op |-> "deleteFile", inst |-> NoInstance, sess |-> s]
  /\ UNCHANGED <<file, runCount, row, home, rowCount, stored, runMem, writer,
                 reader, creating, verify, callers>>

DeleteFile ==
  /\ mu.op = "deleteFile"
  /\ mu' = Free
  /\ \/ /\ file' = [file EXCEPT ![mu.sess] = "absent"]
        /\ row' = [i \in Instances |-> IF i \in RowsOf(mu.sess) THEN "deleted" ELSE row[i]]
     \/ Fails("removeFile") /\ UNCHANGED <<file, row>>
  /\ UNCHANGED <<indexed, runCount, home, rowCount, stored, runMem, writer,
                 reader, creating, verify, callers>>

-----------------------------------------------------------------------------
(* withSessionDB: GetSession, GetGadgetRun, GetRunEvents *)

ReadLookup(r, s) ==
  /\ mu = Free
  /\ reader[r] = IdleReader
  /\ s \in known
  /\ \/ \E i \in ActiveIn(s) :
          reader' = [reader EXCEPT ![r] = [pc |-> "use", sess |-> s, db |-> sessionDB[i]]]
     \/ /\ ActiveIn(s) = {}
        /\ reader' = [reader EXCEPT ![r] = [pc |-> "use", sess |-> s, db |-> NoInstance]]
  /\ UNCHANGED <<disk, mu, runMem, writer, creating, verify, callers>>

\* a temporary connection to a missing file creates an empty one
ReadUse(r) ==
  /\ reader[r].pc = "use"
  /\ LET s == reader[r].sess
     IN file' = IF reader[r].db = NoInstance
                  THEN [file EXCEPT ![s] = Touched(s)] ELSE file
  /\ reader' = [reader EXCEPT ![r] = IdleReader]
  /\ UNCHANGED <<indexed, runCount, row, home, rowCount, stored, mu, runMem,
                 writer, creating, verify, callers>>

-----------------------------------------------------------------------------
(* VerifyIndex *)

VerifyReadDir ==
  /\ Repair
  /\ mu = Free
  /\ verify' = [files |-> {s \in Sessions : file[s] # "absent"}, rows |-> {}]
  /\ mu' = [Free EXCEPT !.op = "verifyList"]
  /\ UNCHANGED <<disk, runMem, writer, reader, creating, callers>>

VerifyListAll ==
  /\ mu.op = "verifyList"
  /\ verify' = [files |-> verify.files \ indexed, rows |-> indexed \ verify.files]
  /\ mu' = [mu EXCEPT !.op = "verifyFix"]
  /\ UNCHANGED <<disk, runMem, writer, reader, creating, callers>>

\* an index row without a file goes
VerifyRemove(s) ==
  /\ mu.op = "verifyFix"
  /\ s \in verify.rows
  /\ indexed' = IndexWithout(s)
  /\ verify' = [verify EXCEPT !.rows = @ \ {s}]
  /\ UNCHANGED <<file, runCount, row, home, rowCount, stored, mu, runMem, writer,
                 reader, creating, callers>>

\* a file without an index row is listed when its metadata can be read
VerifyAdd(s) ==
  /\ mu.op = "verifyFix"
  /\ verify.rows = {}
  /\ s \in verify.files
  /\ verify' = [verify EXCEPT !.files = @ \ {s}]
  /\ IF file[s] = "ready"
       THEN AddSession(s) /\ runCount' = [runCount EXCEPT ![s] = Cardinality(RowsOf(s))]
       ELSE UNCHANGED <<indexed, known, runCount>>
  /\ UNCHANGED <<file, row, home, rowCount, stored, mu, runMem, writer, reader,
                 creating, generated, started, startErr, stopCall>>

\* done, or returns the error of an AddSession that lost to CreateSession
VerifyDone ==
  /\ mu.op = "verifyFix"
  /\ verify.rows = {}
  /\ verify.files = {} \/ verify.files \cap indexed # {} \/ Fails("indexAdd")
  /\ mu' = Free
  /\ verify' = NoVerify
  /\ UNCHANGED <<disk, runMem, writer, reader, creating, callers>>

-----------------------------------------------------------------------------
\* The process ends (nothing calls Service.Close before that, and Close does
\* not finalize runs either) and starts again with NewService.
Crash ==
  /\ CanCrash
  /\ mu' = Free
  /\ activeRuns' = {}
  /\ sessionDB' = [i \in Instances |-> NoInstance]
  /\ insertStmt' = [i \in Instances |-> "none"]
  /\ eventCount' = [i \in Instances |-> 0]
  /\ openDBs' = {}
  /\ writer' = [w \in Writers |-> IdleWriter]
  /\ reader' = [r \in Readers |-> IdleReader]
  /\ creating' = {}
  /\ verify' = NoVerify
  /\ stopCall' = [i \in Instances |-> IF i \in started THEN "returned" ELSE stopCall[i]]
  /\ UNCHANGED <<disk, generated, known, started, startErr>>

Next ==
  \/ \E s \in Sessions : CreateSessionFile(s) \/ CreateSessionIndex(s)
  \/ \E i \in Instances, s \in Sessions : StartOpen(i, s)
  \/ StartInsert \/ StartActivate \/ StartIndex
  \/ \E w \in Writers, i \in Instances : WriteLookup(w, i)
  \/ \E w \in Writers : WriteExec(w) \/ WriteCount(w)
  \/ \E i \in Instances : StopRequest(i) \/ StopFinalize(i)
  \/ StopStmt \/ StopIndex
  \/ \E s \in Sessions : DeleteIndex(s)
  \/ DeleteFile
  \/ \E r \in Readers, s \in Sessions : ReadLookup(r, s)
  \/ \E r \in Readers : ReadUse(r)
  \/ VerifyReadDir \/ VerifyListAll \/ VerifyDone
  \/ \E s \in Sessions : VerifyRemove(s) \/ VerifyAdd(s)
  \/ Crash

Spec == Init /\ [][Next]_vars

\* WF: a goroutine that holds mu keeps running. SF: Go's RWMutex starves no
\* waiter, so a blocked StopGadgetRun gets the lock in the end.
Fairness ==
  /\ WF_vars(StartInsert) /\ WF_vars(StartActivate) /\ WF_vars(StartIndex)
  /\ WF_vars(StopStmt) /\ WF_vars(StopIndex) /\ WF_vars(DeleteFile)
  /\ WF_vars(VerifyListAll) /\ WF_vars(VerifyDone)
  /\ \A s \in Sessions : WF_vars(VerifyRemove(s)) /\ WF_vars(VerifyAdd(s))
  /\ \A i \in Instances : SF_vars(StopFinalize(i))

FairSpec == Spec /\ Fairness

-----------------------------------------------------------------------------
(* Properties *)

MuOps == {"free", "startInsert", "startActivate", "startIndex", "stopStmt",
          "stopIndex", "deleteFile", "verifyList", "verifyFix"}

\* Every variable keeps its shape.
TypeOK ==
  /\ file \in [Sessions -> {"absent", "bare", "ready"}]
  /\ indexed \subseteq Sessions
  /\ runCount \in [Sessions -> Nat]
  /\ row \in [Instances -> {"none", "open", "stopped", "deleted"}]
  /\ home \in [Instances -> Sessions \cup {NoSession}]
  /\ rowCount \in [Instances -> Nat]
  /\ stored \in [Instances -> Nat]
  /\ mu \in [op : MuOps, inst : Instances \cup {NoInstance},
             sess : Sessions \cup {NoSession}]
  /\ activeRuns \subseteq Instances
  /\ sessionDB \in [Instances -> Instances \cup {NoInstance}]
  /\ insertStmt \in [Instances -> {"none", "open", "closed"}]
  /\ eventCount \in [Instances -> Nat]
  /\ openDBs \subseteq Instances
  /\ writer \in [Writers -> [pc : {"idle", "exec", "count"},
                             inst : Instances \cup {NoInstance}]]
  /\ reader \in [Readers -> [pc : {"idle", "use"}, sess : Sessions \cup {NoSession},
                             db : Instances \cup {NoInstance}]]
  /\ creating \subseteq Sessions
  /\ verify \in [files : SUBSET Sessions, rows : SUBSET Sessions]
  /\ generated \subseteq Sessions
  /\ known \subseteq Sessions
  /\ started \subseteq Instances
  /\ startErr \subseteq Instances
  /\ stopCall \in [Instances -> {"no", "pending", "returned"}]

\* The active runs of a session write through one connection, it is open, and
\* no connection outlives the last run that uses it (service.go:172-181,291-296).
ConnectionsMatchActiveRuns ==
  /\ \A i \in activeRuns : sessionDB[i] \in openDBs
  /\ \A i, j \in activeRuns : home[i] = home[j] => sessionDB[i] = sessionDB[j]
  /\ mu = Free => \A c \in openDBs : \E i \in activeRuns : sessionDB[i] = c

\* A session that is being recorded to keeps its file and its run row: neither
\* DeleteSession nor a late opener takes them away (service.go:391-393).
ActiveSessionPresent ==
  \A i \in activeRuns : file[home[i]] = "ready" /\ row[i] \in {"open", "stopped"}

\* The writers of an instance between the INSERT and the increment.
Uncounted(i) == {w \in Writers : writer[w].pc = "count" /\ writer[w].inst = i}

\* While a run is active every stored event is counted, or its writer is still
\* on the way to the lock (service.go:245-252).
CountAccounting ==
  \A i \in activeRuns : stored[i] = eventCount[i] + Cardinality(Uncounted(i))

\* The index tells the truth about the files.  A listed session has its file, as
\* long as nothing calls VerifyIndex: it is indexed after the file exists and
\* unindexed before the file goes (service.go:140-154,395-407).  Its run_count
\* never exceeds its gadget_runs rows: it is raised after the row is there, and
\* a failed or lost update only leaves it lower (service.go:218-229).
IndexedHasFile ==
  \A s \in indexed :
    /\ ~Repair => file[s] = "ready"
    /\ runCount[s] <= Cardinality(RowsOf(s))

\* An event row is added to a run only while the run is active: a writer that
\* looked the run up before StopGadgetRun cannot write after it.
EventsOnlyWhileActive ==
  [][\A i \in Instances : stored'[i] # stored[i] => i \in activeRuns]_vars

\* A session whose file is gone never becomes a session again, whoever opens
\* the database late or rebuilds the index.
DeletedStaysDeleted ==
  [][\A s \in generated : file[s] # "ready" =>
       file'[s] # "ready" /\ (s \in indexed' => s \in indexed \cup creating)]_vars

\* "Returns nil if recording setup fails (gadget will continue without
\* recording)" (pkg/gadget/service.go:70).
NoRecordingAfterFailedStart == \A i \in startErr : i \notin activeRuns

\* A StopGadgetRun call returns, however many other calls want the lock.
StopReturns ==
  \A i \in Instances : stopCall[i] = "pending" ~> stopCall[i] = "returned"

-----------------------------------------------------------------------------
(* The inductive invariant behind the safety properties *)

Untouched(i) ==
  /\ i \notin activeRuns
  /\ insertStmt[i] = "none"
  /\ eventCount[i] = 0
  /\ stored[i] = 0

Unused(i) == Untouched(i) /\ row[i] = "none" /\ home[i] = NoSession

Starting == mu.op \in {"startInsert", "startActivate"}
Stopping == mu.op \in {"stopStmt", "stopIndex"}

\* What the holder of mu has established for the steps it still has to make.
HolderInv ==
  /\ mu.op = "free" => mu = Free
  /\ mu.op \in {"deleteFile", "verifyList", "verifyFix"} => mu.inst = NoInstance
  /\ Starting \/ Stopping \/ mu.op = "startIndex" =>
       mu.inst \in started /\ mu.sess \in Sessions
  /\ Starting => stopCall[mu.inst] = "no"
  /\ mu.op = "startInsert" => Unused(mu.inst)
  /\ mu.op = "startActivate" =>
       Untouched(mu.inst) /\ row[mu.inst] = "open" /\ home[mu.inst] = mu.sess
  /\ Stopping \/ mu.op = "startIndex" =>
       mu.inst \in activeRuns /\ home[mu.inst] = mu.sess
  /\ Stopping => row[mu.inst] = "stopped"
  /\ mu.op = "stopIndex" => insertStmt[mu.inst] = "closed"
  /\ mu.op = "deleteFile" => mu.sess \in Sessions /\ ActiveIn(mu.sess) = {}

\* An instance is fresh until its StartGadgetRun.
FreshInv == \A i \in Instances \ started : Unused(i) /\ stopCall[i] = "no"

\* Run rows and active runs live in session files.
RowInv ==
  /\ \A s \in Sessions : file[s] = "ready" => s \in generated
  /\ \A i \in Instances : row[i] \in {"open", "stopped"} =>
       home[i] \in Sessions /\ file[home[i]] = "ready"
  /\ \A i \in activeRuns : row[i] \in {"open", "stopped"}
  /\ \A i \in activeRuns : row[i] = "stopped" =>
       stopCall[i] = "returned" \/ (Stopping /\ mu.inst = i)

\* Who can still execute an insert statement.
StmtInv ==
  /\ \A i \in Instances : insertStmt[i] = "open" => i \in activeRuns
  /\ \A i \in activeRuns : insertStmt[i] # "none"
  /\ \A w \in Writers : writer[w].pc # "idle" =>
       writer[w].inst \in Instances /\ insertStmt[writer[w].inst] # "none"

\* Which run uses which connection.
ConnInv ==
  /\ \A i \in activeRuns : sessionDB[i] \in openDBs /\ home[sessionDB[i]] = home[i]
  /\ \A i, j \in activeRuns : home[i] = home[j] => sessionDB[i] = sessionDB[j]
  /\ \A c \in openDBs : \/ \E i \in activeRuns : sessionDB[i] = c
                        \/ Starting /\ mu.inst = c /\ sessionDB[c] = c
  /\ Starting =>
       /\ sessionDB[mu.inst] \in openDBs
       /\ \A i \in ActiveIn(mu.sess) : sessionDB[i] = sessionDB[mu.inst]
       /\ IF sessionDB[mu.inst] = mu.inst THEN ActiveIn(mu.sess) = {}
                                          ELSE home[sessionDB[mu.inst]] = mu.sess

\* What the index row promises.  Unless VerifyIndex runs, an ID goes from creating
\* to known once, and DeleteSession removes the file of an ID nobody can list
\* again; the run_count is behind the rows, by one while a start has yet to count
\* its own, and a row listed again while its file goes counts no run.
IndexInv ==
  /\ ~Repair =>
       /\ mu.op \notin {"verifyList", "verifyFix"}
       /\ indexed \subseteq known
       /\ known \cup creating \subseteq generated
       /\ known \cap creating = {}
       /\ \A s \in indexed \cup creating : file[s] = "ready"
       /\ mu.op = "deleteFile" => mu.sess \in known \ indexed
  /\ \A s \in indexed : runCount[s] <= Cardinality(RowsOf(s))
  /\ mu.sess \in indexed =>
       /\ mu.op \in {"startActivate", "startIndex"} =>
            runCount[mu.sess] + 1 <= Cardinality(RowsOf(mu.sess))
       /\ mu.op = "deleteFile" => runCount[mu.sess] = 0

\* What is true between any two steps of StartGadgetRun, WriteEvent,
\* StopGadgetRun, DeleteSession and VerifyIndex, and makes the properties hold.
StoreInv ==
  /\ TypeOK /\ HolderInv /\ FreshInv /\ RowInv /\ StmtInv /\ ConnInv
  /\ CountAccounting /\ IndexInv

-----------------------------------------------------------------------------
(* What the store implements *)

Archive == INSTANCE SessionArchive WITH
  sessions <- {s \in Sessions : file[s] = "ready"},
  past     <- generated,
  run      <- [i \in Instances |-> CASE row[i] = "open" -> "begun"
                                      [] row[i] = "stopped" -> "finished"
                                      [] OTHER -> row[i]],
  where    <- home,
  live     <- activeRuns,
  events   <- stored,
  count    <- rowCount

\* The files and the runs in memory implement the archive of SessionArchive: a
\* run is counted once, grows only while live, and a deleted session is over.
ArchiveSpec == Archive!Spec

=============================================================================
