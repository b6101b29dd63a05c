------------------------------ MODULE EventTable ------------------------------
(* The table visualizer (plugins/builtin/visualizers/table/Table.svelte) over   *)
(* the ring buffer of a running gadget or the rows of a selected snapshot.  A   *)
(* search filters in a web worker (workers/filter.worker.ts): all rows 150 ms   *)
(* after the query changed, afterwards only the new events.  Page and worker    *)
(* exchange messages in order.  Svelte runs the effects of a change before the  *)
(* next task; the events of a flush are counted in the task that stores them.   *)
EXTENDS RingBuffer, SequencesExt

CONSTANTS Query,         \* what can be searched for; "" searches for nothing
          Fields,        \* the columns that can be shown
          Hits(_, _, _), \* Hits(item, query, columns): a shown column has the text
          Snapshots,     \* what snapshotData may be; undefined: events of the ring
          MaxInputs      \* bound: changes of the search, the columns and the sorting

ASSUME TableAssumption ==
  /\ IsFiniteSet(Item) /\ Item = 1 .. Cardinality(Item)  \* the events, as they come
  /\ "" \in Query /\ Snapshots \subseteq Seq(Item) \cup {undefined} /\ undefined \notin Seq(Item)
  /\ undefined \notin [query : Query, version : Nat, length : Nat]

VARIABLES eventVersion,                  \* events counted so far
          snapshotData,
          searchQuery, searchModeFilter, \* filter rows, or only highlight them
          overrides,                     \* stored: columns that differ from the default
          isRunning, sort, storedSort,   \* sort: undefined or the direction
          lastFiltered,                  \* query, version and length last asked for
          lastSnapshotDataRef,
          debounce,                      \* undefined, or what the timer will remember
          requests, worker, responses,   \* messages, and the worker's own lists
          pendingRequestId, lastCompletedRequestId,
          filteredEvents, hasReceivedFilterResult,
          inputs,
          filteredAll                    \* history: the version all rows were filtered at by
                                         \* the columns shown, -1: not by these

searchVars == <<searchQuery, searchModeFilter>>
filterVars == <<lastFiltered, lastSnapshotDataRef, debounce, requests, pendingRequestId,
                filteredEvents, hasReceivedFilterResult>>
sortVars   == <<sort, storedSort>>
answerVars == <<worker, responses, lastCompletedRequestId>>
tableVars == <<vars, eventVersion, snapshotData, searchVars, overrides, isRunning, sortVars,
               filterVars, answerVars, inputs, filteredAll>>

NeverFiltered == [query |-> "", version |-> 0, length |-> 0]
EmptyWorker == [rows |-> <<>>, query |-> "", columns |-> {}]

TableInit ==
  /\ Init
  /\ eventVersion = 0 /\ snapshotData \in Snapshots
  /\ searchQuery = "" /\ searchModeFilter = TRUE
  /\ overrides = {} /\ isRunning = TRUE /\ sort = undefined /\ storedSort = undefined
  /\ lastFiltered = NeverFiltered /\ lastSnapshotDataRef = undefined
  /\ debounce = undefined
  /\ requests = <<>> /\ worker = EmptyWorker /\ responses = <<>>
  /\ pendingRequestId = 0 /\ lastCompletedRequestId = 0
  /\ filteredEvents = <<>> /\ hasReceivedFilterResult = FALSE
  /\ inputs = 0 /\ filteredAll = -1

-----------------------------------------------------------------------------
isSnapshotMode == snapshotData # undefined
needsFiltering == searchQuery # "" /\ searchModeFilter
canSort == ~isRunning \/ isSnapshotMode
currentRows == IF isSnapshotMode THEN snapshotData ELSE toArray
hasData == isSnapshotMode => snapshotData # <<>>

\* All columns are shown by default; a toggle adds or removes an override.
visibleFields == Fields \ overrides

\* the rows that match, in their order
Found(found, item, query, columns) ==
  IF Hits(item, query, columns) THEN Append(found, item) ELSE found
Matches(rows, query, columns) ==
  LET found[n \in 0 .. Len(rows)] ==
        IF n = 0 THEN <<>> ELSE Found(found[n - 1], rows[n], query, columns)
  IN  found[Len(rows)]

\* While the first result is awaited the rows are shown unfiltered.
unsortedEvents == IF needsFiltering /\ hasReceivedFilterResult THEN filteredEvents ELSE currentRows
SortedBy(rows, direction) ==
  IF direction = undefined \/ ~canSort THEN rows
  ELSE SortSeq(rows, LAMBDA a, b : IF direction = "asc" THEN a < b ELSE b < a)
displayEvents == SortedBy(unsortedEvents, sort)

\* in filter mode every row shown is a match, in highlight mode those that match
matchIndices ==
  IF searchQuery = "" THEN {}
  ELSE IF searchModeFilter THEN DOMAIN filteredEvents
  ELSE {i \in DOMAIN displayEvents : Hits(displayEvents[i], searchQuery, visibleFields)}

-----------------------------------------------------------------------------
(* The effects of a change.  They see the new values, so they are written with *)
(* primes and conjoined after the change.                                      *)

Post(type, rows, query, columns) ==
  /\ pendingRequestId' = pendingRequestId + 1
  /\ requests' = Append(requests, [id |-> pendingRequestId + 1, type |-> type,
                                   rows |-> rows, query |-> query, columns |-> columns])
PostNothing == UNCHANGED <<pendingRequestId, requests>>

\* nothing is asked about no rows
requestFullFilter(rows, query, columns) ==
  IF rows = <<>> THEN PostNothing
  ELSE Post("filter", rows, query, columns)

incrementalOneShort(rows, new, query, columns) ==
  Post("incremental", SubSeq(rows, 1, new - 1), query, columns)
requestIncrementalFilter(rows, new, query, columns) ==
  Post("incremental", SubSeq(rows, 1, new), query, columns)

\* the worker forgets too, after what it was asked before
ResetKeepsQuery ==
  /\ requests' = Append(requests, [type |-> "reset"])
  /\ filteredEvents' = <<>> /\ hasReceivedFilterResult' = FALSE
  /\ UNCHANGED <<pendingRequestId, lastFiltered, lastSnapshotDataRef>>
Reset ==
  /\ requests' = Append(requests, [type |-> "reset"])
  /\ lastFiltered' = NeverFiltered /\ lastSnapshotDataRef' = undefined
  /\ filteredEvents' = <<>> /\ hasReceivedFilterResult' = FALSE
  /\ UNCHANGED pendingRequestId

\* Any change stops a running timer; while the query is still new, it starts
\* another one.
NothingToFilter ==
  /\ debounce' = undefined /\ PostNothing
  /\ UNCHANGED <<lastFiltered, lastSnapshotDataRef, filteredEvents, hasReceivedFilterResult>>
FilterAgain ==
  /\ debounce' = [query |-> searchQuery', version |-> eventVersion', length |-> Len(currentRows')]
  /\ PostNothing
  /\ UNCHANGED <<lastFiltered, lastSnapshotDataRef, filteredEvents, hasReceivedFilterResult>>
FilterNew(new) ==
  /\ debounce' = undefined
  /\ lastFiltered' = [lastFiltered EXCEPT !.version = eventVersion', !.length = Len(currentRows')]
  /\ IF isSnapshotMode' THEN requestFullFilter(currentRows', searchQuery', visibleFields')
     ELSE requestIncrementalFilter(currentRows', new, searchQuery', visibleFields')
  /\ UNCHANGED <<lastSnapshotDataRef, filteredEvents, hasReceivedFilterResult>>

FilterEffects ==
  LET new == Len(currentRows') - lastFiltered.length
      changed == \/ searchQuery' # lastFiltered.query \/ snapshotData' # lastSnapshotDataRef
                 \/ lastFiltered.version = 0
  IN IF ~needsFiltering' THEN
       /\ debounce' = undefined
       /\ IF needsFiltering THEN Reset
          ELSE /\ PostNothing
               /\ UNCHANGED <<lastFiltered, lastSnapshotDataRef, filteredEvents, hasReceivedFilterResult>>
     ELSE IF ~hasData' THEN NothingToFilter
     ELSE IF changed THEN FilterAgain
     ELSE IF eventVersion' # lastFiltered.version /\ new > 0 THEN FilterNew(new)
     ELSE NothingToFilter

-----------------------------------------------------------------------------
Arrive ==
  /\ ~isSnapshotMode /\ eventVersion < Cardinality(Item)
  /\ push(eventVersion + 1)
  /\ eventVersion' = eventVersion + 1
  /\ UNCHANGED <<snapshotData, searchVars, overrides, isRunning, sortVars, answerVars, inputs, filteredAll>>
  /\ FilterEffects

MayInput == inputs < MaxInputs /\ inputs' = inputs + 1

\* another snapshot is selected, or a new one arrives and is shown
SelectSnapshot ==
  /\ isSnapshotMode
  /\ snapshotData' \in Snapshots \ {undefined, snapshotData}
  /\ \/ MayInput /\ UNCHANGED eventVersion
     \/ eventVersion < Cardinality(Item) /\ eventVersion' = eventVersion + 1 /\ UNCHANGED inputs
  /\ UNCHANGED <<vars, searchVars, overrides, isRunning, sortVars, answerVars, filteredAll>>
  /\ FilterEffects

Search ==
  /\ MayInput
  /\ searchQuery' \in Query \ {searchQuery} /\ UNCHANGED searchModeFilter
  /\ UNCHANGED <<vars, eventVersion, snapshotData, overrides, isRunning, sortVars, answerVars, filteredAll>>
  /\ FilterEffects

ToggleFilterMode ==
  /\ MayInput
  /\ searchModeFilter' = ~searchModeFilter /\ UNCHANGED searchQuery
  /\ UNCHANGED <<vars, eventVersion, snapshotData, overrides, isRunning, sortVars, answerVars, filteredAll>>
  /\ FilterEffects

toggleColumnVisibility ==
  /\ MayInput
  /\ \E field \in Fields :
       overrides' = IF field \in overrides THEN overrides \ {field} ELSE overrides \cup {field}
  /\ filteredAll' = -1
  /\ UNCHANGED <<vars, eventVersion, snapshotData, searchVars, isRunning, sortVars, answerVars>>
  /\ FilterEffects

\* ascending, descending, not at all; stored for snapshots only
handleColumnSort ==
  /\ MayInput /\ canSort
  /\ sort' = IF sort = undefined THEN "asc" ELSE IF sort = "asc" THEN "desc" ELSE undefined
  /\ storedSort' = IF isSnapshotMode THEN sort' ELSE storedSort
  /\ UNCHANGED <<vars, eventVersion, snapshotData, searchVars, overrides, isRunning, filterVars, answerVars, filteredAll>>

\* A gadget that runs again resets the sorting of its events.
ToggleRunning ==
  /\ MayInput
  /\ isRunning' = ~isRunning
  /\ sort' = IF isRunning' /\ ~isSnapshotMode THEN undefined ELSE sort
  /\ UNCHANGED <<vars, eventVersion, snapshotData, searchVars, overrides, storedSort, filterVars, answerVars, filteredAll>>

DebounceTimer ==
  /\ debounce # undefined
  /\ debounce' = undefined
  /\ lastFiltered' = debounce /\ lastSnapshotDataRef' = snapshotData
  /\ requestFullFilter(currentRows, searchQuery, visibleFields)
  /\ UNCHANGED <<vars, eventVersion, snapshotData, searchVars, overrides, isRunning, sortVars,
                 answerVars, filteredEvents, hasReceivedFilterResult, inputs>>
  /\ filteredAll' = eventVersion

-----------------------------------------------------------------------------
(* filter.worker.ts *)

\* what the worker has after a message
Answered(state, request) ==
  LET found == Matches(request.rows, request.query, request.columns)
      kept  == IF request.type = "filter" \/ request.query # state.query
                    \/ request.columns # state.columns
               THEN <<>> ELSE state.rows
  IN IF request.type = "reset" THEN EmptyWorker
     ELSE [rows |-> found \o kept, query |-> request.query, columns |-> request.columns]

WorkerStep ==
  /\ requests # <<>>
  /\ requests' = Tail(requests)
  /\ worker' = Answered(worker, Head(requests))
  /\ responses' = IF Head(requests).type = "reset" THEN responses
                  ELSE Append(responses, [id |-> Head(requests).id, rows |-> worker'.rows])
  /\ UNCHANGED <<vars, eventVersion, snapshotData, searchVars, overrides, isRunning, sortVars,
                 lastFiltered, lastSnapshotDataRef, debounce, pendingRequestId, filteredEvents,
                 hasReceivedFilterResult, lastCompletedRequestId, inputs, filteredAll>>

\* A result is taken whatever the search is by now.
FilterResult ==
  /\ responses # <<>>
  /\ responses' = Tail(responses)
  /\ IF Head(responses).id > lastCompletedRequestId
     THEN /\ lastCompletedRequestId' = Head(responses).id
          /\ filteredEvents' = Head(responses).rows /\ hasReceivedFilterResult' = TRUE
     ELSE UNCHANGED <<lastCompletedRequestId, filteredEvents, hasReceivedFilterResult>>
  /\ UNCHANGED <<vars, eventVersion, snapshotData, searchVars, overrides, isRunning, sortVars,
                 lastFiltered, lastSnapshotDataRef, debounce, requests, pendingRequestId, worker, inputs, filteredAll>>

TableNext ==
  \/ Arrive \/ SelectSnapshot \/ Search \/ ToggleFilterMode \/ toggleColumnVisibility
  \/ handleColumnSort \/ ToggleRunning \/ DebounceTimer \/ WorkerStep \/ FilterResult

\* The browser calls the timer and delivers the messages of both sides.
TableFairness == WF_tableVars(DebounceTimer) /\ WF_tableVars(WorkerStep) /\ WF_tableVars(FilterResult)
TableSpec == TableInit /\ [][TableNext]_tableVars /\ TableFairness

-----------------------------------------------------------------------------
Quiet == debounce = undefined /\ requests = <<>> /\ responses = <<>>

\* The ring has not overwritten anything, or not since the rows were last all
\* filtered: the number of new events is taken from the length (:414,430).
NotWrapped == isSnapshotMode \/ eventVersion <= capacity \/ filteredAll = eventVersion

\* When a search is over, the table shows each row that matches it, once and in
\* order, however query changes, new events, modes and results crossed: the
\* worker's incremental list and the full one agree.  Not claimed after the ring
\* wrapped, after the columns changed (:408,421), or for a snapshot without rows
\* (:401), which all leave the old result (Table.svelte:337-447).
SettledTableIsRight ==
  LET found == Matches(currentRows, searchQuery, visibleFields)
  IN  needsFiltering /\ Quiet /\ hasData /\ NotWrapped /\ filteredAll # -1 =>
        displayEvents = SortedBy(found, sort) /\ matchIndices = DOMAIN found

\* Once nothing new happens, a search comes to an answer of its own query
\* instead of the rows shown while it is awaited (Table.svelte:452).
SearchIsAnswered ==
  []<>(needsFiltering /\ hasData /\ currentRows # <<>> =>
         Quiet /\ hasReceivedFilterResult /\ worker.query = searchQuery)
=============================================================================
