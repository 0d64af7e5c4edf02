--------------------------- MODULE EventConsumer ---------------------------
(***************************************************************************)
(* A durable consumer of a workspace's events: consumeEvents and           *)
(* eventStream of packages/super-brain-client, the stream loop of          *)
(* apps/api (startEventStream), and the offset row of                      *)
(* packages/fold-postgres, over a log that grows as DeliveryLog says.      *)
(*                                                                         *)
(* The client handles events one at a time and acknowledges them in        *)
(* batches.  Acknowledgements are made by the loop itself when a batch is  *)
(* full, by a timer that runs beside the loop, and once more whenever a    *)
(* connection ends; they are serialised.  A request can fail before or     *)
(* after the server applied it, or be applied long after its sender died.  *)
(***************************************************************************)
EXTENDS Naturals, FiniteSets, FiniteSetTheorems, TLAPS

CONSTANTS
  Unwanted,          \* sequences the filters or the access rules hide
  ReplayMode,        \* where a new consumer starts: "all" or "tail"
  CheckpointEvery,   \* events per acknowledgement
  RowsPerPoll,       \* rows per poll of the stream
  MaxLog,            \* bound: highest sequence
  MaxFaults,         \* bound: failures and crashes
  MaxResets,         \* bound: operator resets
  Unset,             \* no offset row
  Legacy             \* an offset row without a delivery sequence

ConsumerAssumption ==
  /\ ReplayMode \in {"all", "tail"}
  /\ CheckpointEvery \in Nat \ {0}
  /\ RowsPerPoll \in Nat \ {0}
  /\ MaxLog \in Nat /\ MaxFaults \in Nat /\ MaxResets \in Nat
  /\ Unset \notin Nat /\ Legacy \notin Nat /\ Unset # Legacy

VARIABLES
  log,             \* visible sequences
  offset,          \* the consumer's row in fold_consumer_offsets
  resets,          \* rows of fold_ingestion_cursor_resets
  commits,         \* acknowledgements sent and not yet applied
  connected,       \* the stream is open
  scan,            \* how far the server side of the stream has read
  inflight,        \* event frames written and not yet received
  lpc,             \* where the client's loop is
  stopping,        \* the error being handled ends consumeEvents
  confirmed,       \* last acknowledged sequence, as the client knows it
  current,         \* the event in the callback
  pendingCursor,   \* last handled event not acknowledged; 0 is undefined
  pendingCount,    \* handled events not acknowledged
  rpc,             \* the acknowledgement the client waits for
  timerBusy,       \* the timer's acknowledgement is queued or waiting
  timerError,      \* how the timer's acknowledgement failed
  faults,          \* failures so far
  base,            \* history: where this consumer started
  handled          \* history: events whose callback has returned

server  == <<log, offset, resets, commits>>
stream  == <<connected, scan, inflight>>
loop    == <<lpc, stopping, current>>
ack     == <<confirmed, pendingCursor, pendingCount, rpc, timerBusy, timerError>>
history == <<base, handled>>
consumerVars == <<server, stream, loop, ack, history, faults>>

Seqs == 1..MaxLog

Message == [through : 0..MaxLog, boundary : BOOLEAN]

(* Error classes: 5xx and 429, connection failures, and other 4xx. *)
Failures == {"busy", "net", "conflict"}

NoRpc == [state |-> "none", by |-> "loop", through |-> 0, count |-> 0]

Committing == {"boundary", "commit", "ending", "catch"}

(* Type invariant: the offset row, the stream, the loop and its counters. *)
ConsumerTypeOK ==
  /\ log \subseteq Seqs
  /\ offset \in 0..MaxLog \cup {Unset, Legacy}
  /\ resets \in 0..MaxResets
  /\ commits \subseteq Message
  /\ connected \in BOOLEAN
  /\ scan \in 0..MaxLog
  /\ inflight \subseteq Seqs
  /\ lpc \in {"stopped", "status", "connect", "read", "handle", "finally"} \cup Committing
  /\ stopping \in BOOLEAN
  /\ confirmed \in 0..MaxLog
  /\ current \in 0..MaxLog
  /\ pendingCursor \in 0..MaxLog
  /\ pendingCount \in 0..CheckpointEvery
  /\ rpc \in [state : {"none", "sent", "ok", "refused"}, by : {"loop", "timer"},
              through : 0..MaxLog, count : 0..CheckpointEvery]
  /\ timerBusy \in BOOLEAN
  /\ timerError \in Failures \cup {"none"}
  /\ faults \in 0..MaxFaults
  /\ base \in 0..MaxLog
  /\ handled \subseteq Seqs

----------------------------------------------------------------------------
Wanted == Seqs \ Unwanted

Top(S) == IF S = {} THEN 0 ELSE CHOOSE m \in S : \A s \in S : s <= m

Least(S) == CHOOSE m \in S : \A s \in S : m <= s

ConsumerInit ==
  /\ log = {}
  /\ offset \in {Unset, Legacy}
  /\ resets = 0
  /\ commits = {}
  /\ connected = FALSE /\ scan = 0 /\ inflight = {}
  /\ lpc = "stopped" /\ stopping = FALSE /\ current = 0
  /\ confirmed = 0 /\ pendingCursor = 0 /\ pendingCount = 0
  /\ rpc = NoRpc /\ timerBusy = FALSE /\ timerError = "none"
  /\ faults = 0
  /\ base = 0 /\ handled = {}

Fault == faults < MaxFaults /\ faults' = faults + 1

----------------------------------------------------------------------------
(* The workspace and the operator *)

(* A transaction commits: DeliveryLog's Append, one row at a time. *)
AppendRow ==
  /\ \E s \in Seqs : (\A old \in log : old < s) /\ log' = log \cup {s}
  /\ UNCHANGED <<offset, resets, commits, stream, loop, ack, history, faults>>

(***************************************************************************)
(* migrateConsumerCursor starts at zero and never rewinds progress.  The   *)
(* command holds the worker's lease (cursor-migration.ts), so the watcher  *)
(* is not running, but its last request may still be on the wire.          *)
(***************************************************************************)
Migrate ==
  /\ lpc = "stopped"
  /\ offset \in {Unset, Legacy}
  /\ offset' = 0
  /\ base' = 0
  /\ UNCHANGED <<log, resets, commits, stream, loop, ack, handled, faults>>

(***************************************************************************)
(* resetConsumerCursor: audited, under the same lease.  It is no fence     *)
(* against a late request of a stopped instance, so operators wait until   *)
(* there is none ("All consumer instances must be stopped").               *)
(***************************************************************************)
Reset ==
  /\ lpc = "stopped"
  /\ commits = {}
  /\ offset \in Nat
  /\ resets < MaxResets
  /\ resets' = resets + 1
  /\ offset' = 0
  /\ base' = 0
  /\ handled' = {}
  /\ UNCHANGED <<log, commits, stream, loop, ack, faults>>

----------------------------------------------------------------------------
(* Acknowledgements *)

(* commitConsumerCursor: neither backward nor beyond the delivery head. *)
MayCommit(n) ==
  /\ n <= Top(log)
  /\ (offset \in Nat => offset <= n)

(* commitIngestionCursor refuses an offset row that was never migrated. *)
ApplyCommit(m) ==
  LET accepted == offset # Legacy /\ MayCommit(m.through) IN
  /\ m \in commits
  /\ commits' = commits \ {m}
  /\ offset' = IF accepted THEN m.through ELSE offset
  /\ base' = IF accepted /\ m.boundary /\ handled = {} THEN m.through ELSE base
  /\ rpc' = IF rpc.state = "sent" /\ rpc.through = m.through
            THEN [rpc EXCEPT !.state = IF accepted THEN "ok" ELSE "refused"] ELSE rpc
  /\ UNCHANGED <<log, resets, stream, loop, confirmed, pendingCursor, pendingCount, timerBusy, timerError, handled, faults>>

WantsCommit(who) == IF who = "loop" THEN lpc \in {"commit", "ending", "catch"} ELSE timerBusy

(* Mutant: the event still in its callback counts as done. *)
IncludingCurrent == IF current # 0 THEN current ELSE pendingCursor

Acknowledgeable == pendingCursor

(* The next call on checkpointChain sends what is pending by then. *)
SendCommit(who) ==
  /\ rpc.state = "none"
  /\ WantsCommit(who)
  /\ pendingCursor # 0
  /\ rpc' = [state |-> "sent", by |-> who, through |-> Acknowledgeable, count |-> pendingCount]
  /\ commits' = commits \cup {[through |-> Acknowledgeable, boundary |-> FALSE]}
  /\ UNCHANGED <<log, offset, resets, stream, loop, confirmed, pendingCursor, pendingCount, timerBusy, timerError, history, faults>>

(* Where the loop goes when its own acknowledgement went through. *)
AfterCommit == [boundary |-> "connect", commit |-> "read", ending |-> "finally", catch |-> "finally"]

(* Nothing is pending: checkpoint() returns at once. *)
SkipCommit(who) ==
  /\ rpc.state = "none"
  /\ WantsCommit(who)
  /\ pendingCursor = 0
  /\ IF who = "loop"
     THEN lpc' = AfterCommit[lpc] /\ UNCHANGED timerBusy
     ELSE timerBusy' = FALSE /\ UNCHANGED lpc
  /\ UNCHANGED <<server, stream, stopping, current, confirmed, pendingCursor, pendingCount, rpc, timerError, history, faults>>

SettlePending ==
  IF pendingCursor = rpc.through
  THEN pendingCursor' = 0 /\ pendingCount' = 0
  ELSE pendingCount' = pendingCount - rpc.count /\ UNCHANGED pendingCursor

CommitSucceeds ==
  /\ rpc.state = "ok"
  /\ confirmed' = rpc.through
  /\ SettlePending
  /\ rpc' = NoRpc
  /\ IF rpc.by = "loop"
     THEN lpc' = AfterCommit[lpc] /\ UNCHANGED timerBusy
     ELSE timerBusy' = FALSE /\ UNCHANGED lpc
  /\ UNCHANGED <<server, stream, stopping, current, timerError, history, faults>>

(* The stream is gone as soon as its loop is left. *)
Disconnect == connected' = FALSE /\ scan' = 0 /\ inflight' = {}

(***************************************************************************)
(* The first boundary is committed outside the try block, so any failure   *)
(* ends consumeEvents.  In the loop a failure enters the catch block.  In  *)
(* the catch block 5xx and 429 drop what is pending and go on from the     *)
(* last acknowledged cursor; every other failure ends consumeEvents.  A    *)
(* failure of the timer aborts the connection.                             *)
(***************************************************************************)
CommitFailed(class) ==
  /\ rpc' = NoRpc
  /\ IF rpc.by = "timer"
     THEN /\ timerError' = class
          /\ timerBusy' = FALSE
          /\ UNCHANGED <<loop, stream, pendingCursor, pendingCount>>
     ELSE /\ UNCHANGED <<timerBusy, timerError, current>>
          /\ CASE lpc = "boundary" ->
                    lpc' = "stopped" /\ UNCHANGED <<stream, stopping, pendingCursor, pendingCount>>
               [] lpc \in {"commit", "ending"} ->
                    /\ lpc' = "catch"
                    /\ stopping' = (timerError = "conflict" \/ (timerError = "none" /\ class = "conflict"))
                    /\ Disconnect
                    /\ UNCHANGED <<pendingCursor, pendingCount>>
               [] lpc = "catch" ->
                    /\ lpc' = "finally"
                    /\ IF class = "busy"
                       THEN pendingCursor' = 0 /\ pendingCount' = 0 /\ UNCHANGED stopping
                       ELSE stopping' = TRUE /\ UNCHANGED <<pendingCursor, pendingCount>>
                    /\ UNCHANGED stream
  /\ UNCHANGED <<log, offset, resets, confirmed, history>>

CommitRefused ==
  /\ rpc.state = "refused"
  /\ CommitFailed("conflict")
  /\ UNCHANGED <<commits, faults>>

(* The answer is an error although the request was, or still will be, applied. *)
CommitLost ==
  /\ rpc.state \in {"sent", "ok"}
  /\ Fault
  /\ \E class \in {"busy", "net"} : CommitFailed(class)
  /\ commits' \in {commits, commits \ {m \in commits : m.through = rpc.through}}

(* Mutant: partial batches wait for more events. *)
NoTimer == FALSE

(* setInterval is only armed for batches, and runs from connect to finally. *)
TimerArmed == CheckpointEvery > 1 /\ lpc \in {"read", "handle", "commit", "ending", "catch"}

TimerFires ==
  /\ TimerArmed
  /\ ~timerBusy
  /\ pendingCursor # 0
  /\ timerBusy' = TRUE
  /\ UNCHANGED <<server, stream, loop, confirmed, pendingCursor, pendingCount, rpc, timerError, history, faults>>

----------------------------------------------------------------------------
(* The loop of consumeEvents *)

Start ==
  /\ lpc = "stopped"
  /\ lpc' = "status"
  /\ stopping' = FALSE
  /\ confirmed' = 0 /\ pendingCursor' = 0 /\ pendingCount' = 0
  /\ rpc' = NoRpc /\ timerBusy' = FALSE /\ timerError' = "none"
  /\ UNCHANGED <<server, stream, current, history, faults>>

(* A stored offset is where the stream resumes. *)
ResumeFromOffset ==
  /\ lpc = "status"
  /\ offset \in Nat
  /\ confirmed' = offset
  /\ lpc' = "connect"
  /\ UNCHANGED <<server, stream, stopping, current, pendingCursor, pendingCount, rpc, timerBusy, timerError, history, faults>>

(* A legacy offset is refused, not translated. *)
RefuseLegacy ==
  /\ lpc = "status"
  /\ offset = Legacy
  /\ lpc' = "stopped"
  /\ UNCHANGED <<server, stream, stopping, current, ack, history, faults>>

(* A new consumer stores its starting point before it connects. *)
CommitBoundary ==
  /\ lpc = "status"
  /\ offset = Unset
  /\ confirmed' = IF ReplayMode = "all" THEN 0 ELSE Top(log \cap Wanted)
  /\ rpc' = [state |-> "sent", by |-> "loop", through |-> confirmed', count |-> 0]
  /\ commits' = commits \cup {[through |-> confirmed', boundary |-> TRUE]}
  /\ lpc' = "boundary"
  /\ UNCHANGED <<log, offset, resets, stream, stopping, current, pendingCursor, pendingCount, timerBusy, timerError, history, faults>>

Connect ==
  /\ lpc = "connect"
  /\ connected' = TRUE /\ scan' = confirmed /\ inflight' = {}
  /\ timerError' = "none"
  /\ lpc' = "read"
  /\ UNCHANGED <<server, stopping, current, confirmed, pendingCursor, pendingCount, rpc, timerBusy, history, faults>>

(* The first rows after the scan position, at most RowsPerPoll of them. *)
IsPage(page, rows) ==
  /\ page # {}
  /\ Cardinality(page) <= RowsPerPoll
  /\ Cardinality(page) < RowsPerPoll => page = rows
  /\ \A s \in page, q \in rows \ page : s < q

(* poll: rows that may not be seen are passed over, not sent. *)
Poll ==
  LET left == {s \in log : s > scan} IN
  /\ connected
  /\ \E page \in SUBSET left :
       /\ IsPage(page, left)
       /\ inflight' = inflight \cup (page \cap Wanted)
       /\ scan' = Top(page)
  /\ UNCHANGED <<server, connected, loop, ack, history, faults>>

Receive ==
  /\ lpc = "read"
  /\ timerError = "none"
  /\ inflight # {}
  /\ current' = Least(inflight)
  /\ inflight' = inflight \ {Least(inflight)}
  /\ lpc' = "handle"
  /\ UNCHANGED <<server, connected, scan, stopping, ack, history, faults>>

BatchFull(count) == count >= CheckpointEvery

(* onEvent returns: the event counts as handled from here on. *)
HandleOk ==
  /\ lpc = "handle"
  /\ handled' = handled \cup {current}
  /\ pendingCursor' = current
  /\ pendingCount' = pendingCount + 1
  /\ current' = 0
  /\ lpc' = IF BatchFull(pendingCount') THEN "commit" ELSE "read"
  /\ UNCHANGED <<server, stream, stopping, confirmed, rpc, timerBusy, timerError, base, faults>>

(* The catch block: the timer's error, if any, is the one that counts. *)
EnterCatch(fatal) ==
  /\ lpc' = "catch"
  /\ stopping' = IF timerError = "none" THEN fatal ELSE timerError = "conflict"
  /\ current' = 0
  /\ Disconnect
  /\ UNCHANGED <<server, ack, history>>

HandleFails ==
  /\ lpc = "handle"
  /\ Fault
  /\ EnterCatch(FALSE)

(* Rotation, a broken connection, or an error that is not retryable. *)
StreamFails ==
  /\ lpc \in {"connect", "read"}
  /\ Fault
  /\ \E fatal \in BOOLEAN : EnterCatch(fatal)

(* A failed timer aborts the connection: the next read throws. *)
TimerAborts ==
  /\ lpc = "read"
  /\ timerError # "none"
  /\ EnterCatch(FALSE)
  /\ UNCHANGED faults

(* A frame that was already buffered breaks out of the loop instead. *)
TimerBreaks ==
  /\ lpc = "read"
  /\ timerError # "none"
  /\ inflight # {}
  /\ lpc' = "ending"
  /\ stopping' = FALSE
  /\ Disconnect
  /\ UNCHANGED <<server, current, ack, history, faults>>

(* The response ends without an error. *)
StreamEnds ==
  /\ lpc = "read"
  /\ Fault
  /\ lpc' = "ending"
  /\ stopping' = FALSE
  /\ Disconnect
  /\ UNCHANGED <<server, current, ack, history>>

(* The finally block waits for the checkpoint chain. *)
Finish ==
  /\ lpc = "finally"
  /\ rpc.state = "none"
  /\ ~timerBusy
  /\ lpc' = IF stopping THEN "stopped" ELSE "connect"
  /\ UNCHANGED <<server, stream, stopping, current, ack, history, faults>>

(* The process dies; what it sent is still on its way. *)
Crash ==
  /\ lpc # "stopped"
  /\ Fault
  /\ lpc' = "stopped"
  /\ stopping' = FALSE
  /\ current' = 0
  /\ Disconnect
  /\ confirmed' = 0 /\ pendingCursor' = 0 /\ pendingCount' = 0
  /\ rpc' = NoRpc /\ timerBusy' = FALSE /\ timerError' = "none"
  /\ UNCHANGED <<server, history>>

----------------------------------------------------------------------------
Client ==
  \/ ResumeFromOffset \/ RefuseLegacy \/ CommitBoundary
  \/ Connect \/ Receive \/ HandleOk \/ TimerAborts \/ TimerBreaks \/ Finish
  \/ CommitSucceeds \/ CommitRefused
  \/ \E who \in {"loop", "timer"} : SendCommit(who) \/ SkipCommit(who)

Faulty == CommitLost \/ HandleFails \/ StreamFails \/ StreamEnds \/ Crash

ConsumerNext ==
  \/ AppendRow \/ Migrate \/ Reset
  \/ \E m \in commits : ApplyCommit(m)
  \/ TimerFires \/ Poll
  \/ Start \/ Client
  \/ Faulty

ConsumerSpec == ConsumerInit /\ [][ConsumerNext]_consumerVars

(***************************************************************************)
(* The client's event loop, its timer and the server's poll timer keep     *)
(* running, requests on the wire arrive, and launchd restarts a worker     *)
(* that has ended (KeepAlive).  Nobody has to migrate or reset an offset.  *)
(***************************************************************************)
Fairness ==
  /\ WF_consumerVars(Client)
  /\ WF_consumerVars(TimerFires)
  /\ WF_consumerVars(Poll)
  /\ WF_consumerVars(Start)
  /\ WF_consumerVars(\E m \in commits : ApplyCommit(m))

ConsumerFairSpec == ConsumerSpec /\ Fairness
----------------------------------------------------------------------------
(* Properties *)

(* A legacy offset row is no usable offset. *)
Stored == IF offset = Legacy THEN Unset ELSE offset
ALO == INSTANCE AtLeastOnce WITH offset <- Stored

(***************************************************************************)
(* The consumer is an at-least-once consumer: whatever fails, dies or      *)
(* arrives late, the stored offset passes an event only after the callback *)
(* has returned for it ("never an uncommitted callback result").           *)
(***************************************************************************)
DeliversAtLeastOnce == ALO!Spec

(***************************************************************************)
(* Handled but unacknowledged events never exceed one batch, so that is    *)
(* all a crash can replay, even with the timer committing beside the loop. *)
(***************************************************************************)
ReplayBounded ==
  offset \in Nat => Cardinality({s \in handled : s > offset}) <= CheckpointEvery

(***************************************************************************)
(* The stored offset moves back only by an audited reset, however late and *)
(* in whatever order old acknowledgements arrive.                          *)
(***************************************************************************)
OffsetNeverRewinds ==
  [][(offset \in Nat /\ offset' # offset) => (offset' > offset \/ resets' = resets + 1)]_consumerVars

(***************************************************************************)
(* While the client runs, the point it would resume from is stored.        *)
(***************************************************************************)
ResumePointStored ==
  lpc \in {"connect", "read", "handle", "commit"} => offset \in Nat /\ confirmed <= offset

(***************************************************************************)
(* Every event a consumer wants is handled and acknowledged in the end,    *)
(* although a batch may stay short for ever and requests may fail.  A      *)
(* consumer with a legacy offset is refused until an operator migrates it. *)
(***************************************************************************)
EventuallyAcknowledged ==
  \A s \in Wanted : (s \in log /\ offset # Legacy) ~> (offset \in Nat /\ offset >= s)

(***************************************************************************)
(* What a durable consumer is owed: no wanted event is passed unhandled,   *)
(* the point it resumes from is stored and never moves back on its own,    *)
(* and a crash makes it repeat one batch at most.                          *)
(***************************************************************************)
ConsumerPromise ==
  /\ DeliversAtLeastOnce
  /\ [](ResumePointStored /\ ReplayBounded)
  /\ OffsetNeverRewinds
----------------------------------------------------------------------------
(* Proofs *)

(* Every wanted event up to n has been handled, and the log reaches n. *)
Done(n) == n \in Nat /\ n <= Top(log) /\ \A s \in log \cap Wanted : s <= n => s \in handled

(* Rows are numbered upwards, so every set of rows has a first and a last one. *)
EndsOf(S) == \E low, high \in S : \A s \in S : low <= s /\ s <= high
RowsOrdered == \A S \in SUBSET log : S # {} => EndsOf(S)

(* What the stored offset, and requests that may still store one, have behind them. *)
OffsetInv ==
  /\ log \subseteq Seqs /\ RowsOrdered
  /\ offset \in Nat \cup {Unset, Legacy}
  /\ base = 0
  /\ offset \in Nat => Done(offset)
  /\ offset \notin Nat => handled = {}
  /\ \A m \in commits : /\ Done(m.through)
                     /\ IF m.boundary THEN m.through = 0 ELSE offset \in Nat

(* The acknowledgement somebody waits for belongs to where they are. *)
RpcInv ==
  /\ rpc = [state |-> rpc.state, by |-> rpc.by, through |-> rpc.through, count |-> rpc.count]
  /\ rpc.by \in {"loop", "timer"}
  /\ rpc.state # "none" =>
       /\ Done(rpc.through)
       /\ IF rpc.by = "loop" THEN lpc \in Committing ELSE timerBusy
  /\ rpc.state = "ok" => offset \in Nat /\ rpc.through <= offset
  /\ timerBusy => lpc \notin {"stopped", "status", "boundary", "connect"}

(* What the client believes to be acknowledged, and what it would acknowledge next. *)
LoopInv ==
  /\ lpc \notin {"stopped", "status", "boundary"} => offset \in Nat
  /\ lpc \notin {"stopped", "status", "boundary"} => confirmed <= offset
  /\ lpc = "status" => pendingCursor = 0
  /\ lpc # "stopped" => /\ Done(confirmed)
                        /\ pendingCursor # 0 => Done(pendingCursor) /\ lpc \notin {"status", "boundary"}

(* What the stream has passed was handled, is under way, or is in the callback. *)
StreamInv ==
  /\ connected <=> lpc \in {"read", "handle", "commit"}
  /\ ~connected => inflight = {}
  /\ inflight \subseteq log \cap Wanted
  /\ connected => /\ scan \in Nat /\ scan <= Top(log)
                  /\ \A s \in inflight : s <= scan
                  /\ \A s \in log \cap Wanted : s <= scan =>
                       \/ s \in handled \cup inflight
                       \/ s = current /\ lpc = "handle"
  /\ lpc = "handle" => /\ current \in log \cap Wanted /\ current <= scan
                       /\ \A s \in inflight : current < s

ConsumerInv == OffsetInv /\ RpcInv /\ LoopInv /\ StreamInv

(* Wanted events after a and up to n, and the last one this run has handled. *)
Between(a, n) == {s \in log \cap Wanted : a < s /\ s <= n}
LastHandled == IF pendingCursor # 0 THEN pendingCursor ELSE confirmed

(* Events are handled in order, and what the stream has passed since is in it. *)
OrderInv ==
  /\ handled \subseteq log \cap Wanted
  /\ \A s \in handled, q \in log \cap Wanted : q < s => q \in handled
  /\ connected => /\ LastHandled <= scan
                  /\ \A s \in inflight : LastHandled < s
                  /\ \A s \in log \cap Wanted : LastHandled < s /\ s <= scan =>
                       s \in inflight \/ (s = current /\ lpc = "handle")
  /\ lpc = "handle" => LastHandled < current

(* The counters cover what was handled since the last acknowledgement, and since the
   one under way. *)
CountInv ==
  /\ pendingCount \in Nat /\ pendingCount <= CheckpointEvery
  /\ pendingCursor = 0 => pendingCount = 0
  /\ lpc # "stopped" /\ pendingCursor # 0 => Cardinality(Between(confirmed, pendingCursor)) <= pendingCount
  /\ lpc \in {"status", "boundary", "connect"} \/ (lpc = "finally" /\ ~stopping) => pendingCursor = 0
  /\ lpc \in {"read", "handle"} => pendingCount < CheckpointEvery
  /\ rpc.state # "none" /\ lpc = "boundary" => rpc.count = 0
  /\ rpc.state # "none" /\ lpc # "boundary" =>
       /\ pendingCursor # 0 /\ rpc.through <= pendingCursor /\ rpc.count \in Nat
       /\ Cardinality(Between(rpc.through, pendingCursor)) <= pendingCount - rpc.count
       /\ rpc.by = "loop" => rpc.through = pendingCursor

BatchInv == OrderInv /\ CountInv /\ ReplayBounded

(* CHOOSE finds the first and the last row of a set that has them. *)
LEMMA EndsFound ==
  ASSUME NEW S, S \subseteq Nat, EndsOf(S)
  PROVE  /\ Top(S) \in S /\ \A s \in S : s <= Top(S)
         /\ Least(S) \in S /\ \A s \in S : Least(S) <= s
<1>1. PICK low, high \in S : \A s \in S : low <= s /\ s <= high
  BY DEF EndsOf
<1>2. Top(S) = CHOOSE m \in S : \A s \in S : s <= m
  BY <1>1 DEF Top
<1>3. Top(S) \in S /\ \A s \in S : s <= Top(S)
  BY <1>1, <1>2
<1>4. Least(S) \in S /\ \A s \in S : Least(S) <= s
  BY <1>1 DEF Least
<1> QED
  BY <1>3, <1>4

(* The delivery head is a number no row is beyond. *)
LEMMA HeadFound ==
  ASSUME OffsetInv, ConsumerAssumption
  PROVE  log \subseteq Nat \ {0} /\ Top(log) \in Nat /\ \A s \in log : s <= Top(log)
<1>1. log \subseteq Nat \ {0}
  BY DEF OffsetInv, Seqs, ConsumerAssumption
<1>2. CASE log = {}
  BY <1>1, <1>2 DEF Top
<1>3. CASE log # {}
  BY <1>1, <1>3, EndsFound DEF OffsetInv, RowsOrdered
<1> QED
  BY <1>1, <1>2, <1>3

(* Done depends on the log and on what was handled, and on nothing else. *)
LEMMA DoneSame ==
  ASSUME log' = log, handled' = handled
  PROVE  \A n : Done(n)' <=> Done(n)
BY DEF Done

(* Steps that store nothing, handle nothing and send nothing new. *)
LEMMA OffsetSame ==
  ASSUME OffsetInv, UNCHANGED <<log, offset, handled, base>>, commits' \subseteq commits
  PROVE  OffsetInv'
<1>1. \A n : Done(n)' <=> Done(n)
  BY DoneSame
<1> QED
  BY <1>1 DEF OffsetInv, RowsOrdered, EndsOf

(* A request may be sent for what is done, a boundary only for zero. *)
LEMMA OffsetSent ==
  ASSUME OffsetInv, UNCHANGED <<log, offset, handled, base>>,
         NEW n, NEW b \in BOOLEAN, commits' = commits \cup {[through |-> n, boundary |-> b]},
         Done(n), IF b THEN n = 0 ELSE offset \in Nat
  PROVE  OffsetInv'
<1>1. \A k : Done(k)' <=> Done(k)
  BY DoneSame
<1>2. RowsOrdered'
  BY DEF OffsetInv, RowsOrdered, EndsOf
<1>3. ASSUME NEW m \in commits'
      PROVE  Done(m.through)' /\ IF m.boundary THEN m.through = 0 ELSE offset' \in Nat
  <2>1. CASE m \in commits
    BY <2>1, <1>1 DEF OffsetInv
  <2>2. CASE m = [through |-> n, boundary |-> b]
    BY <2>2, <1>1
  <2> QED
    BY <2>1, <2>2
<1> QED
  BY <1>1, <1>2, <1>3 DEF OffsetInv

(* The stream is only a view of the log. *)
LEMMA StreamSame ==
  ASSUME StreamInv, UNCHANGED <<log, stream, current, handled>>,
         lpc' = lpc \/ (lpc # "handle" /\ lpc' # "handle" /\ (connected <=> lpc' \in {"read", "handle", "commit"}))
  PROVE  StreamInv'
BY DEF StreamInv, stream

(* A stream that is gone shows nothing. *)
LEMMA StreamGone ==
  ASSUME Disconnect, lpc' \notin {"read", "handle", "commit"}
  PROVE  StreamInv'
BY DEF StreamInv, Disconnect

----------------------------------------------------------------------------
(* One lemma per action *)

LEMMA AppendStep ==
  ASSUME ConsumerAssumption, ConsumerInv, AppendRow
  PROVE  ConsumerInv'
<1> USE DEF ConsumerInv
<1>1. PICK new \in Seqs : (\A old \in log : old < new) /\ log' = log \cup {new}
  BY DEF AppendRow
<1>2. UNCHANGED <<offset, commits, stream, loop, ack, history>>
  BY DEF AppendRow
<1>3. log \subseteq Nat \ {0} /\ Top(log) \in Nat /\ \A s \in log : s <= Top(log)
  BY HeadFound
<1>4. new \in Nat \ {0} /\ log' \subseteq Seqs /\ log' \subseteq Nat
  BY <1>1, <1>3 DEF Seqs, OffsetInv, ConsumerAssumption
<1>5. RowsOrdered'
  <2> SUFFICES ASSUME NEW S \in SUBSET (log \cup {new}), S # {}
               PROVE  EndsOf(S)
    BY <1>1 DEF RowsOrdered, EndsOf
  <2>1. CASE new \notin S
    BY <2>1 DEF OffsetInv, RowsOrdered
  <2>2. CASE S = {new}
    BY <2>2, <1>4 DEF EndsOf
  <2>3. CASE new \in S /\ S # {new}
    <3>1. S \ {new} \in SUBSET log /\ S \ {new} # {}
      BY <2>3
    <3>2. PICK low, high \in S \ {new} : \A s \in S \ {new} : low <= s /\ s <= high
      BY <3>1 DEF OffsetInv, RowsOrdered, EndsOf
    <3>3. low < new
      BY <3>1, <3>2, <1>1
    <3>4. \A s \in S : low <= s /\ s <= new
      BY <3>1, <3>2, <3>3, <1>1, <1>3, <1>4
    <3> QED
      BY <3>2, <3>4, <2>3 DEF EndsOf
  <2> QED
    BY <2>1, <2>2, <2>3
<1>6. Top(log') = new /\ Top(log) < new
  <2>1. EndsOf(log')
    BY <1>1, <1>5 DEF RowsOrdered, EndsOf
  <2>2. Top(log') \in log' /\ \A s \in log' : s <= Top(log')
    BY <2>1, <1>4, EndsFound
  <2>3. \A top \in log' : (\A s \in log' : s <= top) => top = new
    BY <1>1, <1>3, <1>4
  <2>4. log # {} => Top(log) \in log
    BY <1>3, EndsFound DEF OffsetInv, RowsOrdered
  <2>5. log = {} => Top(log) = 0
    BY DEF Top
  <2>6. Top(log') = new
    BY <2>2, <2>3
  <2> QED
    BY <2>4, <2>5, <2>6, <1>1, <1>3, <1>4
<1>7. Top(log)' = Top(log')
  BY DEF Top
<1>8. \A n : Done(n) => Done(n)'
  BY <1>1, <1>2, <1>3, <1>4, <1>6, <1>7 DEF Done, history
<1>9. OffsetInv'
  BY <1>2, <1>4, <1>5, <1>8 DEF OffsetInv, history
<1>10. RpcInv' /\ LoopInv'
  BY <1>2, <1>8 DEF RpcInv, LoopInv, loop, ack, stream
<1>11. StreamInv'
  <2>1. UNCHANGED <<connected, scan, inflight, lpc, current, handled>>
    BY <1>2 DEF stream, loop, history
  <2> QED
    BY <2>1, <1>1, <1>3, <1>4, <1>6, <1>7 DEF StreamInv
<1> QED
  BY <1>9, <1>10, <1>11

LEMMA MigrateStep ==
  ASSUME ConsumerAssumption, ConsumerInv, Migrate
  PROVE  ConsumerInv'
<1> USE DEF ConsumerInv
<1>1. \A n : Done(n)' <=> Done(n)
  BY DoneSame DEF Migrate
<1>2. log \subseteq Nat \ {0} /\ Top(log) \in Nat
  BY HeadFound
<1>3. Done(0)
  BY <1>2 DEF Done
<1>4. OffsetInv'
  BY <1>1, <1>3 DEF Migrate, OffsetInv, RowsOrdered, EndsOf, ConsumerAssumption
<1>5. RpcInv' /\ LoopInv'
  BY <1>1 DEF Migrate, RpcInv, LoopInv, OffsetInv, ConsumerAssumption, loop, ack, Committing
<1>6. StreamInv'
  BY StreamSame DEF Migrate, loop
<1> QED
  BY <1>4, <1>5, <1>6

LEMMA ResetStep ==
  ASSUME ConsumerAssumption, ConsumerInv, Reset
  PROVE  ConsumerInv'
<1> USE DEF ConsumerInv
<1>1. log \subseteq Nat \ {0} /\ Top(log) \in Nat
  BY HeadFound
<1>2. Done(0)'
  BY <1>1 DEF Done, Reset, Top
<1>3. OffsetInv'
  BY <1>2 DEF Reset, OffsetInv, RowsOrdered, EndsOf
<1>4. RpcInv' /\ LoopInv'
  BY DEF Reset, RpcInv, LoopInv, loop, ack, Committing
<1>5. StreamInv'
  BY DEF Reset, StreamInv, stream, loop
<1> QED
  BY <1>3, <1>4, <1>5

LEMMA ApplyCommitStep ==
  ASSUME ConsumerAssumption, ConsumerInv, NEW m \in commits, ApplyCommit(m)
  PROVE  ConsumerInv'
<1> USE DEF ConsumerInv
<1> DEFINE accepted == offset # Legacy /\ MayCommit(m.through)
<1>1. \A n : Done(n)' <=> Done(n)
  BY DoneSame DEF ApplyCommit
<1>2. Done(m.through) /\ m.through \in Nat
  BY DEF OffsetInv, Done
<1>3. UNCHANGED <<log, stream, loop, confirmed, pendingCursor, timerBusy, handled>> /\ commits' \subseteq commits
  BY DEF ApplyCommit
<1>4. offset' = IF accepted THEN m.through ELSE offset
  BY DEF ApplyCommit
<1>5. offset \in Nat => offset' \in Nat /\ offset <= offset'
  BY <1>2, <1>4 DEF MayCommit
<1>6. base' = 0
  BY DEF ApplyCommit, OffsetInv
<1>7. OffsetInv'
  BY <1>1, <1>2, <1>3, <1>4, <1>5, <1>6 DEF OffsetInv, RowsOrdered, EndsOf
<1>8. RpcInv'
  <2>1. CASE rpc.state = "sent" /\ rpc.through = m.through
    <3>1. rpc' = [rpc EXCEPT !.state = IF accepted THEN "ok" ELSE "refused"]
      BY <2>1 DEF ApplyCommit
    <3>2. /\ rpc'.through = rpc.through /\ rpc'.by = rpc.by /\ rpc'.count = rpc.count
          /\ rpc'.state = IF accepted THEN "ok" ELSE "refused"
          /\ rpc' = [state |-> rpc'.state, by |-> rpc'.by, through |-> rpc'.through, count |-> rpc'.count]
      BY <3>1 DEF RpcInv
    <3> QED
      BY <2>1, <3>2, <1>1, <1>2, <1>3, <1>4 DEF RpcInv, loop
  <2>2. CASE ~(rpc.state = "sent" /\ rpc.through = m.through)
    <3>1. rpc' = rpc
      BY <2>2 DEF ApplyCommit
    <3>2. rpc.state # "none" => rpc.through \in Nat
      BY DEF RpcInv, Done
    <3> QED
      BY <3>1, <3>2, <1>1, <1>3, <1>5 DEF RpcInv, loop
  <2> QED
    BY <2>1, <2>2
<1>9. LoopInv'
  <2>1. lpc # "stopped" => confirmed \in Nat
    BY DEF LoopInv, Done
  <2> QED
    BY <2>1, <1>1, <1>3, <1>5 DEF LoopInv, loop
<1>10. StreamInv'
  BY <1>3, StreamSame DEF loop
<1> QED
  BY <1>7, <1>8, <1>9, <1>10

LEMMA SendCommitStep ==
  ASSUME ConsumerAssumption, ConsumerInv, NEW who \in {"loop", "timer"}, SendCommit(who)
  PROVE  ConsumerInv'
<1> USE DEF ConsumerInv
<1>1. \A n : Done(n)' <=> Done(n)
  BY DoneSame DEF SendCommit, history
<1>2. UNCHANGED <<log, offset, stream, loop, confirmed, pendingCursor, timerBusy, history>>
  BY DEF SendCommit
<1>3. IF who = "loop" THEN lpc \in {"commit", "ending", "catch"} ELSE timerBusy
  BY DEF SendCommit, WantsCommit
<1>4. Done(pendingCursor) /\ offset \in Nat
  BY <1>3 DEF SendCommit, LoopInv, RpcInv
<1>5. commits' = commits \cup {[through |-> pendingCursor, boundary |-> FALSE]}
  BY DEF SendCommit, Acknowledgeable
<1>6. OffsetInv'
  BY <1>2, <1>4, <1>5, OffsetSent DEF history
<1>7. rpc' = [state |-> "sent", by |-> who, through |-> pendingCursor, count |-> pendingCount]
  BY DEF SendCommit, Acknowledgeable
<1>8. RpcInv'
  BY <1>1, <1>2, <1>3, <1>4, <1>7 DEF RpcInv, loop, Committing
<1>9. LoopInv' /\ StreamInv'
  BY <1>1, <1>2, StreamSame DEF LoopInv, loop, history
<1> QED
  BY <1>6, <1>8, <1>9

LEMMA SkipCommitStep ==
  ASSUME ConsumerAssumption, ConsumerInv, NEW who \in {"loop", "timer"}, SkipCommit(who)
  PROVE  ConsumerInv'
<1> USE DEF ConsumerInv
<1>1. \A n : Done(n)' <=> Done(n)
  BY DoneSame DEF SkipCommit, history, server
<1>2. UNCHANGED <<log, offset, commits, stream, current, confirmed, pendingCursor, rpc, history>> /\ rpc.state = "none"
  BY DEF SkipCommit, server
<1>3. OffsetInv'
  BY <1>2, OffsetSame DEF history
<1>4. \/ lpc' = lpc /\ timerBusy' = FALSE
      \/ /\ timerBusy' = timerBusy
         /\ \/ lpc = "commit" /\ lpc' = "read"
            \/ lpc \in {"ending", "catch"} /\ lpc' = "finally"
  <2>1. CASE who = "loop"
    <3>1. lpc \in {"commit", "ending", "catch"} /\ lpc' = AfterCommit[lpc] /\ timerBusy' = timerBusy
      BY <2>1 DEF SkipCommit, WantsCommit
    <3> QED
      BY <3>1 DEF AfterCommit
  <2>2. CASE who = "timer"
    BY <2>2 DEF SkipCommit
  <2> QED
    BY <2>1, <2>2
<1>5. RpcInv' /\ LoopInv'
  BY <1>1, <1>2, <1>4 DEF RpcInv, LoopInv, Committing
<1>6. StreamInv'
  BY <1>2, <1>4, StreamSame DEF StreamInv, history
<1> QED
  BY <1>3, <1>5, <1>6

LEMMA CommitSucceedsStep ==
  ASSUME ConsumerAssumption, ConsumerInv, CommitSucceeds
  PROVE  ConsumerInv'
<1> USE DEF ConsumerInv
<1>1. \A n : Done(n)' <=> Done(n)
  BY DoneSame DEF CommitSucceeds, history, server
<1>2. UNCHANGED <<log, offset, commits, stream, current, history>> /\ rpc.state = "ok"
  BY DEF CommitSucceeds, server
<1>3. OffsetInv'
  BY <1>2, OffsetSame DEF history
<1>4. \/ lpc' = lpc /\ timerBusy' = FALSE /\ timerBusy
      \/ /\ timerBusy' = timerBusy
         /\ \/ lpc = "boundary" /\ lpc' = "connect"
            \/ lpc = "commit" /\ lpc' = "read"
            \/ lpc \in {"ending", "catch"} /\ lpc' = "finally"
  BY <1>2 DEF CommitSucceeds, AfterCommit, RpcInv, Committing
<1>5. Done(confirmed') /\ confirmed' <= offset /\ offset \in Nat
  BY <1>2 DEF CommitSucceeds, RpcInv
<1>6. pendingCursor' = 0 \/ pendingCursor' = pendingCursor
  BY DEF CommitSucceeds, SettlePending
<1>7. rpc' = NoRpc
  BY DEF CommitSucceeds
<1>8. RpcInv'
  BY <1>4, <1>7 DEF RpcInv, NoRpc
<1>9. LoopInv'
  BY <1>1, <1>2, <1>4, <1>5, <1>6 DEF LoopInv, RpcInv
<1>10. StreamInv'
  BY <1>2, <1>4, StreamSame DEF StreamInv, history
<1> QED
  BY <1>3, <1>8, <1>9, <1>10

(* A failed acknowledgement is forgotten, and the loop may leave the stream. *)
LEMMA CommitFailedStep ==
  ASSUME ConsumerAssumption, ConsumerInv, NEW class, CommitFailed(class), rpc.state # "none",
         commits' \subseteq commits
  PROVE  ConsumerInv'
<1> USE DEF ConsumerInv
<1>1. \A n : Done(n)' <=> Done(n)
  BY DoneSame DEF CommitFailed, history
<1>2. UNCHANGED <<log, offset, current, confirmed, history>> /\ rpc' = NoRpc
  BY DEF CommitFailed, loop
<1>3. OffsetInv'
  BY <1>2, OffsetSame DEF history
<1>4. \/ lpc' = lpc /\ timerBusy' = FALSE /\ UNCHANGED stream
      \/ /\ timerBusy' = timerBusy
         /\ \/ lpc = "boundary" /\ lpc' = "stopped" /\ UNCHANGED stream
            \/ lpc \in {"commit", "ending"} /\ lpc' = "catch" /\ Disconnect
            \/ lpc = "catch" /\ lpc' = "finally" /\ UNCHANGED stream
  <2>1. CASE rpc.by = "timer"
    BY <2>1 DEF CommitFailed, loop
  <2>2. CASE rpc.by = "loop"
    <3>1. lpc \in Committing
      BY <2>2 DEF RpcInv
    <3> QED
      BY <2>2, <3>1 DEF CommitFailed, Committing
  <2> QED
    BY <2>1, <2>2 DEF RpcInv
<1>5. pendingCursor' = 0 \/ pendingCursor' = pendingCursor
  <2>1. CASE rpc.by = "timer"
    BY <2>1 DEF CommitFailed
  <2>2. CASE rpc.by = "loop"
    <3>1. lpc \in Committing
      BY <2>2 DEF RpcInv
    <3> QED
      BY <2>2, <3>1 DEF CommitFailed, Committing
  <2> QED
    BY <2>1, <2>2 DEF RpcInv
<1>6. RpcInv'
  BY <1>2, <1>4 DEF RpcInv, NoRpc
<1>7. LoopInv'
  BY <1>1, <1>2, <1>4, <1>5 DEF LoopInv
<1>8. StreamInv'
  BY <1>2, <1>4, StreamSame, StreamGone DEF StreamInv, history
<1> QED
  BY <1>3, <1>6, <1>7, <1>8

LEMMA StartStep ==
  ASSUME ConsumerAssumption, ConsumerInv, Start
  PROVE  ConsumerInv'
<1> USE DEF ConsumerInv
<1>1. \A n : Done(n)' <=> Done(n)
  BY DoneSame DEF Start, history, server
<1>2. OffsetInv'
  BY OffsetSame DEF Start, server, history
<1>3. Done(0)
  BY HeadFound DEF Done
<1>4. RpcInv'
  BY DEF Start, RpcInv, NoRpc
<1>5. LoopInv'
  BY <1>1, <1>3 DEF Start, LoopInv
<1>6. StreamInv'
  BY StreamSame DEF Start, StreamInv, server, history
<1> QED
  BY <1>2, <1>4, <1>5, <1>6

LEMMA StatusStep ==
  ASSUME ConsumerAssumption, ConsumerInv, ResumeFromOffset \/ RefuseLegacy
  PROVE  ConsumerInv'
<1> USE DEF ConsumerInv
<1>1. \A n : Done(n)' <=> Done(n)
  BY DoneSame DEF ResumeFromOffset, RefuseLegacy, history, server
<1>2. OffsetInv'
  BY OffsetSame DEF ResumeFromOffset, RefuseLegacy, server, history
<1>3. RpcInv' /\ LoopInv'
  BY <1>1 DEF ResumeFromOffset, RefuseLegacy, RpcInv, LoopInv, OffsetInv, Committing, server, ack
<1>4. StreamInv'
  BY StreamSame DEF ResumeFromOffset, RefuseLegacy, StreamInv, server, history
<1> QED
  BY <1>2, <1>3, <1>4

LEMMA CommitBoundaryStep ==
  ASSUME ConsumerAssumption, ReplayMode = "all", ConsumerInv, CommitBoundary
  PROVE  ConsumerInv'
<1> USE DEF ConsumerInv
<1>1. \A n : Done(n)' <=> Done(n)
  BY DoneSame DEF CommitBoundary, history
<1>2. Done(0)
  BY HeadFound DEF Done
<1>3. confirmed' = 0 /\ UNCHANGED <<log, offset, history, stream, current, pendingCursor, timerBusy>>
  BY DEF CommitBoundary
<1>4. commits' = commits \cup {[through |-> 0, boundary |-> TRUE]}
  BY <1>3 DEF CommitBoundary
<1>5. rpc' = [state |-> "sent", by |-> "loop", through |-> 0, count |-> 0]
  BY <1>3 DEF CommitBoundary
<1>6. OffsetInv'
  BY <1>2, <1>3, <1>4, OffsetSent DEF history
<1>7. RpcInv'
  BY <1>1, <1>2, <1>3, <1>5 DEF RpcInv, CommitBoundary, Committing
<1>8. LoopInv'
  BY <1>1, <1>2, <1>3 DEF LoopInv, CommitBoundary
<1>9. StreamInv'
  BY <1>3, StreamSame DEF CommitBoundary, StreamInv, history
<1> QED
  BY <1>6, <1>7, <1>8, <1>9

LEMMA TimerStep ==
  ASSUME ConsumerAssumption, ConsumerInv, TimerFires
  PROVE  ConsumerInv'
<1> USE DEF ConsumerInv
<1>1. \A n : Done(n)' <=> Done(n)
  BY DoneSame DEF TimerFires, history, server
<1>2. OffsetInv'
  BY OffsetSame DEF TimerFires, server, history
<1>3. RpcInv' /\ LoopInv'
  BY <1>1 DEF TimerFires, TimerArmed, RpcInv, LoopInv, server, loop
<1>4. StreamInv'
  BY StreamSame DEF TimerFires, server, history, loop
<1> QED
  BY <1>2, <1>3, <1>4

LEMMA ConnectStep ==
  ASSUME ConsumerAssumption, ConsumerInv, Connect
  PROVE  ConsumerInv'
<1> USE DEF ConsumerInv
<1>1. \A n : Done(n)' <=> Done(n)
  BY DoneSame DEF Connect, history, server
<1>2. OffsetInv'
  BY OffsetSame DEF Connect, server, history
<1>3. RpcInv' /\ LoopInv'
  BY <1>1 DEF Connect, RpcInv, LoopInv, Committing, server
<1>4. Done(confirmed)
  BY DEF Connect, LoopInv
<1>5. Top(log)' = Top(log)
  BY DEF Connect, server, Top
<1>6. StreamInv'
  BY <1>4, <1>5 DEF Connect, StreamInv, Done, server, history
<1> QED
  BY <1>2, <1>3, <1>6

(* What the stream passes over it has sent, unless it may not be seen. *)
LEMMA PollStep ==
  ASSUME ConsumerAssumption, ConsumerInv, Poll
  PROVE  ConsumerInv'
<1> USE DEF ConsumerInv
<1>1. \A n : Done(n)' <=> Done(n)
  BY DoneSame DEF Poll, history, server
<1>2. UNCHANGED <<log, offset, commits, connected, lpc, current, ack, history>> /\ connected
  BY DEF Poll, server, loop
<1>3. OffsetInv'
  BY <1>2, OffsetSame DEF history
<1>4. RpcInv' /\ LoopInv'
  BY <1>1, <1>2 DEF RpcInv, LoopInv, ack
<1> DEFINE left == {s \in log : s > scan}
<1>5. PICK page \in SUBSET left :
        IsPage(page, left) /\ inflight' = inflight \cup (page \cap Wanted) /\ scan' = Top(page)
  BY DEF Poll
<1>6. log \subseteq Nat \ {0} /\ Top(log) \in Nat /\ \A s \in log : s <= Top(log)
  BY HeadFound
<1>7. page # {} /\ \A s \in page, q \in left \ page : s < q
  BY <1>5 DEF IsPage
<1>8. scan' \in page /\ \A s \in page : s <= scan'
  <2>1. EndsOf(page)
    BY <1>7 DEF OffsetInv, RowsOrdered
  <2> QED
    BY <2>1, <1>5, <1>6, EndsFound
<1>9. scan' \in log /\ scan < scan' /\ scan \in Nat
  BY <1>2, <1>6, <1>8 DEF StreamInv
<1>10. Top(log)' = Top(log)
  BY <1>2 DEF Top
<1>11. ASSUME NEW s \in log \cap Wanted, s <= scan'
       PROVE  s \in handled \cup inflight' \/ (s = current /\ lpc = "handle")
  <2>1. CASE s <= scan
    BY <2>1, <1>2, <1>5 DEF StreamInv
  <2>2. CASE ~(s <= scan)
    <3>1. s \in left
      BY <2>2, <1>6, <1>9
    <3>2. s \in page
      BY <3>1, <1>6, <1>7, <1>8, <1>9, <1>11
    <3> QED
      BY <3>2, <1>5
  <2> QED
    BY <2>1, <2>2
<1>12. ASSUME lpc = "handle"
       PROVE  /\ \A s \in inflight' : current < s
              /\ current \in log \cap Wanted /\ current <= scan'
  <2>1. current \in log \cap Wanted /\ current <= scan /\ \A s \in inflight : current < s
    BY <1>12 DEF StreamInv
  <2>2. current \in Nat /\ current <= scan'
    BY <2>1, <1>6, <1>9
  <2>3. \A s \in page : s \in Nat /\ scan < s
    BY <1>6
  <2>4. \A s \in page : current < s
    BY <2>1, <2>2, <2>3, <1>9
  <2> QED
    BY <2>1, <2>2, <2>4, <1>5
<1>13. inflight' \subseteq log \cap Wanted
  BY <1>5 DEF StreamInv
<1>14. scan' \in Nat /\ scan' <= Top(log) /\ \A s \in inflight' : s <= scan'
  BY <1>2, <1>5, <1>6, <1>8, <1>9 DEF StreamInv
<1>15. connected <=> lpc \in {"read", "handle", "commit"}
  BY DEF StreamInv
<1>16. StreamInv'
  BY <1>2, <1>10, <1>11, <1>12, <1>13, <1>14, <1>15 DEF StreamInv, Wanted, Seqs, history
<1> QED
  BY <1>3, <1>4, <1>16

LEMMA ReceiveStep ==
  ASSUME ConsumerAssumption, ConsumerInv, Receive
  PROVE  ConsumerInv'
<1> USE DEF ConsumerInv
<1>1. \A n : Done(n)' <=> Done(n)
  BY DoneSame DEF Receive, history, server
<1>2. OffsetInv'
  BY OffsetSame DEF Receive, server, history
<1>3. RpcInv' /\ LoopInv'
  BY <1>1 DEF Receive, RpcInv, LoopInv, Committing, server, ack
<1>4. log \subseteq Nat \ {0}
  BY HeadFound
<1>5. current' \in inflight /\ \A s \in inflight : current' <= s
  <2>1. inflight \subseteq log /\ inflight # {}
    BY DEF Receive, StreamInv
  <2>2. EndsOf(inflight)
    BY <2>1 DEF OffsetInv, RowsOrdered
  <2> QED
    BY <2>1, <2>2, <1>4, EndsFound DEF Receive
<1>6. inflight' = inflight \ {current'} /\ lpc = "read" /\ lpc' = "handle"
      /\ UNCHANGED <<log, connected, scan, handled>>
  BY DEF Receive, server, history
<1>7. Top(log)' = Top(log)
  BY <1>6 DEF Top
<1>8. connected /\ current' \in log \cap Wanted /\ inflight' \subseteq log \cap Wanted
  BY <1>5, <1>6 DEF StreamInv
<1>9. \A s \in inflight' : current' < s
  BY <1>4, <1>5, <1>6, <1>8
<1>10. scan \in Nat /\ scan <= Top(log) /\ current' <= scan /\ \A s \in inflight' : s <= scan
  BY <1>5, <1>6, <1>8 DEF StreamInv
<1>11. \A s \in log \cap Wanted : s <= scan => s \in handled \cup inflight' \/ s = current'
  BY <1>6, <1>8 DEF StreamInv
<1>12. StreamInv'
  BY <1>6, <1>7, <1>8, <1>9, <1>10, <1>11 DEF StreamInv, Wanted, Seqs
<1> QED
  BY <1>2, <1>3, <1>12

(* The event in the callback is the first that was left, so all before it is done. *)
LEMMA HandleOkStep ==
  ASSUME ConsumerAssumption, ConsumerInv, HandleOk
  PROVE  ConsumerInv'
<1> USE DEF ConsumerInv
<1>1. /\ UNCHANGED <<log, offset, commits, connected, scan, inflight, confirmed, rpc, timerBusy, base>>
      /\ handled' = handled \cup {current} /\ pendingCursor' = current
      /\ lpc = "handle" /\ lpc' \in {"commit", "read"} /\ current' = 0
  BY DEF HandleOk, server, stream
<1>2. log \subseteq Nat \ {0} /\ Top(log) \in Nat /\ \A s \in log : s <= Top(log)
  BY HeadFound
<1>3. Top(log)' = Top(log)
  BY <1>1 DEF Top
<1>4. \A n : Done(n) => Done(n)'
  BY <1>1, <1>3 DEF Done, Wanted, Seqs
<1>5. current \in log \cap Wanted /\ current <= scan /\ scan \in Nat /\ connected
      /\ \A s \in inflight : current < s
  BY <1>1 DEF StreamInv
<1>6. ASSUME NEW s \in log \cap Wanted, s <= current
      PROVE  s \in handled'
  <2>1. s <= scan /\ s \notin inflight
    BY <1>2, <1>5, <1>6
  <2> QED
    BY <2>1, <1>1, <1>5 DEF StreamInv
<1>7. \A n : n = current => Done(n)'
  BY <1>1, <1>2, <1>3, <1>5, <1>6 DEF Done, Wanted, Seqs
<1>8. offset \in Nat
  BY <1>1 DEF LoopInv
<1>9. OffsetInv'
  BY <1>1, <1>4, <1>8 DEF OffsetInv, RowsOrdered, EndsOf
<1>10. RpcInv'
  BY <1>1, <1>4 DEF RpcInv, Committing
<1>11. LoopInv'
  BY <1>1, <1>4, <1>7, <1>8 DEF LoopInv
<1>12. StreamInv'
  BY <1>1, <1>3, <1>5 DEF StreamInv, Wanted, Seqs
<1> QED
  BY <1>9, <1>10, <1>11, <1>12

(* Leaving the stream forgets what was under way, and nothing that was handled. *)
LEMMA LeaveStep ==
  ASSUME ConsumerAssumption, ConsumerInv, UNCHANGED <<server, ack, history>>, Disconnect,
         lpc \in {"connect", "read", "handle"}, lpc' \in {"ending", "catch"}
  PROVE  ConsumerInv'
<1> USE DEF ConsumerInv
<1>1. \A n : Done(n)' <=> Done(n)
  BY DoneSame DEF history, server
<1>2. OffsetInv'
  BY OffsetSame DEF server, history
<1>3. RpcInv' /\ LoopInv'
  BY <1>1 DEF RpcInv, LoopInv, Committing, server, ack
<1>4. StreamInv'
  BY StreamGone
<1> QED
  BY <1>2, <1>3, <1>4

LEMMA FinishStep ==
  ASSUME ConsumerAssumption, ConsumerInv, Finish
  PROVE  ConsumerInv'
<1> USE DEF ConsumerInv
<1>1. \A n : Done(n)' <=> Done(n)
  BY DoneSame DEF Finish, history, server
<1>2. OffsetInv'
  BY OffsetSame DEF Finish, server, history
<1>3. RpcInv' /\ LoopInv'
  BY <1>1 DEF Finish, RpcInv, LoopInv, server, ack
<1>4. StreamInv'
  BY StreamSame DEF Finish, StreamInv, server, history
<1> QED
  BY <1>2, <1>3, <1>4

LEMMA CrashStep ==
  ASSUME ConsumerAssumption, ConsumerInv, Crash
  PROVE  ConsumerInv'
<1> USE DEF ConsumerInv
<1>1. OffsetInv'
  BY OffsetSame DEF Crash, server, history
<1>2. RpcInv' /\ LoopInv'
  BY DEF Crash, RpcInv, LoopInv, NoRpc
<1>3. StreamInv'
  BY StreamGone DEF Crash
<1> QED
  BY <1>1, <1>2, <1>3

LEMMA IdleStep ==
  ASSUME ConsumerInv, UNCHANGED consumerVars
  PROVE  ConsumerInv'
<1> USE DEF ConsumerInv
<1>1. \A n : Done(n)' <=> Done(n)
  BY DoneSame DEF consumerVars, server, history
<1>2. OffsetInv'
  BY OffsetSame DEF consumerVars, server, history
<1>3. RpcInv' /\ LoopInv'
  BY <1>1 DEF RpcInv, LoopInv, consumerVars, server, ack, loop
<1>4. StreamInv'
  BY StreamSame DEF consumerVars, server, history, loop
<1> QED
  BY <1>2, <1>3, <1>4

LEMMA ConsumerStep ==
  ASSUME ConsumerAssumption, ReplayMode = "all", ConsumerInv, [ConsumerNext]_consumerVars
  PROVE  ConsumerInv'
<1>1. CASE AppendRow \/ Migrate \/ Reset
  BY <1>1, AppendStep, MigrateStep, ResetStep
<1>2. CASE \E m \in commits : ApplyCommit(m)
  BY <1>2, ApplyCommitStep
<1>3. CASE TimerFires \/ Poll \/ Start
  BY <1>3, TimerStep, PollStep, StartStep
<1>4. CASE ResumeFromOffset \/ RefuseLegacy \/ CommitBoundary \/ Connect
  BY <1>4, StatusStep, CommitBoundaryStep, ConnectStep
<1>5. CASE Receive \/ HandleOk \/ Finish \/ Crash
  BY <1>5, ReceiveStep, HandleOkStep, FinishStep, CrashStep
<1>6. CASE TimerAborts \/ TimerBreaks \/ HandleFails \/ StreamFails \/ StreamEnds
  BY <1>6, LeaveStep DEF TimerAborts, TimerBreaks, HandleFails, StreamFails, StreamEnds, EnterCatch, Fault
<1>7. CASE CommitSucceeds \/ \E who \in {"loop", "timer"} : SendCommit(who) \/ SkipCommit(who)
  BY <1>7, CommitSucceedsStep, SendCommitStep, SkipCommitStep
<1>8. CASE CommitRefused \/ CommitLost
  <2>1. PICK class : CommitFailed(class)
    BY <1>8 DEF CommitRefused, CommitLost
  <2>2. rpc.state # "none" /\ commits' \subseteq commits
    BY <1>8 DEF CommitRefused, CommitLost
  <2> QED
    BY <2>1, <2>2, CommitFailedStep
<1>9. CASE UNCHANGED consumerVars
  BY <1>9, IdleStep
<1> QED
  BY <1>1, <1>2, <1>3, <1>4, <1>5, <1>6, <1>7, <1>8, <1>9 DEF ConsumerNext, Client, Faulty

----------------------------------------------------------------------------
(* What a crash can replay *)

(* Any part of the log is finite. *)
LEMMA RowsFinite ==
  ASSUME ConsumerAssumption, OffsetInv, NEW S, S \subseteq log
  PROVE  IsFiniteSet(S) /\ Cardinality(S) \in Nat
<1>1. S \in SUBSET (1 .. MaxLog)
  BY DEF OffsetInv, Seqs
<1>2. IsFiniteSet(1 .. MaxLog)
  BY FS_Interval DEF ConsumerAssumption
<1>3. IsFiniteSet(S)
  BY <1>1, <1>2, FS_Subset
<1> QED
  BY <1>3, FS_CardinalityType

(* A part has no more rows than the whole, and one more row counts at most one more. *)
LEMMA RowsCounted ==
  ASSUME ConsumerAssumption, OffsetInv, NEW S, S \subseteq log, NEW T, NEW x, T \subseteq S \cup {x}
  PROVE  Cardinality(T) <= Cardinality(S) + 1 /\ (T \subseteq S => Cardinality(T) <= Cardinality(S))
<1>1. IsFiniteSet(S) /\ Cardinality(S) \in Nat
  BY RowsFinite
<1>2. IsFiniteSet(S \cup {x}) /\ Cardinality(S \cup {x}) <= Cardinality(S) + 1
  <2>1. /\ IsFiniteSet(S \cup {x})
        /\ Cardinality(S \cup {x}) = IF x \in S THEN Cardinality(S) ELSE Cardinality(S) + 1
    BY <1>1, FS_AddElement
  <2> QED
    BY <1>1, <2>1
<1>3. Cardinality(S \cup {x}) \in Nat /\ IsFiniteSet(T) /\ Cardinality(T) <= Cardinality(S \cup {x})
  BY <1>2, FS_Subset, FS_CardinalityType
<1>4. Cardinality(T) \in Nat
  BY <1>3, FS_CardinalityType
<1>5. T \subseteq S => Cardinality(T) <= Cardinality(S)
  BY <1>1, FS_Subset
<1> QED
  BY <1>1, <1>2, <1>3, <1>4, <1>5, FS_CardinalityType

(* Steps that leave the stream and the place in it alone, or leave no stream. *)
LEMMA OrderKept ==
  ASSUME OrderInv, UNCHANGED <<log, handled>>,
         \/ /\ UNCHANGED <<stream, current>> /\ LastHandled' = LastHandled
            /\ lpc' = lpc \/ (lpc # "handle" /\ lpc' # "handle")
         \/ ~connected' /\ lpc' # "handle"
  PROVE  OrderInv'
<1>1. CASE ~connected' /\ lpc' # "handle"
  BY <1>1 DEF OrderInv
<1>2. CASE /\ UNCHANGED <<stream, current>> /\ LastHandled' = LastHandled
           /\ lpc' = lpc \/ (lpc # "handle" /\ lpc' # "handle")
  BY <1>2 DEF OrderInv, stream
<1> QED
  BY <1>1, <1>2

(* Steps that neither count nor acknowledge anything. *)
LEMMA CountKept ==
  ASSUME CountInv, UNCHANGED <<log, confirmed, pendingCursor, pendingCount>>,
         lpc = "stopped" => lpc' = "stopped",
         lpc' \in {"status", "boundary", "connect"} \/ (lpc' = "finally" /\ ~stopping') => pendingCursor = 0,
         lpc' \in {"read", "handle"} => pendingCount < CheckpointEvery,
         \/ rpc'.state = "none"
         \/ /\ rpc'.through = rpc.through /\ rpc'.count = rpc.count /\ rpc'.by = rpc.by
            /\ rpc.state # "none" /\ (lpc = "boundary" <=> lpc' = "boundary")
  PROVE  CountInv'
<1>1. Between(confirmed, pendingCursor)' = Between(confirmed, pendingCursor)
  BY DEF Between
<1>2. rpc'.through = rpc.through => Between(rpc.through, pendingCursor)' = Between(rpc.through, pendingCursor)
  BY DEF Between
<1>3. CASE rpc'.state = "none"
  BY <1>1, <1>3 DEF CountInv
<1>4. CASE rpc'.state # "none"
  BY <1>1, <1>2, <1>4 DEF CountInv
<1> QED
  BY <1>3, <1>4

(* An offset that moves on leaves less to replay. *)
LEMMA BoundKept ==
  ASSUME ConsumerAssumption, OffsetInv, OrderInv, ReplayBounded,
         \/ handled' = {}
         \/ handled' = handled /\ (offset' \in Nat => offset \in Nat /\ offset <= offset')
  PROVE  ReplayBounded'
<1>1. CASE handled' = {}
  <2>1. {s \in handled' : s > offset'} = {}
    BY <1>1
  <2> QED
    BY <2>1, FS_EmptySet DEF ReplayBounded, ConsumerAssumption
<1>2. CASE handled' = handled /\ (offset' \in Nat => offset \in Nat /\ offset <= offset')
  <2> SUFFICES ASSUME offset' \in Nat
               PROVE  Cardinality({s \in handled' : s > offset'}) <= CheckpointEvery
    BY DEF ReplayBounded
  <2>1. /\ {s \in handled : s > offset} \subseteq log
        /\ {s \in handled' : s > offset'} \subseteq {s \in handled : s > offset}
    <3>1. handled \subseteq Nat /\ handled \subseteq log
      BY DEF OrderInv, OffsetInv, Seqs, ConsumerAssumption
    <3>2. \A s \in handled : s > offset' => s > offset
      BY <1>2, <3>1
    <3> QED
      BY <1>2, <3>1, <3>2
  <2>2. Cardinality({s \in handled : s > offset}) \in Nat
    BY <2>1, RowsFinite
  <2>3. Cardinality({s \in handled' : s > offset'}) \in Nat
    BY <2>1, RowsFinite
  <2>4. Cardinality({s \in handled' : s > offset'}) <= Cardinality({s \in handled : s > offset})
    BY <2>1, RowsCounted
  <2>5. Cardinality({s \in handled : s > offset}) <= CheckpointEvery
    BY <1>2 DEF ReplayBounded
  <2> QED
    BY <2>2, <2>3, <2>4, <2>5 DEF ConsumerAssumption
<1> QED
  BY <1>1, <1>2

(* A new row is above the head, so above everything that was handled or counted. *)
LEMMA AppendBatch ==
  ASSUME ConsumerAssumption, ConsumerInv, BatchInv, AppendRow
  PROVE  BatchInv'
<1> USE DEF ConsumerInv, BatchInv
<1>1. PICK new \in Seqs : (\A old \in log : old < new) /\ log' = log \cup {new}
  BY DEF AppendRow
<1>2. UNCHANGED <<offset, commits, stream, loop, ack, history>>
  BY DEF AppendRow
<1>3. log \subseteq Nat \ {0} /\ Top(log) \in Nat /\ \A s \in log : s <= Top(log)
  BY HeadFound
<1>4. new \in Nat /\ Top(log) < new
  <2>1. CASE log = {}
    BY <2>1 DEF Top, Seqs, ConsumerAssumption
  <2>2. CASE log # {}
    <3>1. EndsOf(log) /\ log \subseteq Nat
      BY <1>3, <2>2 DEF OffsetInv, RowsOrdered
    <3>2. Top(log) \in log
      BY <3>1, EndsFound
    <3> QED
      BY <1>1, <3>2 DEF Seqs, ConsumerAssumption
  <2> QED
    BY <2>1, <2>2
<1>5. ASSUME NEW low, NEW high \in Nat, high <= Top(log)
      PROVE  Between(low, high)' = Between(low, high)
  BY <1>1, <1>3, <1>4, <1>5 DEF Between
<1>6. lpc # "stopped" /\ pendingCursor # 0 =>
        pendingCursor \in Nat /\ pendingCursor <= Top(log)
  BY DEF LoopInv, Done
<1>7. OrderInv'
  <2>1. handled' \subseteq (log \cap Wanted)'
    BY <1>1, <1>2 DEF OrderInv, history
  <2>2. \A s \in handled', q \in (log \cap Wanted)' : q < s => q \in handled'
    BY <1>1, <1>2, <1>3, <1>4 DEF OrderInv, history
  <2>3. connected => scan \in Nat /\ scan < new
    BY <1>3, <1>4 DEF StreamInv
  <2> QED
    BY <1>1, <1>2, <1>4, <2>1, <2>2, <2>3 DEF OrderInv, LastHandled, stream, loop, ack
<1>8. CountInv'
  <2>1. lpc # "stopped" /\ pendingCursor # 0 =>
          Between(confirmed, pendingCursor)' = Between(confirmed, pendingCursor)
    BY <1>2, <1>5, <1>6 DEF ack
  <2>2. rpc.state # "none" => lpc # "stopped"
    BY DEF RpcInv, Committing
  <2>3. rpc.state # "none" /\ pendingCursor # 0 =>
          Between(rpc.through, pendingCursor)' = Between(rpc.through, pendingCursor)
    BY <1>2, <1>5, <1>6, <2>2 DEF ack
  <2> QED
    BY <1>2, <2>1, <2>2, <2>3 DEF CountInv, ack, loop
<1>9. ReplayBounded'
  BY <1>2, BoundKept DEF history
<1> QED
  BY <1>7, <1>8, <1>9

(* A migrated or reset consumer has handled nothing, and nothing runs. *)
LEMMA OperatorBatch ==
  ASSUME ConsumerAssumption, ConsumerInv, BatchInv, Migrate \/ Reset
  PROVE  BatchInv'
<1> USE DEF ConsumerInv, BatchInv
<1>1. /\ UNCHANGED <<log, stream, loop, ack>> /\ lpc = "stopped"
      /\ handled' = {}
  BY DEF Migrate, Reset, OffsetInv, ConsumerAssumption
<1>2. OrderInv'
  BY <1>1 DEF OrderInv, StreamInv, stream, loop
<1>3. CountInv'
  <2>1. rpc.state = "none"
    BY <1>1 DEF RpcInv, Committing
  <2> QED
    BY <1>1, <2>1, CountKept DEF loop, ack
<1>4. ReplayBounded'
  BY <1>1, BoundKept
<1> QED
  BY <1>2, <1>3, <1>4

(* An acknowledgement that arrives moves the offset on, or leaves it. *)
LEMMA ApplyBatch ==
  ASSUME ConsumerAssumption, ConsumerInv, BatchInv, NEW m \in commits, ApplyCommit(m)
  PROVE  BatchInv'
<1> USE DEF ConsumerInv, BatchInv
<1>1. /\ UNCHANGED <<log, stream, loop, confirmed, pendingCursor, pendingCount, handled>>
      /\ rpc' = rpc \/ \E to \in {"ok", "refused"} : rpc.state = "sent" /\ rpc' = [rpc EXCEPT !.state = to]
  BY DEF ApplyCommit
<1>2. OrderInv'
  BY <1>1, OrderKept DEF LastHandled, loop
<1>3. /\ rpc'.through = rpc.through /\ rpc'.count = rpc.count /\ rpc'.by = rpc.by
      /\ rpc.state # "none" \/ rpc'.state = "none"
  BY <1>1 DEF RpcInv
<1>4. CountInv'
  BY <1>1, <1>3, CountKept DEF CountInv, loop
<1>5. handled = {} \/ (offset' \in Nat => offset \in Nat /\ offset <= offset')
  BY DEF ApplyCommit, MayCommit, OffsetInv
<1>6. ReplayBounded'
  BY <1>1, <1>5, BoundKept
<1> QED
  BY <1>2, <1>4, <1>6

(* Everything that is pending is what an acknowledgement carries. *)
LEMMA SendBatch ==
  ASSUME ConsumerAssumption, ConsumerInv, BatchInv, NEW who \in {"loop", "timer"}, SendCommit(who)
  PROVE  BatchInv'
<1> USE DEF ConsumerInv, BatchInv
<1>1. UNCHANGED <<log, offset, stream, loop, confirmed, pendingCursor, pendingCount, history>>
  BY DEF SendCommit
<1>2. /\ rpc' = [state |-> "sent", by |-> who, through |-> pendingCursor, count |-> pendingCount]
      /\ pendingCursor # 0 /\ lpc \notin {"stopped", "boundary"}
  BY DEF SendCommit, Acknowledgeable, WantsCommit, RpcInv
<1>3. OrderInv' /\ ReplayBounded'
  BY <1>1, OrderKept, BoundKept DEF LastHandled, loop, history, ReplayBounded
<1>4. pendingCursor \in Nat
  BY <1>2 DEF LoopInv, Done
<1>5. Cardinality(Between(pendingCursor, pendingCursor)') = 0
  <2>1. Between(pendingCursor, pendingCursor)' = {}
    BY <1>1, <1>4, HeadFound DEF Between
  <2> QED
    BY <2>1, FS_EmptySet
<1>6. Between(confirmed, pendingCursor)' = Between(confirmed, pendingCursor)
  BY <1>1 DEF Between
<1>7. Between(rpc.through, pendingCursor)' = Between(pendingCursor, pendingCursor)'
  BY <1>1, <1>2 DEF Between
<1>8. CountInv'
  BY <1>1, <1>2, <1>4, <1>5, <1>6, <1>7 DEF CountInv, loop
<1> QED
  BY <1>3, <1>8

(* With nothing pending the checkpoint returns at once. *)
LEMMA SkipBatch ==
  ASSUME ConsumerAssumption, ConsumerInv, BatchInv, NEW who \in {"loop", "timer"}, SkipCommit(who)
  PROVE  BatchInv'
<1> USE DEF ConsumerInv, BatchInv
<1>1. /\ UNCHANGED <<log, offset, stream, stopping, current, confirmed, pendingCursor, pendingCount, rpc, history>>
      /\ rpc.state = "none" /\ pendingCursor = 0
  BY DEF SkipCommit, server
<1>2. lpc' = lpc \/ (lpc \in {"commit", "ending", "catch"} /\ lpc' \in {"read", "finally"})
  BY DEF SkipCommit, WantsCommit, AfterCommit
<1>3. OrderInv' /\ ReplayBounded'
  BY <1>1, <1>2, OrderKept, BoundKept DEF LastHandled, history, ReplayBounded
<1>4. pendingCount = 0 /\ pendingCount < CheckpointEvery
  BY <1>1 DEF CountInv, ConsumerAssumption
<1>5. CountInv'
  BY <1>1, <1>2, <1>4, CountKept
<1> QED
  BY <1>3, <1>5

(* What is settled was counted: the rest is what was handled since it was sent. *)
LEMMA SettleBatch ==
  ASSUME ConsumerAssumption, ConsumerInv, BatchInv, CommitSucceeds
  PROVE  BatchInv'
<1> USE DEF ConsumerInv, BatchInv
<1>1. /\ UNCHANGED <<log, offset, stream, stopping, current, history>>
      /\ rpc.state = "ok" /\ rpc'.state = "none" /\ confirmed' = rpc.through
      /\ rpc.by \in {"loop", "timer"}
  BY DEF CommitSucceeds, NoRpc, server, RpcInv
<1>2. /\ rpc.by = "timer" => lpc' = lpc /\ lpc \notin {"stopped", "status", "boundary", "connect"}
      /\ rpc.by = "loop" => \/ lpc = "boundary" /\ lpc' = "connect"
                            \/ lpc = "commit" /\ lpc' = "read"
                            \/ lpc \in {"ending", "catch"} /\ lpc' = "finally"
  BY <1>1 DEF CommitSucceeds, AfterCommit, RpcInv, Committing
<1>3. ReplayBounded'
  BY <1>1, BoundKept DEF history, ReplayBounded
<1>4. CASE lpc = "boundary"
  <2>1. pendingCursor = 0 /\ pendingCount = 0 /\ rpc.count = 0 /\ ~connected /\ lpc' = "connect"
    BY <1>1, <1>2, <1>4 DEF CountInv, StreamInv
  <2>2. pendingCursor' = 0 /\ pendingCount' = 0
    BY <2>1 DEF CommitSucceeds, SettlePending
  <2>3. OrderInv'
    BY <1>1, <2>1, OrderKept DEF history, stream
  <2>4. CountInv'
    BY <1>1, <2>1, <2>2 DEF CountInv, ConsumerAssumption
  <2> QED
    BY <1>3, <2>3, <2>4
<1>5. CASE lpc # "boundary" /\ pendingCursor = rpc.through
  <2>1. pendingCursor' = 0 /\ pendingCount' = 0 /\ pendingCursor # 0
    BY <1>1, <1>5 DEF CommitSucceeds, SettlePending, CountInv
  <2>2. OrderInv'
    BY <1>1, <1>2, <1>5, <2>1, OrderKept DEF history, stream, LastHandled
  <2>3. CountInv'
    BY <1>1, <1>2, <1>5, <2>1 DEF CountInv, ConsumerAssumption
  <2> QED
    BY <1>3, <2>2, <2>3
<1>6. CASE lpc # "boundary" /\ pendingCursor # rpc.through
  <2>1. /\ pendingCursor' = pendingCursor /\ pendingCount' = pendingCount - rpc.count
        /\ pendingCursor # 0 /\ rpc.by = "timer" /\ lpc' = lpc
    BY <1>1, <1>2, <1>6 DEF CommitSucceeds, SettlePending, CountInv
  <2>2. OrderInv'
    BY <1>1, <2>1, OrderKept DEF history, LastHandled, stream
  <2>3. Between(confirmed, pendingCursor)' = Between(rpc.through, pendingCursor)
    BY <1>1, <2>1 DEF Between
  <2>4. /\ Cardinality(Between(rpc.through, pendingCursor)) <= pendingCount - rpc.count
        /\ rpc.count \in Nat /\ pendingCount \in Nat /\ pendingCount <= CheckpointEvery
    BY <1>1, <1>6 DEF CountInv
  <2>5. Cardinality(Between(rpc.through, pendingCursor)) \in Nat
    BY RowsFinite DEF Between
  <2>6. pendingCount' \in Nat /\ pendingCount' <= pendingCount
    BY <2>1, <2>4, <2>5
  <2>7. lpc \in {"read", "handle"} => pendingCount' < CheckpointEvery
    BY <2>4, <2>6 DEF CountInv, ConsumerAssumption
  <2>8. CountInv'
    BY <1>1, <1>2, <2>1, <2>3, <2>4, <2>6, <2>7 DEF CountInv, ConsumerAssumption
  <2> QED
    BY <1>3, <2>2, <2>8
<1> QED
  BY <1>4, <1>5, <1>6

(* A failed acknowledgement leaves what is pending, or drops it before the loop goes
   back to the last acknowledged event. *)
LEMMA FailBatch ==
  ASSUME ConsumerAssumption, ConsumerInv, BatchInv, NEW class, CommitFailed(class), rpc.state # "none"
  PROVE  BatchInv'
<1> USE DEF ConsumerInv, BatchInv
<1>1. UNCHANGED <<log, offset, confirmed, history>> /\ rpc'.state = "none" /\ rpc.by \in {"loop", "timer"}
  BY DEF CommitFailed, NoRpc, RpcInv
<1>2. ReplayBounded'
  BY <1>1, BoundKept DEF history, ReplayBounded
<1>3. CASE rpc.by = "timer"
  <2>1. UNCHANGED <<loop, stream, pendingCursor, pendingCount>>
    BY <1>3 DEF CommitFailed
  <2> QED
    BY <1>1, <1>2, <2>1, OrderKept, CountKept DEF LastHandled, history, loop, CountInv
<1>4. CASE rpc.by = "loop" /\ lpc = "boundary"
  <2>1. lpc' = "stopped" /\ UNCHANGED <<stream, pendingCursor, pendingCount>> /\ ~connected
    BY <1>4 DEF CommitFailed, StreamInv
  <2> QED
    BY <1>1, <1>2, <2>1, OrderKept, CountKept DEF history, stream
<1>5. CASE rpc.by = "loop" /\ lpc \in {"commit", "ending"}
  <2>1. lpc' = "catch" /\ ~connected' /\ UNCHANGED <<pendingCursor, pendingCount>>
    BY <1>5 DEF CommitFailed, Disconnect
  <2> QED
    BY <1>1, <1>2, <1>5, <2>1, OrderKept, CountKept DEF history
<1>6. CASE rpc.by = "loop" /\ lpc = "catch"
  <2>1. /\ lpc' = "finally" /\ UNCHANGED stream /\ ~connected
        /\ \/ pendingCursor' = 0 /\ pendingCount' = 0
           \/ stopping' = TRUE /\ UNCHANGED <<pendingCursor, pendingCount>>
    BY <1>6 DEF CommitFailed, StreamInv
  <2>2. OrderInv'
    BY <1>1, <2>1, OrderKept DEF history, stream
  <2>3. CASE pendingCursor' = 0 /\ pendingCount' = 0
    BY <1>1, <1>2, <2>1, <2>2, <2>3 DEF CountInv, ConsumerAssumption
  <2>4. CASE stopping' = TRUE /\ UNCHANGED <<pendingCursor, pendingCount>>
    BY <1>1, <1>2, <1>6, <2>1, <2>2, <2>4, CountKept
  <2> QED
    BY <2>1, <2>3, <2>4
<1> QED
  BY <1>1, <1>3, <1>4, <1>5, <1>6 DEF RpcInv, Committing

(* Before a stream is opened nothing is pending. *)
LEMMA OpeningBatch ==
  ASSUME ConsumerAssumption, ConsumerInv, BatchInv,
         Start \/ ResumeFromOffset \/ RefuseLegacy \/ CommitBoundary \/ Crash
  PROVE  BatchInv'
<1> USE DEF ConsumerInv, BatchInv
<1>1. UNCHANGED <<log, offset, history>> /\ ~connected' /\ lpc' \in {"stopped", "status", "connect", "boundary"}
  BY DEF Start, ResumeFromOffset, RefuseLegacy, CommitBoundary, Crash, server, stream, history, Disconnect, StreamInv
<1>2. OrderInv' /\ ReplayBounded'
  BY <1>1, OrderKept, BoundKept DEF history, ReplayBounded
<1>3. pendingCursor' = 0 /\ pendingCount' = 0
  BY DEF Start, ResumeFromOffset, RefuseLegacy, CommitBoundary, Crash, ack, CountInv
<1>4. \/ rpc'.state = "none"
      \/ lpc' = "boundary" /\ rpc'.count = 0
  <2>1. lpc = "status" => rpc.state = "none"
    BY DEF RpcInv, Committing
  <2> QED
    BY <2>1 DEF Start, ResumeFromOffset, RefuseLegacy, CommitBoundary, Crash, ack, NoRpc
<1>5. CountInv'
  BY <1>1, <1>3, <1>4 DEF CountInv, ConsumerAssumption
<1> QED
  BY <1>2, <1>5

(* The stream starts where the last acknowledgement ended. *)
LEMMA ConnectBatch ==
  ASSUME ConsumerAssumption, ConsumerInv, BatchInv, Connect
  PROVE  BatchInv'
<1> USE DEF ConsumerInv, BatchInv
<1>1. /\ UNCHANGED <<log, offset, history, confirmed, pendingCursor, pendingCount, rpc>>
      /\ lpc = "connect" /\ lpc' = "read" /\ scan' = confirmed /\ inflight' = {}
      /\ pendingCursor = 0 /\ pendingCount = 0
  BY DEF Connect, server, CountInv
<1>2. confirmed \in Nat /\ log \subseteq Nat
  BY <1>1, HeadFound DEF LoopInv, Done
<1>3. OrderInv'
  BY <1>1, <1>2 DEF OrderInv, LastHandled, history
<1>4. rpc.state = "none"
  BY <1>1 DEF RpcInv, Committing
<1>5. CountInv'
  BY <1>1, <1>4, CountKept DEF ConsumerAssumption
<1>6. ReplayBounded'
  BY <1>1, BoundKept DEF history, ReplayBounded
<1> QED
  BY <1>3, <1>5, <1>6

(* A page is the next rows after the scan position, without gaps. *)
LEMMA PollBatch ==
  ASSUME ConsumerAssumption, ConsumerInv, BatchInv, Poll
  PROVE  BatchInv'
<1> USE DEF ConsumerInv, BatchInv
<1>1. UNCHANGED <<log, offset, connected, lpc, stopping, current, ack, history>> /\ connected
  BY DEF Poll, server, loop
<1> DEFINE left == {s \in log : s > scan}
<1>2. PICK page \in SUBSET left :
        IsPage(page, left) /\ inflight' = inflight \cup (page \cap Wanted) /\ scan' = Top(page)
  BY DEF Poll
<1>3. log \subseteq Nat \ {0} /\ scan \in Nat
  BY <1>1, HeadFound DEF StreamInv
<1>4. page # {} /\ \A s \in page, q \in left \ page : s < q
  BY <1>2 DEF IsPage
<1>5. scan' \in page /\ \A s \in page : s <= scan'
  <2>1. EndsOf(page)
    BY <1>4 DEF OffsetInv, RowsOrdered
  <2> QED
    BY <2>1, <1>2, <1>3, EndsFound
<1>6. LastHandled' = LastHandled /\ LastHandled <= scan /\ LastHandled \in Nat
  BY <1>1 DEF LastHandled, OrderInv, ack, LoopInv, StreamInv, Done
<1>7. LastHandled <= scan' /\ \A s \in page : LastHandled < s
  BY <1>3, <1>5, <1>6
<1>8. ASSUME NEW s \in log \cap Wanted, LastHandled < s, s <= scan'
      PROVE  s \in inflight' \/ (s = current /\ lpc = "handle")
  <2>1. CASE s <= scan
    BY <2>1, <1>1, <1>2, <1>8 DEF OrderInv
  <2>2. CASE ~(s <= scan)
    <3>1. s \in left
      BY <2>2, <1>3
    <3>2. s \in page
      BY <3>1, <1>3, <1>4, <1>5, <1>8
    <3> QED
      BY <3>2, <1>2
  <2> QED
    BY <2>1, <2>2
<1>9. OrderInv'
  BY <1>1, <1>2, <1>6, <1>7, <1>8 DEF OrderInv, history
<1>10. CountInv' /\ ReplayBounded'
  BY <1>1, CountKept, BoundKept DEF ack, history, CountInv, ReplayBounded
<1> QED
  BY <1>9, <1>10

(* The next event is the first in the stream. *)
LEMMA ReceiveBatch ==
  ASSUME ConsumerAssumption, ConsumerInv, BatchInv, Receive
  PROVE  BatchInv'
<1> USE DEF ConsumerInv, BatchInv
<1>1. /\ UNCHANGED <<log, offset, connected, scan, stopping, ack, history>>
      /\ lpc = "read" /\ lpc' = "handle" /\ inflight # {} /\ connected
      /\ current' = Least(inflight) /\ inflight' = inflight \ {Least(inflight)}
  BY DEF Receive, server, StreamInv
<1>2. Least(inflight) \in inflight
  <2>1. EndsOf(inflight) /\ inflight \subseteq Nat
    BY <1>1, HeadFound DEF OffsetInv, RowsOrdered, StreamInv
  <2> QED
    BY <1>1, <2>1, EndsFound
<1>3. LastHandled' = LastHandled
  BY <1>1 DEF LastHandled, ack
<1>4. OrderInv'
  BY <1>1, <1>2, <1>3 DEF OrderInv, history
<1>5. CountInv' /\ ReplayBounded'
  BY <1>1, CountKept, BoundKept DEF ack, history, CountInv, ReplayBounded
<1> QED
  BY <1>4, <1>5

(* The event whose callback returns is the next one after the last that was handled,
   so it adds one to what the counters cover; if it was not handled before, nothing
   after it was, and what a crash would replay is what this run has counted. *)
LEMMA HandleBatch ==
  ASSUME ConsumerAssumption, ConsumerInv, BatchInv, HandleOk
  PROVE  BatchInv'
<1> USE DEF ConsumerInv, BatchInv
<1>1. /\ UNCHANGED <<log, offset, connected, scan, inflight, confirmed, rpc>> /\ lpc = "handle"
      /\ handled' = handled \cup {current}
      /\ pendingCursor' = current /\ pendingCount' = pendingCount + 1
      /\ lpc' = IF pendingCount' >= CheckpointEvery THEN "commit" ELSE "read"
  BY DEF HandleOk, BatchFull, server, stream
<1>2. /\ log \subseteq Nat \ {0} /\ connected /\ scan \in Nat
      /\ current \in log \cap Wanted /\ current <= scan
      /\ \A s \in inflight : current < s
  BY <1>1, HeadFound DEF StreamInv
<1>3. /\ LastHandled < current /\ LastHandled \in Nat /\ confirmed \in Nat
      /\ \A s \in log \cap Wanted : LastHandled < s /\ s <= scan => s \in inflight \/ s = current
  BY <1>1, <1>2 DEF OrderInv, LastHandled, LoopInv, Done
<1>4. \A s \in log \cap Wanted : s <= LastHandled \/ s = current \/ current < s
  BY <1>2, <1>3
<1>5. current \in Nat /\ current # 0
  BY <1>2
<1>6. \A s \in log \cap Wanted : s < current => s \in handled
  BY <1>1, <1>2 DEF StreamInv
<1>7. OrderInv'
  <2>1. LastHandled' = current
    BY <1>1, <1>5 DEF LastHandled
  <2>2. \A s \in handled', q \in log \cap Wanted : q < s => q \in handled'
    BY <1>1, <1>6 DEF OrderInv
  <2>3. handled' \subseteq log \cap Wanted
    BY <1>1, <1>2 DEF OrderInv
  <2>4. \A s \in log \cap Wanted : current < s /\ s <= scan => s \in inflight
    BY <1>2, <1>3
  <2> QED
    BY <1>1, <1>2, <2>1, <2>2, <2>3, <2>4 DEF OrderInv
<1>8. pendingCount \in Nat /\ pendingCount' \in Nat /\ pendingCount' <= CheckpointEvery /\ CheckpointEvery \in Nat
  BY <1>1 DEF CountInv, ConsumerAssumption
<1>9. ASSUME NEW low \in Nat
      PROVE  Between(low, current) \subseteq Between(low, LastHandled) \cup {current}
  <2> SUFFICES ASSUME NEW s \in Between(low, current)
               PROVE  s \in Between(low, LastHandled) \/ s = current
    OBVIOUS
  <2>1. s \in log \cap Wanted /\ s \in Nat /\ low < s /\ s <= current
    BY <1>2 DEF Between
  <2>2. s <= LastHandled \/ s = current
    BY <1>4, <1>5, <2>1
  <2> QED
    BY <2>1, <2>2 DEF Between
<1>10. ASSUME NEW low \in Nat
       PROVE  /\ Cardinality(Between(low, current)) <= Cardinality(Between(low, LastHandled)) + 1
              /\ Cardinality(Between(low, LastHandled)) \in Nat /\ Cardinality(Between(low, current)) \in Nat
  <2>1. Between(low, LastHandled) \subseteq log /\ Between(low, current) \subseteq log
    BY DEF Between
  <2> QED
    BY <2>1, <1>9, RowsFinite, RowsCounted
<1>11. Cardinality(Between(confirmed, LastHandled)) <= pendingCount
  <2>1. CASE pendingCursor # 0
    BY <1>1, <2>1 DEF LastHandled, CountInv
  <2>2. CASE pendingCursor = 0
    <3>1. \A s \in log : ~(confirmed < s /\ s <= LastHandled)
      BY <1>2, <1>3, <2>2 DEF LastHandled
    <3>2. Between(confirmed, LastHandled) = {}
      BY <3>1 DEF Between
    <3> QED
      BY <3>2, <1>8, FS_EmptySet
  <2> QED
    BY <2>1, <2>2
<1>12. Cardinality(Between(confirmed, current)) <= pendingCount'
  BY <1>1, <1>3, <1>8, <1>10, <1>11
<1>13. ASSUME rpc.state # "none"
       PROVE  /\ pendingCursor # 0 /\ rpc.through <= current /\ rpc.count \in Nat /\ rpc.by # "loop"
              /\ Cardinality(Between(rpc.through, current)) <= pendingCount' - rpc.count
  <2>1. /\ pendingCursor # 0 /\ rpc.through <= pendingCursor /\ rpc.count \in Nat /\ rpc.by # "loop"
        /\ Cardinality(Between(rpc.through, pendingCursor)) <= pendingCount - rpc.count
        /\ rpc.through \in Nat
    BY <1>1, <1>13 DEF CountInv, RpcInv, Committing, Done
  <2>2. LastHandled = pendingCursor
    BY <2>1 DEF LastHandled
  <2> HIDE DEF ConsumerInv, BatchInv
  <2> QED
    BY <1>1, <1>3, <1>5, <1>8, <1>10, <2>1, <2>2
<1>14. CountInv'
  <2>1. Between(confirmed, pendingCursor)' = Between(confirmed, current)
    BY <1>1 DEF Between
  <2>2. Between(rpc.through, pendingCursor)' = Between(rpc.through, current)
    BY <1>1 DEF Between
  <2>3. lpc' = "commit" \/ (lpc' = "read" /\ pendingCount' < CheckpointEvery)
    BY <1>1, <1>8
  <2> HIDE DEF ConsumerInv, BatchInv
  <2> QED
    BY <1>1, <1>5, <1>8, <1>12, <1>13, <2>1, <2>2, <2>3 DEF CountInv
<1>15. CASE current \in handled
  <2>1. handled' = handled
    BY <1>1, <1>15
  <2> QED
    BY <1>1, <1>7, <1>14, <2>1, BoundKept DEF ReplayBounded
<1>16. CASE current \notin handled
  <2> SUFFICES ASSUME offset' \in Nat
               PROVE  Cardinality({s \in handled' : s > offset'}) <= CheckpointEvery
    BY <1>7, <1>14 DEF ReplayBounded
  <2>1. \A s \in handled' : s \in log \cap Wanted /\ s <= current
    BY <1>1, <1>2, <1>16 DEF OrderInv
  <2>2. offset = offset' /\ offset \in Nat /\ confirmed <= offset
    BY <1>1 DEF LoopInv
  <2>3. {s \in handled' : s > offset'} \subseteq Between(confirmed, current)
    <3> SUFFICES ASSUME NEW s \in handled', s > offset'
                 PROVE  s \in Between(confirmed, current)
      OBVIOUS
    <3>1. s \in log \cap Wanted /\ s <= current /\ s \in Nat
      BY <1>2, <2>1
    <3>2. confirmed < s
      BY <1>3, <2>2, <3>1
    <3> QED
      BY <3>1, <3>2 DEF Between
  <2>4. Between(confirmed, current) \subseteq log /\ {s \in handled' : s > offset'} \subseteq log
    BY <2>3 DEF Between
  <2>5. /\ Cardinality({s \in handled' : s > offset'}) <= Cardinality(Between(confirmed, current))
        /\ Cardinality({s \in handled' : s > offset'}) \in Nat
    BY <2>3, <2>4, RowsFinite, RowsCounted
  <2> QED
    BY <1>3, <1>8, <1>10, <1>12, <2>5
<1> QED
  BY <1>15, <1>16

(* Leaving a stream, ending a connection or starting the timer counts nothing. *)
LEMMA LeaveBatch ==
  ASSUME ConsumerAssumption, ConsumerInv, BatchInv,
         \/ TimerAborts \/ TimerBreaks \/ HandleFails \/ StreamFails \/ StreamEnds
         \/ Finish \/ TimerFires \/ UNCHANGED consumerVars
  PROVE  BatchInv'
<1> USE DEF ConsumerInv, BatchInv
<1>1. UNCHANGED <<log, offset, handled, confirmed, pendingCursor, pendingCount, rpc>>
  BY DEF TimerAborts, TimerBreaks, HandleFails, StreamFails, StreamEnds, Finish, TimerFires, EnterCatch,
         consumerVars, server, ack, history
<1>2. LastHandled' = LastHandled
  BY <1>1 DEF LastHandled
<1>3. CASE TimerAborts \/ TimerBreaks \/ HandleFails \/ StreamFails \/ StreamEnds
  <2>1. lpc \in {"connect", "read", "handle"} /\ lpc' \in {"catch", "ending"} /\ ~connected'
    BY <1>3 DEF TimerAborts, TimerBreaks, HandleFails, StreamFails, StreamEnds, EnterCatch, Disconnect
  <2> QED
    BY <1>1, <2>1, OrderKept, CountKept, BoundKept DEF CountInv, ReplayBounded
<1>4. CASE Finish
  <2>1. /\ UNCHANGED <<stream, current>> /\ lpc = "finally" /\ rpc.state = "none"
        /\ lpc' = "stopped" \/ (lpc' = "connect" /\ ~stopping)
    BY <1>4 DEF Finish
  <2> QED
    BY <1>1, <1>2, <2>1, OrderKept, CountKept, BoundKept DEF CountInv, ReplayBounded
<1>5. CASE TimerFires \/ UNCHANGED consumerVars
  <2>1. UNCHANGED <<stream, loop>>
    BY <1>5 DEF TimerFires, consumerVars
  <2> QED
    BY <1>1, <1>2, <2>1, OrderKept, CountKept, BoundKept DEF CountInv, ReplayBounded, loop
<1> QED
  BY <1>3, <1>4, <1>5

LEMMA BatchStep ==
  ASSUME ConsumerAssumption, ConsumerInv, BatchInv, [ConsumerNext]_consumerVars
  PROVE  BatchInv'
<1>1. CASE AppendRow \/ Migrate \/ Reset \/ \E m \in commits : ApplyCommit(m)
  BY <1>1, AppendBatch, OperatorBatch, ApplyBatch
<1>2. CASE Start \/ ResumeFromOffset \/ RefuseLegacy \/ CommitBoundary \/ Crash \/ Connect
  BY <1>2, OpeningBatch, ConnectBatch
<1>3. CASE Poll \/ Receive \/ HandleOk \/ CommitSucceeds
  BY <1>3, PollBatch, ReceiveBatch, HandleBatch, SettleBatch
<1>4. CASE \E who \in {"loop", "timer"} : SendCommit(who) \/ SkipCommit(who)
  BY <1>4, SendBatch, SkipBatch
<1>5. CASE CommitRefused \/ CommitLost
  <2>1. (\E class : CommitFailed(class)) /\ rpc.state # "none"
    BY <1>5 DEF CommitRefused, CommitLost
  <2> QED
    BY <2>1, FailBatch
<1>6. CASE \/ TimerAborts \/ TimerBreaks \/ HandleFails \/ StreamFails \/ StreamEnds
           \/ Finish \/ TimerFires \/ UNCHANGED consumerVars
  BY <1>6, LeaveBatch
<1> QED
  BY <1>1, <1>2, <1>3, <1>4, <1>5, <1>6 DEF ConsumerNext, Client, Faulty

----------------------------------------------------------------------------
(* Theorems *)

LEMMA ConsumerStarts ==
  ASSUME ConsumerAssumption, ConsumerInit
  PROVE  ConsumerInv
<1>1. OffsetInv
  BY DEF ConsumerInit, OffsetInv, RowsOrdered, EndsOf, ConsumerAssumption
<1>2. RpcInv /\ LoopInv /\ StreamInv
  BY DEF ConsumerInit, RpcInv, LoopInv, StreamInv, NoRpc
<1> QED
  BY <1>1, <1>2 DEF ConsumerInv

(***************************************************************************)
(* Each step of the consumer is a step of AtLeastOnce, or none at all: a   *)
(* callback is Handle, a stored acknowledgement is Acknowledge, the first  *)
(* boundary and a migrated offset are Begin, an audited reset is           *)
(* StartOver; connections, timers, retries and crashes are invisible.      *)
(***************************************************************************)
LEMMA ConsumerRefines ==
  ASSUME ConsumerAssumption, ConsumerInv, [ConsumerNext]_consumerVars
  PROVE  [ALO!Next]_(ALO!vars)
<1> USE DEF ConsumerInv
<1> USE DEF Stored
<1>1. log \subseteq Nat \ {0} /\ Top(log) \in Nat /\ \A s \in log : s <= Top(log)
  BY HeadFound
<1>2. CASE AppendRow
  <2>1. PICK new \in Seqs : (\A old \in log : old < new) /\ log' = log \cup {new}
    BY <1>2 DEF AppendRow
  <2>2. UNCHANGED <<offset, base, handled>>
    BY <1>2 DEF AppendRow, history
  <2>3. new \in Nat
    BY DEF Seqs, ConsumerAssumption
  <2>4. offset \in Nat => offset < new
    <3>1. log # {} => Top(log) \in log
      BY <1>1, EndsFound DEF OffsetInv, RowsOrdered
    <3>2. log = {} => Top(log) = 0
      BY DEF Top
    <3>3. 0 < new
      BY DEF Seqs, ConsumerAssumption
    <3> QED
      BY <1>1, <2>1, <2>3, <3>1, <3>2, <3>3 DEF OffsetInv, Done
  <2>5. ALO!Append
    BY <1>1, <2>1, <2>2, <2>3, <2>4 DEF ALO!Append, OffsetInv
  <2> QED
    BY <2>5 DEF ALO!Next
<1>3. CASE Migrate
  <2>1. handled = {} /\ offset' = 0 /\ base' = 0 /\ UNCHANGED <<log, handled>>
    BY <1>3 DEF Migrate, OffsetInv, ConsumerAssumption
  <2>2. ALO!Begin
    BY <1>3, <2>1 DEF ALO!Begin, Migrate, ConsumerAssumption
  <2> QED
    BY <2>2 DEF ALO!Next
<1>4. CASE Reset
  <2>1. ALO!StartOver
    BY <1>4 DEF ALO!StartOver, Reset, ConsumerAssumption
  <2> QED
    BY <2>1 DEF ALO!Next
<1>5. CASE \E m \in commits : ApplyCommit(m)
  <2>1. PICK m \in commits : ApplyCommit(m)
    BY <1>5
  <2> DEFINE accepted == offset # Legacy /\ MayCommit(m.through)
  <2>2. Done(m.through) /\ m.through \in Nat /\ (IF m.boundary THEN m.through = 0 ELSE offset \in Nat)
    BY <2>1 DEF OffsetInv, Done
  <2>3. UNCHANGED <<log, handled>> /\ base = 0 /\ base' = 0
    BY <2>1, <2>2 DEF ApplyCommit, OffsetInv
  <2>4. offset' = IF accepted THEN m.through ELSE offset
    BY <2>1 DEF ApplyCommit
  <2>5. CASE ~accepted
    BY <2>3, <2>4, <2>5 DEF ALO!vars
  <2>6. CASE accepted /\ offset \in Nat
    <3>1. offset' = m.through /\ offset <= m.through
      BY <2>4, <2>6 DEF MayCommit
    <3>2. \A s \in log \cap Wanted : s <= m.through => s \in handled
      BY <2>2 DEF Done
    <3>3. ALO!Acknowledge
      BY <2>2, <2>3, <2>6, <3>1, <3>2 DEF ALO!Acknowledge, ALO!HandledThrough, ConsumerAssumption
    <3> QED
      BY <3>3 DEF ALO!Next
  <2>7. CASE accepted /\ offset \notin Nat
    <3>1. offset' = 0 /\ offset = Unset /\ handled = {}
      BY <2>2, <2>4, <2>7 DEF OffsetInv
    <3>2. ALO!Begin
      BY <2>3, <3>1 DEF ALO!Begin, ConsumerAssumption
    <3> QED
      BY <3>2 DEF ALO!Next
  <2> QED
    BY <2>5, <2>6, <2>7
<1>6. CASE HandleOk
  <2>1. current \in log \cap Wanted
    BY <1>6 DEF HandleOk, StreamInv
  <2>2. ALO!Handle
    BY <1>6, <2>1 DEF ALO!Handle, HandleOk, server
  <2> QED
    BY <2>2 DEF ALO!Next
<1>7. ASSUME UNCHANGED <<log, offset, base, handled>>
      PROVE  UNCHANGED ALO!vars
  BY <1>7 DEF ALO!vars
<1>8. CASE \/ TimerFires \/ Poll \/ Start \/ UNCHANGED consumerVars \/ CommitLost \/ CommitRefused
           \/ \E who \in {"loop", "timer"} : SendCommit(who) \/ SkipCommit(who)
  BY <1>7, <1>8 DEF TimerFires, Poll, Start, consumerVars, CommitLost, CommitRefused, CommitFailed,
                    SendCommit, SkipCommit, server, history
<1>9. CASE \/ ResumeFromOffset \/ RefuseLegacy \/ CommitBoundary \/ Connect \/ Receive
           \/ TimerAborts \/ TimerBreaks \/ Finish \/ CommitSucceeds
           \/ HandleFails \/ StreamFails \/ StreamEnds \/ Crash
  BY <1>7, <1>9 DEF ResumeFromOffset, RefuseLegacy, CommitBoundary, Connect, Receive, TimerAborts,
                    TimerBreaks, Finish, CommitSucceeds, HandleFails, StreamFails, StreamEnds, Crash,
                    EnterCatch, server, history
<1> QED
  BY <1>2, <1>3, <1>4, <1>5, <1>6, <1>8, <1>9 DEF ConsumerNext, Client, Faulty

(***************************************************************************)
(* ConsumerInv is an invariant: the stored offset, every acknowledgement   *)
(* on the wire, the one the client waits for, the one it would send next   *)
(* and the cursor it reconnects from all have only handled events behind   *)
(* them (consumeEvents, checkpoint and commitConsumerCursor).              *)
(***************************************************************************)
THEOREM ConsumerInvHolds ==
  ASSUME ConsumerAssumption, ReplayMode = "all"
  PROVE  ConsumerSpec => []ConsumerInv
<1>1. ConsumerInit => ConsumerInv
  BY ConsumerStarts
<1>2. ConsumerInv /\ [ConsumerNext]_consumerVars => ConsumerInv'
  BY ConsumerStep
<1> QED
  BY <1>1, <1>2, PTL DEF ConsumerSpec

(***************************************************************************)
(* A consumer that replays from the start implements AtLeastOnce, for all  *)
(* filters, batch sizes, page sizes and numbers of failures: whatever      *)
(* fails, dies or arrives late, the stored offset passes an event only     *)
(* after the callback has returned for it.                                 *)
(***************************************************************************)
THEOREM DeliversAtLeastOnceHolds ==
  ASSUME ConsumerAssumption, ReplayMode = "all"
  PROVE  ConsumerSpec => DeliversAtLeastOnce
<1>1. ConsumerInit => ALO!Init
  BY DEF ConsumerInit, ALO!Init, Stored
<1>2. ConsumerInv /\ [ConsumerNext]_consumerVars => [ALO!Next]_(ALO!vars)
  BY ConsumerRefines
<1>3. ConsumerSpec => []ConsumerInv
  BY ConsumerInvHolds
<1> QED
  BY <1>1, <1>2, <1>3, PTL DEF ConsumerSpec, DeliversAtLeastOnce, ALO!Spec

(***************************************************************************)
(* While the client is connected, the point it would resume from after a   *)
(* crash is stored (consumeEvents commits the boundary before it opens the *)
(* stream, and moves its cursor only when an acknowledgement succeeded).   *)
(***************************************************************************)
THEOREM ResumePointStoredHolds ==
  ASSUME ConsumerAssumption, ReplayMode = "all"
  PROVE  ConsumerSpec => []ResumePointStored
<1>1. ConsumerInv => ResumePointStored
  BY DEF ConsumerInv, LoopInv, ResumePointStored
<1> QED
  BY <1>1, ConsumerInvHolds, PTL

(***************************************************************************)
(* Handled events that are not acknowledged never exceed one batch, so     *)
(* that is all a crash can replay: the loop waits for an acknowledgement   *)
(* when a batch is full, and what the timer sends meanwhile is subtracted  *)
(* only after it was stored (checkpoint).                                  *)
(***************************************************************************)
THEOREM ReplayBoundedHolds ==
  ASSUME ConsumerAssumption, ReplayMode = "all"
  PROVE  ConsumerSpec => []ReplayBounded
<1>1. ASSUME ConsumerInit
      PROVE  BatchInv
  <2>1. handled = {} /\ lpc = "stopped" /\ ~connected /\ rpc.state = "none" /\ offset \notin Nat
    BY <1>1 DEF ConsumerInit, NoRpc, ConsumerAssumption
  <2> QED
    BY <1>1, <2>1 DEF ConsumerInit, BatchInv, OrderInv, CountInv, ReplayBounded, ConsumerAssumption
<1>2. ConsumerInv /\ BatchInv /\ [ConsumerNext]_consumerVars => BatchInv'
  BY BatchStep
<1>3. ConsumerSpec => []ConsumerInv
  BY ConsumerInvHolds
<1>4. ConsumerSpec => []BatchInv
  BY <1>1, <1>2, <1>3, PTL DEF ConsumerSpec
<1>5. BatchInv => ReplayBounded
  BY DEF BatchInv
<1> QED
  BY <1>4, <1>5, PTL

(***************************************************************************)
(* The stored offset moves back only by an audited reset, however late and *)
(* in whatever order acknowledgements arrive (commitConsumerCursor refuses *)
(* a cursor behind the stored one).                                        *)
(***************************************************************************)
THEOREM OffsetNeverRewindsHolds ==
  ASSUME ConsumerAssumption, ReplayMode = "all"
  PROVE  ConsumerSpec => OffsetNeverRewinds
<1>1. ASSUME ConsumerInv, [ConsumerNext]_consumerVars, offset \in Nat, offset' # offset
      PROVE  offset' > offset \/ resets' = resets + 1
  <2>1. CASE Reset
    BY <2>1 DEF Reset
  <2>2. CASE \E m \in commits : ApplyCommit(m)
    <3>1. PICK m \in commits : ApplyCommit(m)
      BY <2>2
    <3>2. m.through \in Nat
      BY <1>1 DEF ConsumerInv, OffsetInv, Done
    <3>3. offset' = m.through /\ offset <= m.through
      BY <1>1, <3>1 DEF ApplyCommit, MayCommit
    <3> QED
      BY <1>1, <3>2, <3>3
  <2>3. CASE AppendRow \/ Migrate
    BY <1>1, <2>3 DEF AppendRow, Migrate, ConsumerAssumption
  <2>4. CASE TimerFires \/ Poll \/ Start \/ Client \/ Faulty \/ UNCHANGED consumerVars
    BY <1>1, <2>4 DEF Client, Faulty, TimerFires, Poll, Start, consumerVars, server, CommitLost, CommitRefused,
      CommitFailed, SendCommit, SkipCommit, ResumeFromOffset, RefuseLegacy, CommitBoundary, Connect,
      Receive, HandleOk, TimerAborts, TimerBreaks, Finish, CommitSucceeds, HandleFails, StreamFails,
      StreamEnds, Crash, EnterCatch
  <2> QED
    BY <1>1, <2>1, <2>2, <2>3, <2>4 DEF ConsumerNext
<1>2. ConsumerInv /\ [ConsumerNext]_consumerVars =>
        [(offset \in Nat /\ offset' # offset) => (offset' > offset \/ resets' = resets + 1)]_consumerVars
  BY <1>1
<1> QED
  BY <1>2, ConsumerInvHolds, PTL DEF ConsumerSpec, OffsetNeverRewinds

(***************************************************************************)
(* Together: what consumeEvents owes to the callback it drives, whatever   *)
(* fails, dies or arrives late.                                            *)
(***************************************************************************)
THEOREM ConsumerPromiseHolds ==
  ASSUME ConsumerAssumption, ReplayMode = "all"
  PROVE  ConsumerSpec => ConsumerPromise
BY DeliversAtLeastOnceHolds, ResumePointStoredHolds, ReplayBoundedHolds, OffsetNeverRewindsHolds, PTL
   DEF ConsumerPromise

----------------------------------------------------------------------------
(* What it is worth to implement AtLeastOnce *)

(* Sequences and boundaries are numbers; an offset may be missing. *)
StoredTypes == log \subseteq Nat /\ base \in Nat /\ Stored \in Nat \cup {Unset}

(* Every step keeps both. *)
LEMMA SkipStep ==
  ASSUME StoredTypes, ALO!NothingSkipped, [ALO!Next]_(ALO!vars)
  PROVE  StoredTypes' /\ ALO!NothingSkipped'
<1>1. CASE ALO!Append
  <2>1. StoredTypes'
    BY <1>1 DEF ALO!Append, StoredTypes
  <2>2. Stored # Unset => \A new \in log' \ log : Stored < new
    BY <1>1 DEF ALO!Append
  <2>3. log' \subseteq Nat /\ UNCHANGED <<Stored, base, handled>>
    BY <1>1 DEF ALO!Append
  <2>4. ALO!NothingSkipped'
    BY <2>2, <2>3 DEF ALO!NothingSkipped, ALO!HandledThrough, StoredTypes
  <2> QED
    BY <2>1, <2>4
<1>2. CASE ALO!Handle
  BY <1>2 DEF ALO!Handle, ALO!NothingSkipped, ALO!HandledThrough, StoredTypes
<1>3. CASE ALO!Begin \/ ALO!StartOver
  <2>1. Stored' \in Nat /\ base' = Stored' /\ log' = log
    BY <1>3 DEF ALO!Begin, ALO!StartOver
  <2>2. StoredTypes'
    BY <2>1 DEF StoredTypes
  <2> QED
    BY <2>1, <2>2 DEF ALO!NothingSkipped, ALO!HandledThrough, StoredTypes
<1>4. CASE ALO!Acknowledge
  BY <1>4 DEF ALO!Acknowledge, ALO!NothingSkipped, ALO!HandledThrough, StoredTypes
<1>5. CASE UNCHANGED ALO!vars
  BY <1>5 DEF ALO!vars, ALO!NothingSkipped, ALO!HandledThrough, StoredTypes
<1> QED
  BY <1>1, <1>2, <1>3, <1>4, <1>5 DEF ALO!Next

(***************************************************************************)
(* In every behaviour of AtLeastOnce, hence of every consumer shown to     *)
(* implement it, no wanted event between the starting boundary and the     *)
(* stored offset was passed over: commitConsumerCursor only ever stores a  *)
(* cursor whose events onEvent has returned for.                           *)
(***************************************************************************)
THEOREM NothingSkippedHolds == ALO!Spec => []ALO!NothingSkipped
<1>1. ALO!Init => StoredTypes /\ ALO!NothingSkipped
  BY DEF ALO!Init, StoredTypes, ALO!NothingSkipped
<1>2. StoredTypes /\ ALO!NothingSkipped /\ [ALO!Next]_(ALO!vars) => StoredTypes' /\ ALO!NothingSkipped'
  BY SkipStep
<1> QED
  BY <1>1, <1>2, PTL DEF ALO!Spec

(***************************************************************************)
(* So a consumer that replays from the start skips nothing.                *)
(***************************************************************************)
THEOREM ConsumerSkipsNothing ==
  ASSUME ConsumerAssumption, ReplayMode = "all"
  PROVE  ConsumerSpec => []ALO!NothingSkipped
BY DeliversAtLeastOnceHolds, NothingSkippedHolds, PTL DEF DeliversAtLeastOnce
============================================================================
