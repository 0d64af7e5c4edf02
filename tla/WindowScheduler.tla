--------------------------- MODULE WindowScheduler ---------------------------
(***************************************************************************)
(* The window scheduler of the memory worker: events delivered by the      *)
(* durable consumer are gathered into windows, one per partition; a sealed *)
(* window waits in an outbox until it is an episode job of the ledger. The *)
(* state and the outbox are one checkpoint file. observe and tick are      *)
(* serialized; the process may die at any await, and the transport then    *)
(* delivers again from what was acknowledged.                              *)
(***************************************************************************)
EXTENDS Naturals, Sequences, FiniteSets, SequencesExt

CONSTANTS
  Partitions,   \* digests of a project and its workspace
  Every,        \* sources that seal a window
  Elapsed,      \* processing time that seals a window
  MaxOutbox,    \* capacity of the outbox
  MaxSources,   \* sources the checkpoint may hold
  MaxJobs,      \* episode jobs the ledger admits at a time
  MaxSeq,       \* bound: events delivered
  MaxTime,      \* bound: the clock
  MaxSchedulerFaults  \* bound: crashes, cursor resets, clock corrections

ASSUME SchedulerAssumption ==
  /\ Every \in Nat \ {0} /\ Elapsed \in Nat \ {0} /\ MaxJobs \in Nat \ {0}
  /\ {MaxOutbox, MaxSources, MaxSeq, MaxTime, MaxSchedulerFaults} \subseteq Nat
  /\ "excluded" \notin Partitions

VARIABLES
  saved,     \* the checkpoint file, Absent before the first open
  mem,       \* the scheduler's state in memory
  draft,     \* the state an operation is about to persist
  pc,        \* where the operation under way is
  cur,       \* the operation under way: open, observe or tick
  final,     \* whether the flush under way is the last one of its operation
  call,      \* the calls waiting in serialize: observe and tick
  handled,   \* the last event whose callback returned
  ack,       \* the consumer's acknowledged offset
  ledger,    \* windows that became episode jobs
  open,      \* those still active in the ledger
  dropped,   \* history: sequences observed as excluded
  now, schedulerFaults

schedulerVars == <<saved, mem, draft, pc, cur, final, call, handled, ack, ledger,
                   open, dropped, now, schedulerFaults>>
outside == <<handled, ack, ledger, open, dropped, now, schedulerFaults>>

Absent == [through |-> 0, excluded |-> 0, windows |-> {}, outbox |-> <<>>, made |-> FALSE]
Idle == [on |-> FALSE, t |-> 0, seq |-> 0, part |-> "excluded", last |-> FALSE]

OpenWindow == [part : Partitions, openedAt : Nat, sources : Seq(Nat)]
Sealed == [part : Partitions, openedAt : Nat, sources : Seq(Nat), sealedAt : Nat,
           trigger : {"count", "elapsed", "completion"}]

SchedulerInit ==
  /\ saved = Absent /\ mem = Absent /\ draft = Absent /\ pc = "down"
  /\ cur = "open" /\ final = FALSE
  /\ call = [c \in {"observe", "tick"} |-> Idle]
  /\ handled = 0 /\ ack = 0 /\ ledger = {} /\ open = {} /\ dropped = {}
  /\ now = 0 /\ schedulerFaults = 0

-----------------------------------------------------------------------------
(* How many sources the checkpoint holds: persist refuses more. *)
InWindows(windows) == UNION {{w} \X DOMAIN w.sources : w \in windows}
InOutbox(outbox) == UNION {{k} \X DOMAIN outbox[k].sources : k \in DOMAIN outbox}
SourceCount(state) ==
  Cardinality(InWindows(state.windows)) + Cardinality(InOutbox(state.outbox))

Fits(state) == Len(state.outbox) <= MaxOutbox /\ SourceCount(state) <= MaxSources

(* seal: the window moves to the outbox. Its identity is its whole record. *)
SealWindow(w, trigger, t) ==
  [part |-> w.part, openedAt |-> w.openedAt, sources |-> w.sources,
   sealedAt |-> IF t > w.openedAt THEN t ELSE w.openedAt, trigger |-> trigger]

Seal(state, w, trigger, t) ==
  [state EXCEPT !.windows = @ \ {w}, !.outbox = Append(@, SealWindow(w, trigger, t))]

Due(w, t) == t >= w.openedAt + Elapsed

(* observe: the event joins its partition's window, a due one being sealed first. *)
Observed(state, o) ==
  LET moved == [state EXCEPT !.through = o.seq]
      mine  == {w \in moved.windows : w.part = o.part}
      due   == {w \in mine : Due(w, o.t)}
      kept  == IF due = {} THEN moved
               ELSE Seal(moved, CHOOSE w \in due : TRUE, "elapsed", o.t)
      base  == IF mine \ due = {} THEN [part |-> o.part, openedAt |-> o.t, sources |-> <<>>]
               ELSE CHOOSE w \in mine \ due : TRUE
      grown == [base EXCEPT !.sources = Append(@, o.seq)]
      put   == [kept EXCEPT !.windows = (@ \ {base}) \cup {grown}]
  IN IF o.part = "excluded" THEN [moved EXCEPT !.excluded = @ + 1]
     ELSE IF o.last THEN Seal(put, grown, "completion", o.t)
     ELSE IF Len(grown.sources) >= Every THEN Seal(put, grown, "count", o.t)
     ELSE put

(* Mutant: windows are sealed by the next event only. *)
TickedNever(state, t) == state

(* tick: every due window is sealed. *)
Ticked(state, t) ==
  LET due == SetToSeq({w \in state.windows : Due(w, t)})
  IN [state EXCEPT !.windows = @ \ ToSet(due),
                   !.outbox = @ \o [i \in DOMAIN due |-> SealWindow(due[i], "elapsed", t)]]

-----------------------------------------------------------------------------
(* scheduleEvent reaches observe with the next event and the time of the call.
   What an event is classified as may differ when it is delivered again. Events
   arrive while there is time left for their windows to elapse. *)
CallObserve(part, last) ==
  /\ pc # "down" /\ ~call["observe"].on /\ handled < MaxSeq /\ now + Elapsed <= MaxTime
  /\ call' = [call EXCEPT !["observe"] =
                [on |-> TRUE, t |-> now, seq |-> handled + 1, part |-> part, last |-> last]]
  /\ UNCHANGED <<saved, mem, draft, pc, cur, final, outside>>

(* The runner's timer calls tick. *)
CallTick ==
  /\ pc # "down" /\ ~call["tick"].on
  /\ call' = [call EXCEPT !["tick"] = [Idle EXCEPT !.on = TRUE, !.t = now]]
  /\ UNCHANGED <<saved, mem, draft, pc, cur, final, outside>>

(* open: the checkpoint is read, or made at the consumer's acknowledged offset. *)
OpenCheckpoint ==
  /\ pc = "down" /\ pc' = "flush" /\ cur' = "open" /\ final' = TRUE
  /\ saved' = IF saved.made THEN saved ELSE [Absent EXCEPT !.through = ack, !.made = TRUE]
  /\ mem' = saved' /\ handled' = ack
  /\ UNCHANGED <<draft, call, ack, ledger, open, dropped, now, schedulerFaults>>

(* serialize: an operation gets its turn and flushes first. *)
Begin(c) ==
  /\ pc = "idle" /\ call[c].on
  /\ pc' = "flush" /\ cur' = c /\ final' = FALSE
  /\ UNCHANGED <<saved, mem, draft, call, outside>>

AfterFlush == IF final THEN "return" ELSE "body"

(* flush: the head of the outbox is delivered; enqueue of a known window changes
   nothing, a full ledger ends the flush. *)
Deliver ==
  /\ pc = "flush" /\ mem.outbox # <<>>
  /\ LET w == Head(mem.outbox) IN
     \/ /\ w \in ledger /\ pc' = "dequeue" /\ UNCHANGED <<ledger, open>>
     \/ /\ w \notin ledger /\ Cardinality(open) < MaxJobs
        /\ ledger' = ledger \cup {w} /\ open' = open \cup {w} /\ pc' = "dequeue"
     \/ /\ w \notin ledger /\ Cardinality(open) >= MaxJobs
        /\ pc' = AfterFlush /\ UNCHANGED <<ledger, open>>
  /\ UNCHANGED <<saved, mem, draft, cur, final, call, handled, ack, dropped, now,
                 schedulerFaults>>

(* Mutant: the checkpoint without the window is written although it was refused. *)
DequeueUndelivered ==
  /\ pc \in {"dequeue", "flush"} /\ mem.outbox # <<>>
  /\ pc = "flush" => Cardinality(open) >= MaxJobs
  /\ mem' = [mem EXCEPT !.outbox = Tail(@)] /\ saved' = mem' /\ pc' = "flush"
  /\ UNCHANGED <<draft, cur, final, call, outside>>

(* persist without the delivered window. *)
Dequeue ==
  /\ pc = "dequeue"
  /\ mem' = [mem EXCEPT !.outbox = Tail(@)] /\ saved' = mem' /\ pc' = "flush"
  /\ UNCHANGED <<draft, cur, final, call, outside>>

Flushed ==
  /\ pc = "flush" /\ mem.outbox = <<>> /\ pc' = AfterFlush
  /\ UNCHANGED <<saved, mem, draft, cur, final, call, outside>>

-----------------------------------------------------------------------------
(* observe leaves alone what the checkpoint has passed. *)
SeenBefore == call["observe"].seq <= mem.through

ObserveSeen ==
  /\ pc = "body" /\ cur = "observe" /\ SeenBefore
  /\ pc' = "return"
  /\ UNCHANGED <<saved, mem, draft, cur, final, call, outside>>

ObserveNew ==
  /\ pc = "body" /\ cur = "observe" /\ ~SeenBefore
  /\ LET new == Observed(mem, call["observe"]) IN
     IF Fits(new) THEN draft' = new /\ pc' = "persist"
     ELSE pc' = "refused" /\ UNCHANGED draft
  /\ UNCHANGED <<saved, mem, cur, final, call, outside>>

(* ProcessingBackpressureError: the consumer's callback pauses and calls again. *)
ObserveRefused ==
  /\ pc = "refused" /\ pc' = "idle"
  /\ call' = [call EXCEPT !["observe"] = Idle]
  /\ UNCHANGED <<saved, mem, draft, cur, final, outside>>

(* tick; a refusal is left for the next one. *)
Tick ==
  /\ pc = "body" /\ cur = "tick"
  /\ LET new == Ticked(mem, call["tick"].t) IN
     IF new.outbox # <<>> /\ Fits(new) THEN draft' = new /\ pc' = "persist"
     ELSE pc' = "return" /\ UNCHANGED draft
  /\ UNCHANGED <<saved, mem, cur, final, call, outside>>

(* An excluded event is remembered once its checkpoint is written. *)
Drops == IF cur = "observe" /\ call[cur].part = "excluded" THEN {call[cur].seq} ELSE {}

(* persist: the checkpoint is replaced, then the state in memory. *)
Persist ==
  /\ pc = "persist" /\ pc' = "flush" /\ final' = TRUE
  /\ saved' = draft /\ mem' = draft
  /\ dropped' = dropped \cup Drops /\ draft' = Absent
  /\ UNCHANGED <<cur, call, handled, ack, ledger, open, now, schedulerFaults>>

(* The operation returns; the callback of an observed event has returned too. *)
Return ==
  /\ pc = "return" /\ pc' = "idle"
  /\ handled' = IF cur = "observe" THEN call[cur].seq ELSE handled
  /\ call' = IF cur = "open" THEN call ELSE [call EXCEPT ![cur] = Idle]
  /\ UNCHANGED <<saved, mem, draft, cur, final, ack, ledger, open, dropped, now,
                 schedulerFaults>>

-----------------------------------------------------------------------------
(* consumeEvents acknowledges what was handled, in batches. *)
Acknowledge ==
  /\ pc # "down" /\ ack < handled /\ ack' = handled
  /\ UNCHANGED <<saved, mem, draft, pc, cur, final, call, handled, ledger, open, dropped,
                 now, schedulerFaults>>

(* An episode job ends: the ledger has room again. *)
JobEnds(w) ==
  /\ w \in open /\ open' = open \ {w}
  /\ UNCHANGED <<saved, mem, draft, pc, cur, final, call, handled, ack, ledger, dropped,
                 now, schedulerFaults>>

TimePasses ==
  /\ now < MaxTime /\ now' = now + 1
  /\ UNCHANGED <<saved, mem, draft, pc, cur, final, call, handled, ack, ledger, open,
                 dropped, schedulerFaults>>

(* The wall clock is set back. *)
ClockBack ==
  /\ now > 0 /\ now' = now - 1
  /\ schedulerFaults < MaxSchedulerFaults /\ schedulerFaults' = schedulerFaults + 1
  /\ UNCHANGED <<saved, mem, draft, pc, cur, final, call, handled, ack, ledger, open, dropped>>

SchedulerStops ==
  /\ pc' = "down" /\ mem' = Absent /\ draft' = Absent
  /\ call' = [c \in {"observe", "tick"} |-> Idle]
  /\ UNCHANGED <<saved, cur, final, handled, ledger, open, dropped, now>>

SchedulerCrash ==
  /\ pc # "down" /\ schedulerFaults < MaxSchedulerFaults
  /\ schedulerFaults' = schedulerFaults + 1 /\ SchedulerStops /\ UNCHANGED ack

(* The operator's reset of the consumer, which needs the ledger's lease. *)
ResetCursor ==
  /\ pc = "down" /\ saved.made /\ ack > 0 /\ schedulerFaults < MaxSchedulerFaults
  /\ schedulerFaults' = schedulerFaults + 1 /\ ack' = 0
  /\ UNCHANGED <<saved, mem, draft, pc, cur, final, call, handled, ledger, open, dropped, now>>

SchedulerNext ==
  \/ \E part \in Partitions, last \in BOOLEAN : CallObserve(part, last)
  \/ CallObserve("excluded", FALSE)
  \/ CallTick \/ OpenCheckpoint \/ \E c \in {"observe", "tick"} : Begin(c)
  \/ Deliver \/ Dequeue \/ Flushed
  \/ ObserveSeen \/ ObserveNew \/ ObserveRefused \/ Tick \/ Persist \/ Return
  \/ Acknowledge \/ \E w \in open : JobEnds(w)
  \/ TimePasses \/ ClockBack \/ SchedulerCrash \/ ResetCursor

Step ==
  \/ OpenCheckpoint \/ Deliver \/ Dequeue \/ Flushed \/ ObserveSeen \/ ObserveNew
  \/ ObserveRefused \/ Tick \/ Persist \/ Return

(* The service is kept alive, its event loop runs, its timer fires, jobs end, and
   time passes. *)
SchedulerFairness ==
  /\ WF_schedulerVars(Step) /\ WF_schedulerVars(CallTick)
  /\ SF_schedulerVars(Begin("tick")) /\ SF_schedulerVars(Begin("observe"))
  /\ WF_schedulerVars(\E w \in open : JobEnds(w)) /\ WF_schedulerVars(TimePasses)

SchedulerSpec == SchedulerInit /\ [][SchedulerNext]_schedulerVars
SchedulerFairSpec == SchedulerSpec /\ SchedulerFairness

-----------------------------------------------------------------------------
(* Every window there is: open, waiting in the outbox, or a job. *)
AllWindows ==
  {SealWindow(w, "elapsed", 0) : w \in saved.windows} \cup ToSet(saved.outbox) \cup ledger

SchedulerTypeOK ==
  /\ \A s \in {saved, mem, draft} :
       /\ s.through \in 0..MaxSeq /\ s.excluded \in Nat /\ s.made \in BOOLEAN
       /\ \A w \in s.windows : w \in OpenWindow
       /\ s.outbox \in Seq(Sealed)
  /\ pc \in {"down", "idle", "flush", "dequeue", "body", "persist", "refused", "return"}
  /\ ledger \subseteq Sealed /\ open \subseteq ledger /\ Cardinality(open) <= MaxJobs
  /\ handled \in 0..MaxSeq /\ ack \in 0..MaxSeq

(* A source is in one window only, whatever is delivered again, whenever the
   process dies between sealing, delivering and checkpointing, and although a
   window sealed a second time would have another identity. *)
SourceOnce ==
  \A v, w \in AllWindows : v # w => ToSet(v.sources) \cap ToSet(w.sources) = {}

(* An acknowledged event is in a window or was counted as excluded, once. *)
NoneSkipped ==
  /\ \A n \in 1..ack : n \in dropped \/ \E w \in AllWindows : n \in ToSet(w.sources)
  /\ saved.excluded = Cardinality(dropped)

(* The checkpoint always passes validateState, which refuses to start otherwise. *)
CheckpointValid ==
  /\ \A v, w \in saved.windows : v # w => v.part # w.part
  /\ \A w \in saved.windows \cup ToSet(saved.outbox) :
       /\ w.sources # <<>>
       /\ \A i \in 2..Len(w.sources) : w.sources[i - 1] < w.sources[i]
       /\ Last(w.sources) <= saved.through
  /\ \A w \in ToSet(saved.outbox) : w.openedAt <= w.sealedAt
  /\ Fits(saved)

(* An acknowledged event is in exactly one window or was counted as excluded, whatever is
   delivered again and whenever the process dies, and the scheduler can always open the
   checkpoint it wrote (scheduler.ts). *)
EachSourceOnce == SourceOnce /\ NoneSkipped /\ CheckpointValid

(* Every source that was observed becomes part of an episode job. *)
EventuallyDelivered ==
  \A n \in 1..MaxSeq :
    (\E w \in AllWindows : n \in ToSet(w.sources)) ~> (\E w \in ledger : n \in ToSet(w.sources))
=============================================================================
