--------------------------- MODULE TelemetryOutbox --------------------------
(***************************************************************************)
(* The durable outboxes of recall feedback: SQLite rows that MCP processes *)
(* share (outbox.ts), and IndexedDB rows that browser tabs share           *)
(* (telemetry-outbox.ts).  A process claims a row of the account it is     *)
(* signed in as, sends it, and settles the row by the answer, while        *)
(* leases run out, accounts change, requests outlive their senders and     *)
(* processes close or die.                                                 *)
(* Left out: the status texts, encryption, and the byte limits.            *)
(***************************************************************************)
EXTENDS Naturals, FiniteSets

CONSTANTS
  Browser,     \* which of the two implementations runs
  Procs,       \* MCP processes or tabs
  Subjects,    \* accounts
  Batches,     \* batch ids
  SubjectOf,   \* the account a batch belongs to
  Nobody,        \* no lease, no batch, no account
  MaxBatches,  \* rows the outbox holds
  MaxAttempts, \* counted failures before a batch is given up
  MaxSwitches, \* bound: account changes
  MaxStops     \* bound: closed or crashed processes

OutboxConstants == /\ Browser \in BOOLEAN /\ MaxBatches \in Nat /\ MaxAttempts \in Nat \ {0}
                   /\ SubjectOf \in [Batches -> Subjects]
                   /\ Nobody \notin Procs \cup Subjects \cup Batches

VARIABLES
  box,       \* stored rows: batch -> [state, attempts, lease, live]
  proc,      \* where each process stands in drain
  account,   \* the account whose token a process uses
  wire,      \* requests on their way to the API: sender, batch and token
  recorded,  \* what the API has recorded: batch and account
  switches, stops,
  acked,     \* batches whose enqueue was acknowledged
  discarded, \* batches an operator discarded
  causes     \* per batch, the failures since its last repair
outboxVars == <<box, proc, account, wire, recorded, switches, stops, acked, discarded, causes>>
store == <<box, acked, discarded, causes>>

Terminal == {"denied", "exhausted"}
Waiting == {"pending", "retry"}
Answers == {"ok", "changed", "no-token", "aborted", "denied", "permanent", "transient"}
Idle == [pc |-> "idle", subject |-> Nobody, batch |-> Nobody, answer |-> Nobody]
Remove(b) == [x \in DOMAIN box \ {b} |-> box[x]]
Free(row) == [row EXCEPT !.lease = Nobody, !.live = FALSE]

OutboxInit == /\ box = <<>> /\ proc = [p \in Procs |-> Idle] /\ account \in [Procs -> Subjects]
              /\ wire = {} /\ recorded = {} /\ switches = 0 /\ stops = 0
              /\ acked = {} /\ discarded = {} /\ causes = [b \in Batches |-> 0]

-----------------------------------------------------------------------------
(* Storing a batch                                                         *)
NewRow == [state |-> "pending", attempts |-> 0, lease |-> Nobody, live |-> FALSE]
Store(b) == /\ box' = [x \in DOMAIN box \cup {b} |-> IF x \in DOMAIN box THEN box[x] ELSE NewRow]
            /\ acked' = acked \cup {b}
            /\ UNCHANGED <<proc, account, wire, recorded, switches, stops, discarded, causes>>
\* outbox.ts: one transaction finds the row, counts the rows and inserts.
persist(b) == /\ b \in DOMAIN box \/ Cardinality(DOMAIN box) < MaxBatches
              /\ Store(b)
\* telemetry-outbox.ts: the same in a read-write transaction.
enqueue(b) == /\ b \in DOMAIN box \/ Cardinality(DOMAIN box) < MaxBatches
              /\ Store(b)

-----------------------------------------------------------------------------
(* Draining: who is signed in, which row, send, settle                     *)
Identify(p) == /\ proc[p].pc = "idle" /\ account[p] # Nobody
               /\ proc' = [proc EXCEPT ![p] = [@ EXCEPT !.pc = "identified", !.subject = account[p]]]
               /\ UNCHANGED <<store, account, wire, recorded, switches, stops>>
\* Rows of the account found, waiting and due, under no live lease.
Claimable(p) == {b \in DOMAIN box : /\ SubjectOf[b] = proc[p].subject
                                    /\ box[b].state \in Waiting /\ ~box[b].live}
Claim(p, b) == /\ box' = [box EXCEPT ![b] = [@ EXCEPT !.lease = p, !.live = TRUE]]
               /\ IF account[p] = Nobody
                    THEN /\ proc' = [proc EXCEPT ![p] = [@ EXCEPT !.pc = "answered", !.batch = b, !.answer = "no-token"]]
                         /\ UNCHANGED wire
                    ELSE /\ proc' = [proc EXCEPT ![p] = [@ EXCEPT !.pc = "sending", !.batch = b]]
                         /\ wire' = wire \cup {[from |-> p, batch |-> b, by |-> account[p]]}
               /\ UNCHANGED <<account, recorded, switches, stops, acked, discarded, causes>>
Rest(p) == /\ proc' = [proc EXCEPT ![p] = Idle] /\ UNCHANGED <<store, account, wire, recorded, switches, stops>>
\* outbox.ts: one UPDATE selects and leases a row; its send starts at once.
drain(p) == /\ proc[p].pc = "identified"
            /\ \/ \E b \in Claimable(p) : Claim(p, b)
               \/ Claimable(p) = {} /\ Rest(p)
\* telemetry-outbox.ts: a transaction selects and leases a row.
drainRow(p) == /\ proc[p].pc = "identified"
               /\ \/ \E b \in Claimable(p) : Claim(p, b)
                  \/ Claimable(p) = {} /\ Rest(p)

Reply(p, answer) == proc' = [proc EXCEPT ![p] = [@ EXCEPT !.pc = "answered", !.answer = answer]]
\* Mutant: the API trusts the token and not the subject of the batch.
GuardNot(m) == TRUE
\* server.ts and recordMemoryFeedbackBatch: the subject of the batch must be
\* the subject of the token.
SubjectUnchanged(m) == SubjectOf[m.batch] = m.by
\* The API handles a request; its sender may have stopped waiting.
Serve(m) ==
  \E answer \in IF <<m.batch, m.by>> \in recorded THEN {"ok", "denied", "transient"}
                ELSE IF SubjectUnchanged(m) THEN {"ok", "denied", "permanent", "transient"} ELSE {"changed", "denied", "transient"} :
    /\ wire' = wire \ {m}
    /\ recorded' = IF answer = "ok" THEN recorded \cup {<<m.batch, m.by>>} ELSE recorded
    /\ \/ proc[m.from].pc = "sending" /\ proc[m.from].batch = m.batch /\ Reply(m.from, answer)
       \/ UNCHANGED proc
    /\ UNCHANGED <<store, account, switches, stops>>
\* The deadline of a request.
NoAnswer(p) == /\ proc[p].pc = "sending" /\ Reply(p, "transient")
               /\ UNCHANGED <<store, account, wire, recorded, switches, stops>>

\* outbox.ts: the row after a failure.
Settled(row, answer) ==
  LET attempts == row.attempts + (IF answer \in {"aborted", "no-token", "changed"} THEN 0 ELSE 1)
  IN [state |-> IF answer = "aborted" THEN row.state
                ELSE IF answer = "denied" THEN "denied"
                ELSE IF answer = "permanent" \/ attempts >= MaxAttempts THEN "exhausted" ELSE "retry",
      attempts |-> attempts, lease |-> Nobody, live |-> FALSE]
\* telemetry-outbox.ts: a row whose account changed is retained as it is.
Retained(row, answer) ==
  LET attempts == row.attempts + 1
  IN IF answer \in {"changed", "no-token", "aborted"} THEN Free(row)
     ELSE Free([row EXCEPT !.attempts = attempts,
                           !.state = IF answer = "denied" THEN "denied"
                                     ELSE IF answer = "permanent" \/ attempts >= MaxAttempts THEN "exhausted" ELSE "retry"])
\* Both settle a row only under the lease that they claimed it with.
Holds(p, b) == b \in DOMAIN box /\ box[b].lease = p
Delivered(answer) == answer = "ok"

\* History: the failures that count against a batch; "permanent" is one for good.
Counted(n, answer) == IF answer = "permanent" THEN MaxAttempts
                      ELSE IF answer \in {"transient", "denied"} THEN n + 1 ELSE n

\* What settling does, once the row after a failure is known.
SettleWith(p, row) ==
  LET b == proc[p].batch
  IN /\ proc' = [proc EXCEPT ![p] = Idle]
     /\ box' = IF ~Holds(p, b) THEN box
               ELSE IF Delivered(proc[p].answer) THEN Remove(b) ELSE [box EXCEPT ![b] = row]
     /\ causes' = IF ~Holds(p, b) THEN causes
                  ELSE [causes EXCEPT ![b] = IF Delivered(proc[p].answer) THEN 0 ELSE Counted(@, proc[p].answer)]
     /\ UNCHANGED <<account, wire, recorded, switches, stops, acked, discarded>>
RowOf(p) == IF proc[p].batch \in DOMAIN box THEN box[proc[p].batch] ELSE NewRow
settle(p) == proc[p].pc = "answered" /\ SettleWith(p, Settled(RowOf(p), proc[p].answer))
settleRow(p) == proc[p].pc = "answered" /\ SettleWith(p, Retained(RowOf(p), proc[p].answer))

-----------------------------------------------------------------------------
(* Repair by the operator, closing, and the environment                    *)
OwnTerminal(p) == {b \in DOMAIN box : SubjectOf[b] = account[p] /\ box[b].state \in Terminal}
Retry(own) == /\ box' = [b \in DOMAIN box |-> IF b \in own THEN NewRow ELSE box[b]]
              /\ causes' = [b \in Batches |-> IF b \in own THEN 0 ELSE causes[b]]
              /\ UNCHANGED <<proc, account, wire, recorded, switches, stops, acked, discarded>>
Discard(own) == /\ box' = [b \in DOMAIN box \ own |-> box[b]] /\ discarded' = discarded \cup own
                /\ causes' = [b \in Batches |-> IF b \in own THEN 0 ELSE causes[b]]
                /\ UNCHANGED <<proc, account, wire, recorded, switches, stops, acked>>
retryFailed(p) == OwnTerminal(p) # {} /\ Retry(OwnTerminal(p))
discardFailed(p) == OwnTerminal(p) # {} /\ Discard(OwnTerminal(p))
\* telemetry-outbox.ts leaves rows under a live lease alone.
repair(p) == \E own \in {{b \in OwnTerminal(p) : ~box[b].live}} : own # {} /\ (Retry(own) \/ Discard(own))

\* close: requests in flight are aborted and their rows settled.
close(p) == /\ stops < MaxStops /\ stops' = stops + 1
            /\ \/ proc[p].pc = "sending" /\ Reply(p, "aborted")
               \/ proc[p].pc = "identified" /\ proc' = [proc EXCEPT ![p] = Idle]
            /\ UNCHANGED <<store, account, wire, recorded, switches>>
\* A process or a tab dies: its lease stays, its request may still arrive.
Die(p) == /\ stops < MaxStops /\ stops' = stops + 1 /\ proc[p].pc # "idle"
            /\ proc' = [proc EXCEPT ![p] = Idle] /\ UNCHANGED <<store, account, wire, recorded, switches>>
\* lease_until passes.
Expire(b) == /\ b \in DOMAIN box /\ box[b].live /\ box' = [box EXCEPT ![b].live = FALSE]
             /\ UNCHANGED <<proc, account, wire, recorded, switches, stops, acked, discarded, causes>>
SwitchAccount(p, s) == /\ switches < MaxSwitches /\ switches' = switches + 1 /\ account[p] # s
                       /\ account' = [account EXCEPT ![p] = s]
                       /\ UNCHANGED <<store, proc, wire, recorded, stops>>

Node(p) == ~Browser /\ (drain(p) \/ settle(p) \/ retryFailed(p) \/ discardFailed(p))
Tab(p) == Browser /\ (drainRow(p) \/ settleRow(p) \/ repair(p))
OutboxNext == \/ \E b \in Batches : (~Browser /\ persist(b)) \/ (Browser /\ enqueue(b)) \/ Expire(b)
              \/ \E p \in Procs : Identify(p) \/ Node(p) \/ Tab(p) \/ NoAnswer(p) \/ close(p) \/ Die(p)
              \/ \E m \in wire : Serve(m)
              \/ \E p \in Procs, s \in Subjects \cup {Nobody} : SwitchAccount(p, s)
OutboxSpec == OutboxInit /\ [][OutboxNext]_outboxVars
\* Timers call flush again and again, requests have deadlines, leases pass,
\* and rows that are due longest go first, so no row is passed over for ever.
OutboxFairSpec == /\ OutboxSpec
                  /\ \A p \in Procs : WF_outboxVars(~Browser /\ (drain(p) \/ settle(p))) /\ WF_outboxVars(Browser /\ (drainRow(p) \/ settleRow(p)))
                  /\ \A p \in Procs : WF_outboxVars(NoAnswer(p)) /\ WF_outboxVars(Identify(p))
                  /\ \A b \in Batches : WF_outboxVars(Expire(b))
                  /\ \A p \in Procs, b \in Batches : SF_outboxVars(proc[p].pc = "identified" /\ b \in Claimable(p) /\ Claim(p, b))

-----------------------------------------------------------------------------
(* Properties                                                              *)
OutboxTypeOK == /\ DOMAIN box \subseteq Batches
          /\ \A b \in DOMAIN box : box[b] \in [state : Waiting \cup Terminal, attempts : 0..MaxAttempts,
                                               lease : Procs \cup {Nobody}, live : BOOLEAN]
          /\ \A p \in Procs : proc[p] \in [pc : {"idle", "identified", "sending", "answered"}, subject : Subjects \cup {Nobody},
                                           batch : Batches \cup {Nobody}, answer : Answers \cup {Nobody}]

\* No acknowledged batch is lost: it is still stored, or recorded for its
\* account, or was discarded by an operator, whatever processes, leases and
\* answers do.
AckedKept == \A b \in acked : b \in DOMAIN box \/ <<b, SubjectOf[b]>> \in recorded \/ b \in discarded

\* Feedback is recorded for the account that was offered the memory, never
\* for the account signed in when the batch was sent.
OwnSubject == \A r \in recorded : SubjectOf[r[1]] = r[2]

\* A batch is given up only for counted failures: never because processes
\* were closed, the account changed or no token was at hand.
GivenUpForCause == \A b \in DOMAIN box : /\ box[b].attempts <= causes[b]
                                         /\ box[b].state = "exhausted" => causes[b] >= MaxAttempts

\* A batch that was denied or given up stays so until an operator repairs it:
\* a late answer of a process that lost its lease does not revive it.
TerminalStays ==
  [][\A b \in DOMAIN box : box[b].state \in Terminal =>
       \/ b \in DOMAIN box' /\ box'[b] = box[b]
       \/ \E p \in Procs : account[p] = SubjectOf[b] /\ causes'[b] = 0 /\ UNCHANGED proc]_outboxVars

\* All of it: what an outbox keeps to, at every moment and with every step.
OutboxKept == [](AckedKept /\ OwnSubject /\ GivenUpForCause) /\ TerminalStays

\* Every stored batch is delivered, denied or given up, unless nobody is
\* signed in as its account.
OutboxDrained == \A b \in Batches :
                   (b \in DOMAIN box) ~> (b \notin DOMAIN box \/ box[b].state \in Terminal
                                            \/ \A p \in Procs : account[p] # SubjectOf[b])
=============================================================================
