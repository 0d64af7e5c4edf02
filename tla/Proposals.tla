------------------------------ MODULE Proposals ------------------------------
(***************************************************************************)
(* The proposal jobs of the memory worker (worker.ts): a job has a claim    *)
(* with its evidence and either proposes a candidate, or supports the       *)
(* candidate or memory that already makes the claim, and promotes what a    *)
(* verified witness accepted. People decide candidates, revise and forget   *)
(* memories between any two of its requests, answers are lost, and the      *)
(* worker dies anywhere. Its jobs persist the stamp of a command before     *)
(* sending it; the API answers a repeated command from its receipt.         *)
(***************************************************************************)
EXTENDS Naturals, FiniteSets

CONSTANTS
  Jobs,
  Claim,       \* Claim[j]: what candidateKey says of the job's candidate
  Content,     \* Content[j]: its exact content
  Evidence,    \* Evidence[j]: the evidence of the job
  OwnId,       \* OwnId[j]: the candidate id the extractor derived
  Sources,     \* Sources[j]: the <<memory, revision>> pairs a synthesis cites
  Witness,     \* Witness[j]: "none", "human" decision, or "checkpoint" of a trajectory
  Legacy,      \* claims with an accepted candidate whose memory lacks its evidence
  NoEvidence,  \* the evidence that is missing there
  MaxTime, MaxHuman, MaxFaults

VARIABLES
  candidates,  \* candidate id -> claim, content, ev, upd, decision, from
  memories,    \* memory id -> claim, ev, rev, upd, active
  receipts,    \* <<job, action>> -> the request that was committed under it
  now,
  job,         \* job -> state, cid, stamps
  attested,    \* jobs whose witness the capture daemon confirms
  w,           \* the job under way
  humans, faults

serverVars == <<candidates, memories, receipts>>
vars == <<serverVars, now, job, attested, w, humans, faults>>

Separate(j) == <<"separate", j>>
MemoryOf(j) == <<"memory", j>>
LegacyOf(c) == <<"legacy", c>>
Undecided == <<"none">>
Rejected == <<"rejected">>
Accepted(c) == c.decision \notin {Undecided, Rejected}

Idle == [pc |-> "idle"]

(* uniqueEvidence and the 100 items of a request: sets here. *)
LaterOf(a, b) == IF a > b THEN a ELSE b
Put(f, k, v) == [x \in DOMAIN f \cup {k} |-> IF x = k THEN v ELSE f[x]]

-----------------------------------------------------------------------------
Init ==
  /\ candidates = [c \in {LegacyOf(l) : l \in Legacy} |->
                     [claim |-> c[2], content |-> c[2], ev |-> {NoEvidence}, upd |-> 0,
                      decision |-> c, from |-> "nobody"]]
  /\ memories = [m \in {LegacyOf(l) : l \in Legacy} |->
                   [claim |-> m[2], ev |-> {}, rev |-> 1, upd |-> 0, active |-> TRUE]]
  /\ receipts = <<>> /\ now = 1
  /\ job = [j \in Jobs |-> [state |-> "active", cid |-> OwnId[j], stamps |-> <<>>]]
  /\ attested = {} /\ w = Idle /\ humans = 0 /\ faults = 0

(* What memoryById answers: nothing for a forgotten memory, and a superseded one
   is treated alike. *)
Current(m) == m \in DOMAIN memories /\ memories[m].active

(* sourceTime: cited memories must be current at the cited revision. *)
SourcesCurrent(j) == \A r \in Sources[j] : Current(r[1]) /\ memories[r[1]].rev = r[2]
SourceTime(j) ==
  LET times == {memories[r[1]].upd + 1 : r \in Sources[j]} \cup {1}
  IN  CHOOSE t \in times : \A u \in times : u <= t

(* drain takes an active job whose next attempt is due. *)
TakeProposal(j) ==
  /\ w = Idle /\ job[j].state = "active"
  /\ IF SourcesCurrent(j)
     THEN w' = [pc |-> "views", j |-> j, minimum |-> SourceTime(j)] /\ UNCHANGED job
     ELSE job' = [job EXCEPT ![j].state = "excluded"] /\ UNCHANGED w
  /\ UNCHANGED <<serverVars, now, attested, humans, faults>>

(* candidateViews, and the candidates of this claim that were not rejected. *)
ReadViews ==
  /\ w.pc = "views"
  /\ w' = [pc |-> "match", j |-> w.j, minimum |-> w.minimum, ids |-> DOMAIN candidates,
           views |-> candidates,
           unseen |-> {c \in DOMAIN candidates : /\ candidates[c].claim = Claim[w.j]
                                                 /\ candidates[c].decision # Rejected}]
  /\ UNCHANGED <<serverVars, now, attested, job, humans, faults>>

(* A candidate that awaits its decision is supported; an accepted one only if its
   memory is current and still makes the claim. *)
SameClaim(m, j) == Current(m) /\ memories[m].claim = Claim[j]
Match(c) ==
  /\ w.pc = "match" /\ c \in w.unseen
  /\ LET view == w.views[c]
         found == [pc |-> "known", j |-> w.j, minimum |-> w.minimum, id |-> c, existing |-> view]
     IN  w' = IF ~Accepted(view) \/ SameClaim(view.decision, w.j)
              THEN found ELSE [w EXCEPT !.unseen = @ \ {c}]
  /\ UNCHANGED <<serverVars, now, attested, job, humans, faults>>

(* Nothing makes the claim: propose it, under another id if the derived one is taken. *)
NoMatch ==
  /\ w.pc = "match" /\ w.unseen = {}
  /\ job' = [job EXCEPT ![w.j].cid = IF @ \in w.ids THEN Separate(w.j) ELSE @]
  /\ w' = [pc |-> "propose", j |-> w.j, minimum |-> w.minimum]
  /\ UNCHANGED <<serverVars, now, attested, humans, faults>>

-----------------------------------------------------------------------------
(* stamp: the first dispatch of an action is persisted before it is sent, and used
   again by every retry. *)
Stamped(j, action) == action \in DOMAIN job[j].stamps
StampOf(j, action) == job[j].stamps[action]
Stamp(j, action, minimum) ==
  /\ ~Stamped(j, action)
  /\ job' = [job EXCEPT ![j].stamps = Put(@, action, LaterOf(now, minimum))]
  /\ UNCHANGED <<serverVars, now, attested, w, humans, faults>>

(* The command boundary of the API: a command that was committed is answered from
   its receipt, one with its identity and other content is a conflict. *)
Committed(j, action) == <<j, action>> \in DOMAIN receipts
Repeats(j, action, request) == Committed(j, action) /\ receipts[<<j, action>>] = request
WithReceipt(j, action, request) == receipts' = Put(receipts, <<j, action>>, request)

(* failJob for what may be retried: the job stays active, nothing else is kept. *)
Retry == w' = Idle /\ UNCHANGED job
(* failJob for a request that the API calls invalid (400). *)
Exclude(j) == w' = Idle /\ job' = [job EXCEPT ![j].state = "excluded"]

(* An answer may be lost although the command was committed. *)
Heard(next) ==
  \/ w' = next /\ UNCHANGED faults
  \/ faults < MaxFaults /\ faults' = faults + 1 /\ w' = Idle

(* proposeMemoryCandidate. *)
Proposal == <<"proposal">>
StampProposal == w.pc = "propose" /\ Stamp(w.j, Proposal, w.minimum)
SendProposal ==
  /\ w.pc = "propose" /\ Stamped(w.j, Proposal)
  /\ LET j == w.j
         c == job[j].cid
         t == StampOf(j, Proposal)
         request == <<c, t>>
         next == [pc |-> "reread", j |-> j, minimum |-> w.minimum]
     IN  \/ /\ Repeats(j, Proposal, request)
            /\ Heard(next) /\ UNCHANGED <<serverVars, job>>
         \/ /\ ~Committed(j, Proposal) /\ c \notin DOMAIN candidates
            /\ candidates' = Put(candidates, c,
                 [claim |-> Claim[j], content |-> Content[j], ev |-> Evidence[j], upd |-> t,
                  decision |-> Undecided, from |-> j])
            /\ WithReceipt(j, Proposal, request) /\ Heard(next) /\ UNCHANGED <<memories, job>>
         \/ /\ ~Repeats(j, Proposal, request)
            /\ Committed(j, Proposal) \/ c \in DOMAIN candidates
            /\ Retry /\ UNCHANGED <<serverVars, faults>>
  /\ UNCHANGED <<now, attested, humans>>

(* The proposed candidate is read back, whatever was decided about it meanwhile. *)
Reread ==
  /\ w.pc = "reread"
  /\ LET c == job[w.j].cid
     IN  w' = IF c \in DOMAIN candidates
              THEN [pc |-> "known", j |-> w.j, minimum |-> w.minimum, id |-> c,
                    existing |-> candidates[c]]
              ELSE Idle
  /\ UNCHANGED <<serverVars, now, attested, job, humans, faults>>

-----------------------------------------------------------------------------
(* The evidence that is already there: of the candidate, or of the memory as it is
   now, which may have been forgotten or corrected since the match. *)
Supporting(memory, known) ==
  [pc |-> "support", j |-> w.j, minimum |-> w.minimum, id |-> w.id, existing |-> w.existing,
   memory |-> memory, todo |-> Evidence[w.j] \ known]
ReadKnown ==
  /\ w.pc = "known"
  /\ LET m == w.existing.decision
     IN  IF ~Accepted(w.existing) THEN w' = Supporting({}, w.existing.ev) /\ UNCHANGED job
         ELSE IF ~Current(m) THEN Exclude(w.j)
         ELSE IF memories[m].claim # Claim[w.j] THEN Retry
         ELSE w' = Supporting({[id |-> m, rev |-> memories[m].rev, upd |-> memories[m].upd]},
                              memories[m].ev) /\ UNCHANGED job
  /\ UNCHANGED <<serverVars, now, attested, humans, faults>>

Support(s) == <<"support", s>>
StampSupport ==
  /\ w.pc = "support" /\ w.todo # {}
  /\ LET upd == IF w.memory = {} THEN w.existing.upd
                ELSE (CHOOSE m \in w.memory : TRUE).upd
     IN  Stamp(w.j, Support(w.todo), LaterOf(w.minimum, upd + 1))

Supported(existing) == [w EXCEPT !.todo = {}, !.existing = existing]

(* contributeMemoryCandidateEvidence: refused once the candidate is decided (409), and
   when the stamp is older than what was contributed since (400). *)
SupportCandidate ==
  /\ w.pc = "support" /\ w.memory = {} /\ w.todo # {} /\ Stamped(w.j, Support(w.todo))
  /\ LET t == StampOf(w.j, Support(w.todo))
         request == <<"candidate", w.id, t>>
         c == candidates[w.id]
         grown == [c EXCEPT !.ev = @ \cup w.todo, !.upd = t]
         answer(d) == Supported([w.existing EXCEPT !.ev = d.ev, !.upd = d.upd])
     IN  \/ /\ Repeats(w.j, Support(w.todo), request)
            /\ Heard(answer(c)) /\ UNCHANGED <<serverVars, job>>
         \/ /\ ~Committed(w.j, Support(w.todo)) /\ c.decision = Undecided /\ t >= c.upd
            /\ candidates' = [candidates EXCEPT ![w.id] = grown]
            /\ WithReceipt(w.j, Support(w.todo), request)
            /\ Heard(answer(grown))
            /\ UNCHANGED <<memories, job>>
         \/ /\ ~Repeats(w.j, Support(w.todo), request)
            /\ Committed(w.j, Support(w.todo)) \/ c.decision # Undecided
            /\ Retry /\ UNCHANGED <<serverVars, faults>>
         \/ /\ ~Committed(w.j, Support(w.todo)) /\ c.decision = Undecided /\ t < c.upd
            /\ Exclude(w.j) /\ UNCHANGED <<serverVars, faults>>
  /\ UNCHANGED <<now, attested, humans>>

(* Mutant: a contribution applies to whatever the memory is by now. *)
AtAnyRevision(m) == Current(m.id)

(* contributeMemoryEvidence names the revision that was read: a memory that was revised,
   forgotten or supported since refuses it, and the job starts again. *)
AtRevision(m) == Current(m.id) /\ memories[m.id].rev = m.rev
Grown(m, s, t) == [memories EXCEPT ![m].ev = @ \cup s, ![m].rev = @ + 1, ![m].upd = t]
SupportMemory ==
  /\ w.pc = "support" /\ w.memory # {} /\ w.todo # {} /\ Stamped(w.j, Support(w.todo))
  /\ \E m \in w.memory :
       LET t == StampOf(w.j, Support(w.todo))
           request == <<"memory", m.id, m.rev, t>>
           allowed == AtRevision(m) /\ t >= memories[m.id].upd
       IN  \/ /\ Repeats(w.j, Support(w.todo), request)
              /\ Heard(Supported(w.existing)) /\ UNCHANGED <<serverVars, job>>
           \/ /\ ~Committed(w.j, Support(w.todo)) /\ allowed
              /\ memories' = Grown(m.id, w.todo, t)
              /\ WithReceipt(w.j, Support(w.todo), request)
              /\ Heard(Supported(w.existing)) /\ UNCHANGED <<candidates, job>>
           \/ /\ ~Repeats(w.j, Support(w.todo), request)
              /\ Committed(w.j, Support(w.todo)) \/ ~allowed
              /\ Retry /\ UNCHANGED <<serverVars, faults>>
  /\ UNCHANGED <<now, attested, humans>>

-----------------------------------------------------------------------------
(* Only the job's own candidate with the exact content of a witness is accepted
   without a person. *)
HasWitness ==
  /\ w.existing.decision = Undecided /\ Witness[w.j] # "none"
  /\ w.existing.content = Content[w.j] /\ w.id = job[w.j].cid

(* eligibleHumanWitness: the daemon confirms that its event accepted the task's current
   revision; if it does not now, the candidate is left to people. A checkpoint needs a
   confirmed trajectory, whose acceptance and steps match, and waits for it. *)
Confirmed == w.j \in attested
Promotable == HasWitness /\ Confirmed
AwaitWitness ==
  /\ w.pc = "support" /\ w.todo = {} /\ HasWitness /\ ~Confirmed /\ Witness[w.j] = "checkpoint"
  /\ Retry
  /\ UNCHANGED <<serverVars, now, attested, humans, faults>>
LeaveToPeople == ~HasWitness \/ (~Confirmed /\ Witness[w.j] = "human")
Accept == <<"accept">>
StampAccept ==
  /\ w.pc = "support" /\ w.todo = {} /\ Promotable
  /\ Stamp(w.j, Accept, w.existing.upd + 1)
SendAccept ==
  /\ w.pc = "support" /\ w.todo = {} /\ Promotable /\ Stamped(w.j, Accept)
  /\ LET t == StampOf(w.j, Accept)
         request == <<w.id, t>>
         c == candidates[w.id]
         m == MemoryOf(w.j)
         next == [pc |-> "done", j |-> w.j]
     IN  \/ /\ Repeats(w.j, Accept, request)
            /\ Heard(next) /\ UNCHANGED <<serverVars, job>>
         \/ /\ ~Committed(w.j, Accept) /\ c.decision = Undecided
            /\ candidates' = [candidates EXCEPT ![w.id].decision = m, ![w.id].upd = t]
            /\ memories' = Put(memories, m, [claim |-> c.claim, ev |-> c.ev, rev |-> 1,
                                             upd |-> t + 1, active |-> TRUE])
            /\ WithReceipt(w.j, Accept, request) /\ Heard(next) /\ UNCHANGED job
         \/ /\ ~Repeats(w.j, Accept, request)
            /\ Committed(w.j, Accept) \/ c.decision # Undecided
            /\ Retry /\ UNCHANGED <<serverVars, faults>>
  /\ UNCHANGED <<now, attested, humans>>

CompleteProposal ==
  /\ \/ w.pc = "done"
     \/ w.pc = "support" /\ w.todo = {} /\ LeaveToPeople
  /\ job' = [job EXCEPT ![w.j].state = "completed"]
  /\ w' = Idle
  /\ UNCHANGED <<serverVars, now, attested, humans, faults>>

-----------------------------------------------------------------------------
(* repairAcceptedEvidence, run by an operator while no job runs: evidence of accepted
   candidates that their memories lack is contributed at the revision read. *)
RepairRead(c) ==
  /\ w = Idle /\ c \in DOMAIN candidates /\ Accepted(candidates[c])
  /\ Current(candidates[c].decision)
  /\ LET m == candidates[c].decision
         missing == candidates[c].ev \ memories[m].ev
     IN  /\ missing # {}
         /\ w' = [pc |-> "repair", s |-> missing,
                  memory |-> [id |-> m, rev |-> memories[m].rev, upd |-> memories[m].upd]]
  /\ UNCHANGED <<serverVars, now, attested, job, humans, faults>>
RepairSend ==
  /\ w.pc = "repair"
  /\ memories' = IF AtRevision(w.memory)
                 THEN Grown(w.memory.id, w.s, LaterOf(now, w.memory.upd + 1)) ELSE memories
  /\ w' = Idle
  /\ UNCHANGED <<candidates, receipts, now, attested, job, humans, faults>>

-----------------------------------------------------------------------------
(* People, under stamps of their own. *)
Person == humans < MaxHuman /\ humans' = humans + 1 /\ UNCHANGED <<receipts, now, attested, job, w, faults>>
NotBefore(c) == candidates[c].from \in Jobs => now >= StampOf(candidates[c].from, Proposal)
DecideByHand(c) ==
  /\ Person /\ candidates[c].decision = Undecided /\ NotBefore(c)
  /\ \/ /\ candidates' = [candidates EXCEPT ![c].decision = Rejected, ![c].upd = now]
        /\ UNCHANGED memories
     \/ /\ candidates' = [candidates EXCEPT ![c].decision = <<"by hand", c>>, ![c].upd = now]
        /\ memories' = Put(memories, <<"by hand", c>>,
                           [claim |-> candidates[c].claim, ev |-> candidates[c].ev, rev |-> 1,
                            upd |-> now, active |-> TRUE])
ChangeByHand(m) ==
  /\ Person /\ memories[m].active /\ now >= memories[m].upd
  /\ \/ memories' = [memories EXCEPT ![m].active = FALSE]
     \/ memories' = [memories EXCEPT ![m].claim = "corrected", ![m].rev = @ + 1, ![m].upd = now]
  /\ UNCHANGED candidates
SupportByHand(c) ==
  /\ Person /\ candidates[c].decision = Undecided /\ now >= candidates[c].upd
  /\ candidates' = [candidates EXCEPT ![c].ev = @ \cup {NoEvidence}, ![c].upd = now]
  /\ UNCHANGED memories

(* The capture daemon comes to confirm a witness. *)
Attest(j) ==
  /\ Witness[j] # "none" /\ attested' = attested \cup {j}
  /\ UNCHANGED <<serverVars, now, job, w, humans, faults>>

TimePasses ==
  /\ now < MaxTime /\ now' = now + 1
  /\ UNCHANGED <<serverVars, job, attested, w, humans, faults>>

(* The process dies, or a request fails without effect; the ledger keeps the job. *)
Crash ==
  /\ w # Idle /\ faults < MaxFaults /\ faults' = faults + 1
  /\ w' = Idle
  /\ UNCHANGED <<serverVars, now, attested, job, humans>>

Next ==
  \/ \E j \in Jobs : TakeProposal(j) \/ Attest(j)
  \/ ReadViews \/ NoMatch \/ Reread \/ ReadKnown
  \/ \E c \in DOMAIN candidates : Match(c) \/ RepairRead(c) \/ DecideByHand(c) \/ SupportByHand(c)
  \/ StampProposal \/ SendProposal
  \/ StampSupport \/ SupportCandidate \/ SupportMemory
  \/ AwaitWitness \/ StampAccept \/ SendAccept \/ CompleteProposal
  \/ RepairSend
  \/ \E m \in DOMAIN memories : ChangeByHand(m)
  \/ TimePasses \/ Crash

Spec == Init /\ [][Next]_vars

-----------------------------------------------------------------------------
(* The evidence of a completed job is with a candidate of its claim, or with the
   memory that candidate became (applyProposal). *)
CompletedSupported ==
  \A j \in Jobs : job[j].state = "completed" =>
    \E c \in DOMAIN candidates :
      /\ candidates[c].claim = Claim[j]
      /\ Evidence[j] \subseteq
           candidates[c].ev \cup (IF Accepted(candidates[c])
                                  THEN memories[candidates[c].decision].ev ELSE {})

(* However often it is retried, under whatever id, a job stores one candidate. *)
ProposedOnce ==
  \A c, d \in DOMAIN candidates :
    candidates[c].from \in Jobs /\ candidates[c].from = candidates[d].from => c = d

(* What the worker accepted has the witnessed content and all the job's evidence. *)
WitnessedOnly ==
  \A c \in DOMAIN candidates, j \in Jobs : candidates[c].decision = MemoryOf(j) =>
    j \in attested /\ candidates[c].content = Content[j] /\ Evidence[j] \subseteq candidates[c].ev

ProposalsHold == CompletedSupported /\ ProposedOnce /\ WitnessedOnly

(* A job adds its evidence only to a memory that makes its claim at that very moment,
   however long ago it looked. *)
SupportsSameClaim ==
  \A m \in DOMAIN memories :
    memories'[m].ev # memories[m].ev /\ w.pc = "support" => memories[m].claim = Claim[w.j]
=============================================================================
