----------------------------- MODULE PrintQueue -----------------------------
(***************************************************************************)
(* The kitchen print queue: KOT jobs, the v2 lease protocol spoken by the  *)
(* outlet print agents (service-v2.ts), the virtual spool that drains      *)
(* VIRTUAL printers, the v1 pull/ack agents that share the same rows, and  *)
(* the operator's reprint.                                                 *)
(*                                                                         *)
(* Every SQL statement or transaction of the code is one action.  A claim  *)
(* call runs several of them (select lapsed leases, fold each into the     *)
(* history, select candidates, update each), so what it read is kept in    *)
(* snaps and cands and is stale when it is used.  Time is a countdown per  *)
(* lease: ttl = 0 with a token present is a lapsed lease.  One location is *)
(* modelled; rows of other locations are filtered out of every query.      *)
(***************************************************************************)
EXTENDS Integers, FiniteSets

CONSTANTS
    Agents,           \* v2 print agents (HTTP clients of the lease API)
    Spools,           \* concurrent runs of the virtual spool
    V1Agents,         \* legacy pull/ack agents
    NumJobs,          \* bound: print_job rows
    VirtualJobs,      \* jobs routed to a VIRTUAL-transport printer
    MaxPrintAttempts, \* MAX_PRINT_ATTEMPTS
    ClaimLimit,       \* jobs one claim call may take
    LeaseTimes,       \* lease durations, in ticks
    MaxTokens         \* bound: lease tokens handed out

Jobs == 1..NumJobs
Claimers == Agents \cup Spools
NoToken == 0
Tokens == 1..MaxTokens

ASSUME PrintQueueAssumptions ==
    /\ NumJobs \in Nat /\ MaxTokens \in Nat
    /\ MaxPrintAttempts \in Nat \ {0}
    /\ ClaimLimit \in Nat \ {0}
    /\ LeaseTimes \subseteq Nat \ {0}
    /\ Agents \cap Spools = {}

VARIABLES
    status,     \* print_job.status; "ABSENT" before the row is inserted
    retries,    \* print_job.retries
    token,      \* print_job.lease_token
    ttl,        \* print_job.lease_until, as ticks left
    reprintOf,  \* print_job.reprint_of_id, 0 when not a reprint
    recent,     \* created within REPRINT_DUPLICATE_LOOKBACK_MS
    attempts,   \* print_job_attempt rows of each job
    pc,         \* where a claimer's claim call is
    snaps,      \* lapsed rows its first select returned, not yet folded
    cands,      \* ids its second select returned, not yet updated
    held,       \* <<job, token>> pairs a claimer was given
    issued,     \* tokens handed out so far
    seenV1,     \* jobs a v1 agent pulled and has not acked
    answered    \* <<job, token, result>> of every v2 ack answered 200

rowVars == <<status, retries, token, ttl, reprintOf, recent>>
claimVars == <<pc, snaps, cands>>
vars == <<rowVars, attempts, claimVars, held, issued, seenV1, answered>>

Results == {"PRINTED", "FAILED"}
Attempt == [no : Nat \ {0}, token : Tokens, result : Results \cup {"LEASE_EXPIRED"}]
Snapshot == [job : Jobs, retries : Nat, token : Tokens]

TypeOK ==
    /\ status \in [Jobs -> {"ABSENT", "PENDING"} \cup Results]
    /\ retries \in [Jobs -> Nat]
    /\ token \in [Jobs -> Tokens \cup {NoToken}]
    /\ ttl \in [Jobs -> Nat]
    /\ reprintOf \in [Jobs -> Jobs \cup {0}]
    /\ recent \in [Jobs -> BOOLEAN]
    /\ attempts \in [Jobs -> SUBSET Attempt]
    /\ pc \in [Claimers -> {"idle", "fold", "claim"}]
    /\ snaps \in [Claimers -> SUBSET Snapshot]
    /\ cands \in [Claimers -> SUBSET Jobs]
    /\ held \in [Claimers -> SUBSET (Jobs \X Tokens)]
    /\ issued \in 0..MaxTokens
    /\ seenV1 \in [V1Agents -> SUBSET Jobs]
    /\ answered \subseteq Jobs \X Tokens \X Results

Init ==
    /\ status = [j \in Jobs |-> "ABSENT"]
    /\ retries = [j \in Jobs |-> 0]
    /\ token = [j \in Jobs |-> NoToken]
    /\ ttl = [j \in Jobs |-> 0]
    /\ reprintOf = [j \in Jobs |-> 0]
    /\ recent = [j \in Jobs |-> FALSE]
    /\ attempts = [j \in Jobs |-> {}]
    /\ pc = [c \in Claimers |-> "idle"]
    /\ snaps = [c \in Claimers |-> {}]
    /\ cands = [c \in Claimers |-> {}]
    /\ held = [c \in Claimers |-> {}]
    /\ issued = 0
    /\ seenV1 = [a \in V1Agents |-> {}]
    /\ answered = {}

-----------------------------------------------------------------------------
(* The derived states of a row.                                            *)

Live(j) == ttl[j] > 0
Lapsed(j) == status[j] = "PENDING" /\ token[j] # NoToken /\ ttl[j] = 0
\* CLAIMED: PENDING with a lease_until in the future
Claimed(j) == status[j] = "PENDING" /\ Live(j)
Claimable(j) ==
    /\ status[j] = "PENDING"
    /\ retries[j] < MaxPrintAttempts
    /\ ~Live(j)

AttemptNos(j) == {a.no : a \in attempts[j]}

-----------------------------------------------------------------------------
(* Rows appear: order ingestion queues one job per station, an operator    *)
(* reprints one.  Ids are numbered in creation order (created_at).         *)

NewRow(j, original) ==
    /\ status[j] = "ABSENT"
    /\ \A k \in Jobs : k < j => status[k] # "ABSENT"
    /\ status' = [status EXCEPT ![j] = "PENDING"]
    /\ reprintOf' = [reprintOf EXCEPT ![j] = original]
    /\ recent' = [recent EXCEPT ![j] = TRUE]

EnqueueJob(j) ==
    /\ NewRow(j, 0)
    /\ UNCHANGED <<retries, token, ttl, attempts, claimVars, held, issued, seenV1, answered>>

PendingClones(original) ==
    {k \in Jobs : reprintOf[k] = original /\ status[k] = "PENDING"}

\* The newest unresolved clone, when young enough, is returned as it is.
ReprintJob(original, j) ==
    /\ status[original] # "ABSENT"
    /\ ~ \E k \in PendingClones(original) :
            recent[k] /\ \A l \in PendingClones(original) : l <= k
    /\ NewRow(j, original)
    /\ UNCHANGED <<retries, token, ttl, attempts, claimVars, held, issued, seenV1, answered>>

-----------------------------------------------------------------------------
(* claimJobs                                                               *)

\* First select: the lapsed leases, as they are now.
SelectLapsed(c) ==
    /\ pc[c] = "idle"
    /\ c \in Spools => held[c] = {}
    /\ \E j \in Jobs : status[j] # "ABSENT"
    /\ pc' = [pc EXCEPT ![c] = "fold"]
    /\ snaps' = [snaps EXCEPT ![c] =
                    {[job |-> j, retries |-> retries[j], token |-> token[j]] :
                        j \in {k \in Jobs : Lapsed(k)}}]
    /\ UNCHANGED <<rowVars, attempts, cands, held, issued, seenV1, answered>>

\* Mutant: the current counter numbers the row, not the snapshot's.
FreshAttemptNo(s) == retries[s.job] + 1
\* Mutant: the row takes the counter as it stands, so the first is number zero.
UncountedAttemptNo(s) == s.retries
ExpiredAttemptNo(s) == s.retries + 1

\* The attempt row goes in unless that number is taken; the job row changes
\* only while it still carries the token of the snapshot.
RecordExpiredLease(c, s) ==
    /\ pc[c] = "fold"
    /\ s \in snaps[c]
    /\ snaps' = [snaps EXCEPT ![c] = @ \ {s}]
    /\ attempts' = [attempts EXCEPT ![s.job] =
                      IF ExpiredAttemptNo(s) \in AttemptNos(s.job) THEN @
                      ELSE @ \cup {[no |-> ExpiredAttemptNo(s), token |-> s.token,
                                    result |-> "LEASE_EXPIRED"]}]
    /\ IF token[s.job] = s.token
         THEN /\ retries' = [retries EXCEPT ![s.job] = ExpiredAttemptNo(s)]
              /\ token' = [token EXCEPT ![s.job] = NoToken]
              /\ ttl' = [ttl EXCEPT ![s.job] = 0]
         ELSE UNCHANGED <<retries, token, ttl>>
    /\ UNCHANGED <<status, reprintOf, recent, pc, cands, held, issued, seenV1, answered>>

\* The ClaimLimit oldest of a set of jobs.
Oldest(S) == {j \in S : Cardinality({k \in S : k < j}) < ClaimLimit}

\* Second select: the candidates, as they are now.
SelectCandidates(c) ==
    /\ pc[c] = "fold"
    /\ snaps[c] = {}
    /\ cands' = [cands EXCEPT ![c] = Oldest({j \in Jobs : Claimable(j)})]
    /\ pc' = [pc EXCEPT ![c] = "claim"]
    /\ UNCHANGED <<rowVars, attempts, snaps, held, issued, seenV1, answered>>

\* Mutant: the update forgets the lease another claim took meanwhile.
StillPending(j) == status[j] = "PENDING"
StillUnleased(j) == status[j] = "PENDING" /\ ~Live(j)

\* The conditional update of the next candidate (retries is not looked at
\* again); a row that no longer qualifies is skipped.
ClaimCandidate(c, j, d) ==
    /\ pc[c] = "claim"
    /\ j \in cands[c] /\ \A k \in cands[c] : j <= k
    /\ cands' = [cands EXCEPT ![c] = @ \ {j}]
    /\ IF StillUnleased(j)
         THEN /\ issued < MaxTokens
              /\ issued' = issued + 1
              /\ token' = [token EXCEPT ![j] = issued + 1]
              /\ ttl' = [ttl EXCEPT ![j] = d]
              /\ held' = [held EXCEPT ![c] = @ \cup {<<j, issued + 1>>}]
         ELSE UNCHANGED <<issued, token, ttl, held>>
    /\ UNCHANGED <<status, retries, reprintOf, recent, attempts, pc, snaps, seenV1, answered>>

ClaimReturns(c) ==
    /\ pc[c] = "claim" /\ cands[c] = {}
    /\ pc' = [pc EXCEPT ![c] = "idle"]
    /\ UNCHANGED <<rowVars, attempts, snaps, cands, held, issued, seenV1, answered>>

-----------------------------------------------------------------------------
(* The lease holder                                                        *)

\* Refused unless the row is PENDING under exactly this live token.
RenewLease(c, j, t, d) ==
    /\ c \in Agents /\ pc[c] = "idle" /\ <<j, t>> \in held[c]
    /\ Claimed(j) /\ token[j] = t
    /\ ttl' = [ttl EXCEPT ![j] = d]
    /\ UNCHANGED <<status, retries, token, reprintOf, recent, attempts, claimVars,
                   held, issued, seenV1, answered>>

\* Mutant: one attempt more than the limit.
OneMore(attemptNo, result) ==
    IF result = "PRINTED" THEN "PRINTED"
    ELSE IF attemptNo > MaxPrintAttempts THEN "FAILED" ELSE "PENDING"
Outcome(attemptNo, result) ==
    IF result = "PRINTED" THEN "PRINTED"
    ELSE IF attemptNo >= MaxPrintAttempts THEN "FAILED" ELSE "PENDING"

\* Mutant: no unique index on (job, attempt number).
AnyNumber(j, attemptNo) == TRUE
NumberIsFree(j, attemptNo) == attemptNo \notin AttemptNos(j)

\* The live-lease path of ackJobV2: one transaction under the row lock.  The
\* plain insert aborts it when the attempt number is already taken.
ResolveAttempt(j, t, result) ==
    LET attemptNo == retries[j] + 1
    IN  /\ Claimed(j) /\ token[j] = t
        /\ NumberIsFree(j, attemptNo)
        /\ attempts' = [attempts EXCEPT ![j] =
                          @ \cup {[no |-> attemptNo, token |-> t, result |-> result]}]
        /\ status' = [status EXCEPT ![j] = Outcome(attemptNo, result)]
        /\ retries' = [retries EXCEPT ![j] = attemptNo]
        /\ token' = [token EXCEPT ![j] = NoToken]
        /\ ttl' = [ttl EXCEPT ![j] = 0]
        /\ answered' = answered \cup {<<j, t, result>>}
        /\ UNCHANGED <<reprintOf, recent>>

\* Mutant: the replay compares the token alone.
ReplayAnyResult(j, t, result) ==
    /\ status[j] \notin {"ABSENT", "PENDING"}
    /\ \E a \in attempts[j] : a.token = t
    /\ answered' = answered \cup {<<j, t, result>>}
    /\ UNCHANGED <<rowVars, attempts>>

\* Mutant: the replay writes its result again.
ReplayRewrites(j, t, result) ==
    /\ status[j] \notin {"ABSENT", "PENDING"}
    /\ \E a \in attempts[j] : a.token = t /\ a.result = result
    /\ status' = [status EXCEPT ![j] = result]
    /\ answered' = answered \cup {<<j, t, result>>}
    /\ UNCHANGED <<retries, token, ttl, reprintOf, recent, attempts>>

\* The replay path: a resolved job answers again the ack that resolved it.
ReplayAck(j, t, result) ==
    /\ status[j] \notin {"ABSENT", "PENDING"}
    /\ \E a \in attempts[j] : a.token = t /\ a.result = result
    /\ answered' = answered \cup {<<j, t, result>>}
    /\ UNCHANGED <<rowVars, attempts>>

\* An agent keeps the pair: it may lose the answer and send the ack again.
AckJobV2(c, j, t, result) ==
    /\ c \in Agents /\ pc[c] = "idle" /\ <<j, t>> \in held[c]
    /\ ResolveAttempt(j, t, result) \/ ReplayAck(j, t, result)
    /\ UNCHANGED <<claimVars, held, issued, seenV1>>

-----------------------------------------------------------------------------
(* processVirtualSpool: claim, then take the claimed jobs one by one.      *)

SpoolTurn(c, j, t) ==
    /\ c \in Spools /\ pc[c] = "idle" /\ <<j, t>> \in held[c]
    /\ \A h \in held[c] : j <= h[1]

\* Not a virtual printer: give the lease back, if it is still ours.
SpoolRelease(c, j, t) ==
    /\ SpoolTurn(c, j, t) /\ j \notin VirtualJobs
    /\ IF token[j] = t
         THEN /\ token' = [token EXCEPT ![j] = NoToken]
              /\ ttl' = [ttl EXCEPT ![j] = 0]
         ELSE UNCHANGED <<token, ttl>>
    /\ held' = [held EXCEPT ![c] = @ \ {<<j, t>>}]
    /\ UNCHANGED <<status, retries, reprintOf, recent, attempts, claimVars,
                   issued, seenV1, answered>>

\* Each token is acked once here, so the replay path is never taken.
SpoolAck(c, j, t) ==
    /\ SpoolTurn(c, j, t) /\ j \in VirtualJobs
    /\ ResolveAttempt(j, t, "PRINTED")
    /\ held' = [held EXCEPT ![c] = @ \ {<<j, t>>}]
    /\ UNCHANGED <<claimVars, issued, seenV1>>

\* A refused ack throws out of the loop: the rest stay leased until they lapse.
SpoolAbort(c, j, t) ==
    /\ SpoolTurn(c, j, t) /\ j \in VirtualJobs
    /\ ~ (Claimed(j) /\ token[j] = t /\ NumberIsFree(j, retries[j] + 1))
    /\ held' = [held EXCEPT ![c] = {}]
    /\ UNCHANGED <<rowVars, attempts, claimVars, issued, seenV1, answered>>

-----------------------------------------------------------------------------
(* v1 agents: pull everything not actively leased, later ack.              *)

ListPendingJobs(a) ==
    /\ seenV1' = [seenV1 EXCEPT ![a] = {j \in Jobs : status[j] = "PENDING" /\ ~Live(j)}]
    /\ UNCHANGED <<rowVars, attempts, claimVars, held, issued, answered>>

\* No look at the status or at the lease.
AckJob(a, j, result) ==
    /\ j \in seenV1[a]
    /\ status' = [status EXCEPT ![j] = result]
    /\ seenV1' = [seenV1 EXCEPT ![a] = @ \ {j}]
    /\ UNCHANGED <<retries, token, ttl, reprintOf, recent, attempts, claimVars,
                   held, issued, answered>>

-----------------------------------------------------------------------------
(* The environment                                                         *)

TicksLeft(j) == IF Live(j) THEN ttl[j] - 1 ELSE 0

\* Time passes for every lease at once.
Tick ==
    /\ \E j \in Jobs : Live(j)
    /\ ttl' = [j \in Jobs |-> TicksLeft(j)]
    /\ UNCHANGED <<status, retries, token, reprintOf, recent, attempts, claimVars,
                   held, issued, seenV1, answered>>

\* The reprint window of a row closes.
WindowElapses(j) ==
    /\ recent[j]
    /\ recent' = [recent EXCEPT ![j] = FALSE]
    /\ UNCHANGED <<status, retries, token, ttl, reprintOf, attempts, claimVars,
                   held, issued, seenV1, answered>>

\* The claim call dies between two statements, or the agent forgets what it
\* was given (process restart, lost response).
Crash(c) ==
    /\ pc[c] # "idle" \/ held[c] # {}
    /\ pc' = [pc EXCEPT ![c] = "idle"]
    /\ snaps' = [snaps EXCEPT ![c] = {}]
    /\ cands' = [cands EXCEPT ![c] = {}]
    /\ held' = [held EXCEPT ![c] = {}]
    /\ UNCHANGED <<rowVars, attempts, issued, seenV1, answered>>

ClaimStep(c) ==
    \/ SelectLapsed(c)
    \/ \E s \in snaps[c] : RecordExpiredLease(c, s)
    \/ SelectCandidates(c)
    \/ \E j \in Jobs, d \in LeaseTimes : ClaimCandidate(c, j, d)
    \/ ClaimReturns(c)

HolderStep(c) ==
    \E h \in held[c] :
        \/ \E d \in LeaseTimes : RenewLease(c, h[1], h[2], d)
        \/ \E result \in Results : AckJobV2(c, h[1], h[2], result)
        \/ SpoolRelease(c, h[1], h[2])
        \/ SpoolAck(c, h[1], h[2])
        \/ SpoolAbort(c, h[1], h[2])

V1Step(a) ==
    \/ ListPendingJobs(a)
    \/ \E j \in Jobs, result \in Results : AckJob(a, j, result)

Next ==
    \/ \E j \in Jobs : EnqueueJob(j)
    \/ \E original, j \in Jobs : ReprintJob(original, j)
    \/ \E c \in Claimers : ClaimStep(c) \/ HolderStep(c) \/ Crash(c)
    \/ \E a \in V1Agents : V1Step(a)
    \/ Tick
    \/ \E j \in Jobs : WindowElapses(j)

Spec == Init /\ [][Next]_vars

-----------------------------------------------------------------------------
(* Properties                                                              *)

\* The attempt history of a job has no gaps and no duplicates in its
\* numbering, and print_job.retries is never ahead of it: at most one row was
\* appended that the counter does not show yet (recordExpiredLease appended it
\* and then found the token replaced).
HistoryContiguous ==
    \A j \in Jobs :
        /\ \A a, b \in attempts[j] : a.no = b.no => a = b
        /\ AttemptNos(j) \in {1..retries[j], 1..(retries[j] + 1)}

\* A lease token leaves at most one row behind, whichever of the ack, the
\* spool and the lazy expiry got to it ("appends exactly one row").
OneRowPerToken ==
    \A j, k \in Jobs : \A a \in attempts[j], b \in attempts[k] :
        a.token = b.token => j = k /\ a = b

\* An ack answered 200 is backed by the history, for good: the row of that
\* token carries that result, also when the answer was a replay.
AnswerBackedByHistory ==
    \A x \in answered : \E a \in attempts[x[1]] : a.token = x[2] /\ a.result = x[3]

\* The history decides a job and nothing is tried after a print: a PRINTED row
\* is the last attempt counted, and a job still open has only lapsed leases
\* and failures that left an attempt.  v1 acks may overwrite a status, they
\* never reopen a job.
OpenIsUndecided ==
    \A j \in Jobs : \A a \in attempts[j] :
        /\ a.result = "PRINTED" => a.no = retries[j]
        /\ status[j] = "PENDING" =>
             a.result = "LEASE_EXPIRED" \/ (a.result = "FAILED" /\ a.no < MaxPrintAttempts)

\* While a lease is live nobody else's claim replaces it: the row keeps the
\* token until the holder resolves or releases it.
LiveLeaseNotStolen ==
    [][\A j \in Jobs : Claimed(j) /\ token'[j] # token[j] => token'[j] = NoToken]_vars

\* An agent of the v1 protocol acks job j in this step.
AckedByV1(j) == \E a \in V1Agents : j \in seenV1[a] /\ j \notin seenV1'[a]

\* The lease protocol never rewrites a resolved job, and resolves an open one
\* with an attempt row of that result appended in the same step, FAILED only
\* when the attempts have run out; whatever else changes a status is a v1 ack.
StatusFollowsAttempt ==
    [][\A j \in Jobs : status[j] # "ABSENT" /\ status'[j] # status[j] /\ ~AckedByV1(j) =>
         /\ status[j] = "PENDING"
         /\ \E a \in attempts'[j] \ attempts[j] :
              /\ a.result = status'[j]
              /\ status'[j] = "FAILED" => a.no >= MaxPrintAttempts]_vars

\* What the header of service-v2.ts says of exhausted jobs: after
\* MAX_PRINT_ATTEMPTS resolved attempts the job is FAILED.
ExhaustedIsFailed ==
    \A j \in Jobs : status[j] = "PENDING" => Cardinality(attempts[j]) < MaxPrintAttempts
=============================================================================
