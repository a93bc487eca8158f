-------------------------- MODULE PrintQueueProofs --------------------------
(***************************************************************************)
(* Proofs about PrintQueue, for any number of agents, spools, v1 agents,   *)
(* jobs and tokens.                                                        *)
(***************************************************************************)
EXTENDS PrintQueue, TLAPS

-----------------------------------------------------------------------------
(* Type correctness                                                        *)

\* The candidates of a claim are jobs.
LEMMA OldestAreMembers ==
    ASSUME NEW S PROVE Oldest(S) \subseteq S
BY DEF Oldest

\* Every claim step keeps the types.
LEMMA ClaimKeepsTypes ==
    ASSUME TypeOK, NEW c \in Claimers, ClaimStep(c) PROVE TypeOK'
<1>1. CASE SelectLapsed(c)
  <2>1. \A k \in Jobs : Lapsed(k) =>
            [job |-> k, retries |-> retries[k], token |-> token[k]] \in Snapshot
    BY DEF Lapsed, TypeOK, Snapshot
  <2>2. {[job |-> j, retries |-> retries[j], token |-> token[j]] :
            j \in {k \in Jobs : Lapsed(k)}} \in SUBSET Snapshot
    BY <2>1
  <2>3. snaps' \in [Claimers -> SUBSET Snapshot]
    BY <1>1, <2>2 DEF SelectLapsed, TypeOK
  <2>4. pc' \in [Claimers -> {"idle", "fold", "claim"}]
    BY <1>1 DEF SelectLapsed, TypeOK
  <2> QED BY <1>1, <2>3, <2>4 DEF SelectLapsed, TypeOK, rowVars
<1>2. ASSUME NEW s \in snaps[c], RecordExpiredLease(c, s) PROVE TypeOK'
  <2>1. s \in Snapshot
    BY DEF TypeOK
  <2>2. s.job \in Jobs /\ s.retries + 1 \in Nat \ {0} /\ s.token \in Tokens
    BY <2>1 DEF Snapshot
  <2>3. attempts' \in [Jobs -> SUBSET Attempt]
    <3>1. [no |-> ExpiredAttemptNo(s), token |-> s.token, result |-> "LEASE_EXPIRED"]
            \in Attempt
      BY <2>2 DEF ExpiredAttemptNo, Attempt
    <3>2. attempts[s.job] \in SUBSET Attempt
      BY <2>2 DEF TypeOK
    <3> QED BY <1>2, <2>2, <3>1, <3>2 DEF RecordExpiredLease, TypeOK
  <2>4. retries' \in [Jobs -> Nat] /\ token' \in [Jobs -> Tokens \cup {NoToken}]
            /\ ttl' \in [Jobs -> Nat]
    <3>1. ExpiredAttemptNo(s) \in Nat
      BY <2>2 DEF ExpiredAttemptNo
    <3> QED BY <1>2, <2>2, <3>1 DEF RecordExpiredLease, TypeOK
  <2>5. snaps' \in [Claimers -> SUBSET Snapshot]
    BY <1>2 DEF RecordExpiredLease, TypeOK
  <2> QED BY <1>2, <2>3, <2>4, <2>5 DEF RecordExpiredLease, TypeOK
<1>3. CASE SelectCandidates(c)
  <2>1. Oldest({j \in Jobs : Claimable(j)}) \in SUBSET Jobs
    BY OldestAreMembers
  <2> QED BY <1>3, <2>1 DEF SelectCandidates, TypeOK, rowVars
<1>4. ASSUME NEW j \in Jobs, NEW d \in LeaseTimes, ClaimCandidate(c, j, d) PROVE TypeOK'
  <2>1. CASE StillUnleased(j)
    <3>1. issued + 1 \in Tokens /\ d \in Nat
      BY <1>4, <2>1, PrintQueueAssumptions DEF ClaimCandidate, TypeOK, Tokens
    <3>2. held' \in [Claimers -> SUBSET (Jobs \X Tokens)]
      BY <1>4, <2>1, <3>1 DEF ClaimCandidate, TypeOK
    <3>3. issued + 1 \in 0..MaxTokens
      BY <3>1 DEF Tokens
    <3>4. cands' \in [Claimers -> SUBSET Jobs]
      BY <1>4 DEF ClaimCandidate, TypeOK
    <3> QED BY <1>4, <2>1, <3>1, <3>2, <3>3, <3>4 DEF ClaimCandidate, TypeOK
  <2>2. CASE ~StillUnleased(j)
    BY <1>4, <2>2 DEF ClaimCandidate, TypeOK
  <2> QED BY <2>1, <2>2
<1>5. CASE ClaimReturns(c)
  BY <1>5 DEF ClaimReturns, TypeOK, rowVars
<1> QED BY <1>1, <1>2, <1>3, <1>4, <1>5 DEF ClaimStep

\* Resolving an attempt keeps the types of the variables it changes.
LEMMA ResolveKeepsTypes ==
    ASSUME TypeOK, NEW j \in Jobs, NEW t \in Tokens, NEW result \in Results,
           ResolveAttempt(j, t, result) \/ ReplayAck(j, t, result)
    PROVE  /\ status' \in [Jobs -> {"ABSENT", "PENDING"} \cup Results]
           /\ retries' \in [Jobs -> Nat]
           /\ token' \in [Jobs -> Tokens \cup {NoToken}]
           /\ ttl' \in [Jobs -> Nat]
           /\ reprintOf' \in [Jobs -> Jobs \cup {0}]
           /\ recent' \in [Jobs -> BOOLEAN]
           /\ attempts' \in [Jobs -> SUBSET Attempt]
           /\ answered' \subseteq Jobs \X Tokens \X Results
<1>1. CASE ResolveAttempt(j, t, result)
  <2>1. retries[j] + 1 \in Nat \ {0}
    BY DEF TypeOK
  <2>2. [no |-> retries[j] + 1, token |-> t, result |-> result] \in Attempt
    BY <2>1 DEF Attempt
  <2>3. Outcome(retries[j] + 1, result) \in {"ABSENT", "PENDING"} \cup Results
    BY DEF Outcome, Results
  <2>4. attempts' \in [Jobs -> SUBSET Attempt]
    BY <1>1, <2>2 DEF ResolveAttempt, TypeOK
  <2>5. answered' \subseteq Jobs \X Tokens \X Results
    BY <1>1 DEF ResolveAttempt, TypeOK
  <2> QED BY <1>1, <2>1, <2>3, <2>4, <2>5 DEF ResolveAttempt, TypeOK
<1>2. CASE ReplayAck(j, t, result)
  BY <1>2 DEF ReplayAck, TypeOK, rowVars
<1> QED BY <1>1, <1>2

\* Every step of a lease holder keeps the types.
LEMMA HolderKeepsTypes ==
    ASSUME TypeOK, NEW c \in Claimers, HolderStep(c) PROVE TypeOK'
<1>1. PICK h \in held[c] :
        \/ \E d \in LeaseTimes : RenewLease(c, h[1], h[2], d)
        \/ \E result \in Results : AckJobV2(c, h[1], h[2], result)
        \/ SpoolRelease(c, h[1], h[2])
        \/ SpoolAck(c, h[1], h[2])
        \/ SpoolAbort(c, h[1], h[2])
  BY DEF HolderStep
<1> DEFINE j == h[1]
           t == h[2]
<1>2. h \in Jobs \X Tokens
  BY DEF TypeOK
<1>3. j \in Jobs /\ t \in Tokens
  BY <1>2
<1> HIDE DEF j, t
<1>4. ASSUME NEW d \in LeaseTimes, RenewLease(c, j, t, d) PROVE TypeOK'
  BY <1>3, <1>4, PrintQueueAssumptions DEF RenewLease, TypeOK, claimVars
<1>5. ASSUME NEW result \in Results, AckJobV2(c, j, t, result) PROVE TypeOK'
  BY <1>3, <1>5, ResolveKeepsTypes DEF AckJobV2, TypeOK, claimVars
<1>6. CASE SpoolRelease(c, j, t)
  BY <1>3, <1>6 DEF SpoolRelease, TypeOK, claimVars
<1>7. CASE SpoolAck(c, j, t)
  <2>1. "PRINTED" \in Results
    BY DEF Results
  <2> QED BY <1>3, <1>7, <2>1, ResolveKeepsTypes DEF SpoolAck, TypeOK, claimVars
<1>8. CASE SpoolAbort(c, j, t)
  BY <1>3, <1>8 DEF SpoolAbort, TypeOK, claimVars, rowVars
<1> QED BY <1>1, <1>4, <1>5, <1>6, <1>7, <1>8 DEF j, t

\* TypeOK is inductive.
LEMMA TypeStep == TypeOK /\ [Next]_vars => TypeOK'
<1> SUFFICES ASSUME TypeOK, [Next]_vars PROVE TypeOK'
  OBVIOUS
<1>1. ASSUME NEW j \in Jobs, EnqueueJob(j) PROVE TypeOK'
  BY <1>1 DEF EnqueueJob, NewRow, TypeOK, claimVars
<1>2. ASSUME NEW original \in Jobs, NEW j \in Jobs, ReprintJob(original, j) PROVE TypeOK'
  BY <1>2 DEF ReprintJob, NewRow, TypeOK, claimVars
<1>3. ASSUME NEW c \in Claimers, Crash(c) PROVE TypeOK'
  BY <1>3 DEF Crash, TypeOK, rowVars
<1>4. ASSUME NEW a \in V1Agents, ListPendingJobs(a) PROVE TypeOK'
  <2>1. {j \in Jobs : status[j] = "PENDING" /\ ~Live(j)} \in SUBSET Jobs
    OBVIOUS
  <2> QED BY <1>4, <2>1 DEF ListPendingJobs, TypeOK, rowVars, claimVars
<1>5. ASSUME NEW a \in V1Agents, NEW j \in Jobs, NEW result \in Results, AckJob(a, j, result)
      PROVE TypeOK'
  BY <1>5 DEF AckJob, TypeOK, claimVars
<1>6. CASE Tick
  <2>1. \A j \in Jobs : TicksLeft(j) \in Nat
    BY DEF TicksLeft, Live, TypeOK
  <2> QED BY <1>6, <2>1 DEF Tick, TypeOK, claimVars
<1>7. ASSUME NEW j \in Jobs, WindowElapses(j) PROVE TypeOK'
  BY <1>7 DEF WindowElapses, TypeOK, claimVars
<1>8. CASE UNCHANGED vars
  BY <1>8 DEF vars, TypeOK, rowVars, claimVars
<1> QED BY <1>1, <1>2, <1>3, <1>4, <1>5, <1>6, <1>7, <1>8, ClaimKeepsTypes, HolderKeepsTypes
        DEF Next, V1Step

\* Every reachable state of the queue is well typed, for every value of the
\* constants: tokens stay within what was issued, snapshots and candidates
\* name jobs.
THEOREM TypeCorrect == Spec => []TypeOK
<1>1. Init => TypeOK
  BY PrintQueueAssumptions DEF Init, TypeOK, NoToken
<1> QED BY <1>1, TypeStep, PTL DEF Spec
-----------------------------------------------------------------------------
(* The attempt history.  HistoryContiguous and OneRowPerToken are not      *)
(* inductive: what a claim call remembers of a lapsed lease must be tied   *)
(* to the row it was read from, and a token must be known to be in one     *)
(* place only.                                                             *)

\* What a claim call remembers: no newer than the row, exact while the row
\* still carries the token.
SnapsTrail ==
    \A c \in Claimers : \A s \in snaps[c] :
        /\ s.token <= issued
        /\ s.retries <= retries[s.job]
        /\ \A j \in Jobs : token[j] = s.token => j = s.job /\ s.retries = retries[j]

\* Two calls that remember one token remember the same thing, and so does the
\* attempt row that token left, if it left one.
SnapsAgree ==
    /\ \A c, d \in Claimers : \A s \in snaps[c], u \in snaps[d] :
          s.token = u.token => s = u
    /\ \A c \in Claimers : \A s \in snaps[c] : \A j \in Jobs : \A a \in attempts[j] :
          a.token = s.token => j = s.job /\ a.no = s.retries + 1

\* A token is on one row at most, and on none once it has left an attempt.
TokensFresh ==
    /\ \A j \in Jobs : token[j] <= issued
    /\ \A j, k \in Jobs : token[j] = token[k] /\ token[j] # NoToken => j = k
    /\ \A j, k \in Jobs : \A a \in attempts[j] : a.token <= issued /\ a.token # token[k]

HistoryInv ==
    /\ TypeOK
    /\ HistoryContiguous
    /\ OneRowPerToken
    /\ SnapsTrail
    /\ SnapsAgree
    /\ TokensFresh

\* A step that touches none of this, except that claim calls may forget.
QuietStep ==
    /\ UNCHANGED <<retries, token, attempts, issued>>
    /\ \A c \in Claimers : snaps'[c] \subseteq snaps[c]

\* A quiet step keeps the history invariant.
LEMMA QuietKeepsHistory ==
    ASSUME HistoryInv, TypeOK', QuietStep PROVE HistoryInv'
<1>1. HistoryContiguous' /\ OneRowPerToken' /\ TokensFresh'
  BY DEF HistoryInv, QuietStep, HistoryContiguous, AttemptNos, OneRowPerToken, TokensFresh
<1>2. SnapsTrail'
  BY DEF HistoryInv, QuietStep, SnapsTrail
<1>3. SnapsAgree'
  BY DEF HistoryInv, QuietStep, SnapsAgree
<1> QED BY <1>1, <1>2, <1>3 DEF HistoryInv

\* The first select of a claim call keeps the history invariant.
LEMMA SelectKeepsHistory ==
    ASSUME HistoryInv, TypeOK', NEW c \in Claimers, SelectLapsed(c) PROVE HistoryInv'
<1> DEFINE Fresh == {[job |-> j, retries |-> retries[j], token |-> token[j]] :
                        j \in {k \in Jobs : Lapsed(k)}}
<1>1. UNCHANGED <<retries, token, attempts, issued>>
  BY DEF SelectLapsed, rowVars
<1>2. HistoryContiguous' /\ OneRowPerToken' /\ TokensFresh'
  BY <1>1 DEF HistoryInv, HistoryContiguous, AttemptNos, OneRowPerToken, TokensFresh
<1>3. \A d \in Claimers : \A s \in snaps'[d] : s \in snaps[d] \/ s \in Fresh
  BY DEF SelectLapsed, HistoryInv, TypeOK
<1>4. ASSUME NEW s \in Fresh
      PROVE  s.job \in Jobs /\ s.retries = retries[s.job] /\ s.token = token[s.job]
             /\ s.token # NoToken /\ s = [job |-> s.job, retries |-> s.retries, token |-> s.token]
  BY DEF Lapsed
<1>5. SnapsTrail'
  <2> SUFFICES ASSUME NEW d \in Claimers, NEW s \in snaps'[d]
               PROVE  /\ s.token <= issued
                      /\ s.retries <= retries[s.job]
                      /\ \A j \in Jobs : token[j] = s.token => j = s.job /\ s.retries = retries[j]
    BY <1>1 DEF SnapsTrail
  <2>1. CASE s \in snaps[d]
    BY <2>1 DEF HistoryInv, SnapsTrail
  <2>2. CASE s \in Fresh
    <3>1. retries[s.job] \in Nat
      BY <1>4, <2>2 DEF HistoryInv, TypeOK
    <3> QED BY <1>4, <2>2, <3>1 DEF HistoryInv, TokensFresh
  <2> QED BY <1>3, <2>1, <2>2
<1>6. SnapsAgree'
  <2>1. ASSUME NEW d \in Claimers, NEW e \in Claimers, NEW s \in snaps'[d], NEW u \in snaps'[e],
               s.token = u.token
        PROVE  s = u
    <3>1. CASE s \in snaps[d] /\ u \in snaps[e]
      BY <2>1, <3>1 DEF HistoryInv, SnapsAgree
    <3>2. ASSUME NEW x \in Claimers, NEW v \in snaps[x], NEW w \in Fresh, v.token = w.token
          PROVE  v = w
      <4>1. v.job = w.job /\ v.retries = w.retries
        BY <1>4, <3>2 DEF HistoryInv, SnapsTrail
      <4>2. v = [job |-> v.job, retries |-> v.retries, token |-> v.token]
        BY DEF HistoryInv, TypeOK, Snapshot
      <4> QED BY <1>4, <3>2, <4>1, <4>2
    <3>3. CASE s \in Fresh /\ u \in Fresh
      <4>1. s.job = u.job
        BY <1>4, <2>1, <3>3 DEF HistoryInv, TokensFresh
      <4> QED BY <1>4, <2>1, <3>3, <4>1
    <3> QED BY <1>3, <2>1, <3>1, <3>2, <3>3
  <2>2. ASSUME NEW d \in Claimers, NEW s \in snaps'[d], NEW j \in Jobs, NEW a \in attempts[j],
               a.token = s.token
        PROVE  j = s.job /\ a.no = s.retries + 1
    <3>1. CASE s \in snaps[d]
      BY <2>2, <3>1 DEF HistoryInv, SnapsAgree
    <3>2. CASE s \in Fresh
      BY <1>4, <2>2, <3>2 DEF HistoryInv, TokensFresh
    <3> QED BY <1>3, <3>1, <3>2
  <2> QED BY <1>1, <2>1, <2>2 DEF SnapsAgree
<1> QED BY <1>2, <1>5, <1>6 DEF HistoryInv

\* Taking a fresh token keeps the history invariant.
LEMMA TokenKeepsHistory ==
    ASSUME HistoryInv, TypeOK', NEW j \in Jobs, UNCHANGED <<retries, attempts, snaps>>,
           \/ token' = [token EXCEPT ![j] = issued + 1] /\ issued' = issued + 1
           \/ token' = [token EXCEPT ![j] = NoToken] /\ issued' = issued
    PROVE  HistoryInv'
<1> USE DEF NoToken
<1>1. HistoryContiguous' /\ OneRowPerToken'
  BY DEF HistoryInv, HistoryContiguous, AttemptNos, OneRowPerToken
<1>2. /\ issued \in Nat
      /\ token \in [Jobs -> Nat]
      /\ \A k \in Jobs : token[k] \in Nat /\ token'[k] \in Nat /\ token[k] <= issued
  BY DEF HistoryInv, TypeOK, Tokens, TokensFresh
<1>3. /\ issued' >= issued
      /\ \A k \in Jobs : token'[k] = token[k] \/ token'[k] = 0 \/ (token'[k] > issued /\ k = j)
      /\ \A k \in Jobs : token'[k] <= issued'
  BY <1>2
<1>4. \A d \in Claimers : \A s \in snaps[d] : s.token \in Nat \ {0} /\ s.token <= issued
  BY DEF HistoryInv, TypeOK, Snapshot, Tokens, SnapsTrail
<1>5. \A k \in Jobs : \A a \in attempts[k] : a.token \in Nat \ {0} /\ a.token <= issued
  BY DEF HistoryInv, TypeOK, Attempt, Tokens, TokensFresh
<1>6. issued' \in Nat
  BY <1>2
<1>7. SnapsTrail'
  <2> SUFFICES ASSUME NEW d \in Claimers, NEW s \in snaps[d]
               PROVE  /\ s.token <= issued'
                      /\ s.retries <= retries[s.job]
                      /\ \A k \in Jobs : token'[k] = s.token => k = s.job /\ s.retries = retries[k]
    BY DEF SnapsTrail
  <2>1. s.token <= issued'
    BY <1>2, <1>3, <1>4, <1>6
  <2>2. \A k \in Jobs : token'[k] = s.token => token[k] = s.token
    BY <1>2, <1>3, <1>4
  <2> QED BY <2>1, <2>2 DEF HistoryInv, SnapsTrail
<1>8. SnapsAgree'
  BY DEF HistoryInv, SnapsAgree
<1>9. TokensFresh'
  <2>1. \A i, k \in Jobs : token'[i] = token'[k] /\ token'[i] # 0 => i = k
    BY <1>2, <1>3 DEF HistoryInv, TokensFresh
  <2>2. ASSUME NEW i \in Jobs, NEW k \in Jobs, NEW a \in attempts[i]
        PROVE  a.token <= issued' /\ a.token # token'[k]
    <3>1. a.token # token[k]
      BY DEF HistoryInv, TokensFresh
    <3> QED BY <1>2, <1>3, <1>5, <1>6, <3>1
  <2> QED BY <1>3, <2>1, <2>2 DEF TokensFresh
<1> QED BY <1>1, <1>7, <1>8, <1>9 DEF HistoryInv

\* Adding the next number to a gapless numbering leaves no gap.
LEMMA NextNumber ==
    ASSUME NEW r \in Nat PROVE (1..r) \cup {r + 1} = 1..(r + 1)
OBVIOUS

\* Appending a row numbered n with a token no row has, where n is free and is
\* the next number, keeps the numbering gapless and the tokens apart.
LEMMA AppendKeepsNumbering ==
    ASSUME HistoryInv, NEW j \in Jobs, NEW row \in Attempt,
           row.no = retries[j] + 1, row.no \notin AttemptNos(j),
           attempts' = [attempts EXCEPT ![j] = @ \cup {row}],
           \A k \in Jobs : \A a \in attempts[k] : a.token # row.token,
           \/ retries' = retries
           \/ retries' = [retries EXCEPT ![j] = row.no]
    PROVE  HistoryContiguous' /\ OneRowPerToken'
<1>1. /\ attempts'[j] = attempts[j] \cup {row}
      /\ \A k \in Jobs \ {j} : attempts'[k] = attempts[k] /\ retries'[k] = retries[k]
      /\ retries'[j] \in {retries[j], retries[j] + 1}
      /\ \A k \in Jobs : retries[k] \in Nat
  BY DEF HistoryInv, TypeOK
<1>2. HistoryContiguous'
  <2>1. ASSUME NEW k \in Jobs \ {j}
        PROVE  /\ \A a, b \in attempts'[k] : a.no = b.no => a = b
               /\ AttemptNos(k)' \in {1..retries'[k], 1..(retries'[k] + 1)}
    BY <1>1 DEF HistoryInv, HistoryContiguous, AttemptNos
  <2>2. \A a, b \in attempts'[j] : a.no = b.no => a = b
    <3>1. \A a \in attempts[j] : a.no # row.no
      BY DEF AttemptNos
    <3> QED BY <1>1, <3>1 DEF HistoryInv, HistoryContiguous
  <2>3. AttemptNos(j)' = AttemptNos(j) \cup {row.no}
    BY <1>1 DEF AttemptNos
  <2>4. AttemptNos(j) = 1..retries[j]
    <3>1. AttemptNos(j) # 1..(retries[j] + 1)
      BY <1>1
    <3> QED BY <3>1 DEF HistoryInv, HistoryContiguous
  <2>5. AttemptNos(j)' = 1..(retries[j] + 1)
    BY <1>1, <2>3, <2>4, NextNumber
  <2>6. AttemptNos(j)' \in {1..retries'[j], 1..(retries'[j] + 1)}
    BY <1>1, <2>5
  <2> QED BY <2>1, <2>2, <2>6 DEF HistoryContiguous
<1>3. OneRowPerToken'
  <2> SUFFICES ASSUME NEW i \in Jobs, NEW k \in Jobs, NEW a \in attempts'[i], NEW b \in attempts'[k],
                      a.token = b.token
               PROVE  i = k /\ a = b
    BY DEF OneRowPerToken
  <2>1. a \in attempts[i] \/ (i = j /\ a = row)
    BY <1>1
  <2>2. b \in attempts[k] \/ (k = j /\ b = row)
    BY <1>1
  <2> QED BY <2>1, <2>2 DEF HistoryInv, OneRowPerToken
<1> QED BY <1>2, <1>3

\* Resolving an attempt keeps the history invariant.
LEMMA ResolveKeepsHistory ==
    ASSUME HistoryInv, TypeOK', NEW j \in Jobs, NEW t \in Tokens, NEW result \in Results,
           ResolveAttempt(j, t, result), UNCHANGED <<snaps, issued>>
    PROVE  HistoryInv'
<1> DEFINE row == [no |-> retries[j] + 1, token |-> t, result |-> result]
<1>1. /\ token[j] = t /\ t # NoToken
      /\ row.no \notin AttemptNos(j)
      /\ attempts' = [attempts EXCEPT ![j] = @ \cup {row}]
      /\ retries' = [retries EXCEPT ![j] = row.no]
      /\ token' = [token EXCEPT ![j] = NoToken]
  BY DEF ResolveAttempt, NumberIsFree, Tokens, NoToken
<1>2. row \in Attempt
  <2>1. retries[j] + 1 \in Nat \ {0}
    BY DEF HistoryInv, TypeOK
  <2> QED BY <2>1 DEF Attempt
<1>3. \A k \in Jobs : \A a \in attempts[k] : a.token # row.token
  BY <1>1 DEF HistoryInv, TokensFresh
<1>4. HistoryContiguous' /\ OneRowPerToken'
  <2> HIDE DEF row
  <2>1. row.no = retries[j] + 1
    BY DEF row
  <2> QED BY <1>1, <1>2, <1>3, <2>1, AppendKeepsNumbering
<1>5. /\ \A k \in Jobs : retries[k] \in Nat
      /\ retries'[j] = retries[j] + 1 /\ token'[j] = NoToken
      /\ attempts'[j] = attempts[j] \cup {row}
      /\ \A k \in Jobs \ {j} : /\ retries'[k] = retries[k] /\ token'[k] = token[k]
                               /\ attempts'[k] = attempts[k]
  BY <1>1 DEF HistoryInv, TypeOK
<1>6. \A d \in Claimers : \A s \in snaps[d] : s.job \in Jobs /\ s.retries \in Nat /\ s.token # NoToken
  BY DEF HistoryInv, TypeOK, Snapshot, Tokens, NoToken
<1>7. SnapsTrail'
  <2> SUFFICES ASSUME NEW d \in Claimers, NEW s \in snaps[d]
               PROVE  /\ s.token <= issued
                      /\ s.retries <= retries'[s.job]
                      /\ \A k \in Jobs : token'[k] = s.token => k = s.job /\ s.retries = retries'[k]
    BY DEF SnapsTrail
  <2>1. s.token <= issued /\ s.retries <= retries[s.job]
    BY DEF HistoryInv, SnapsTrail
  <2>2. s.retries <= retries'[s.job]
    BY <1>5, <1>6, <2>1
  <2>3. \A k \in Jobs : token'[k] = s.token => k = s.job /\ s.retries = retries'[k]
    BY <1>5, <1>6 DEF HistoryInv, SnapsTrail
  <2> QED BY <2>1, <2>2, <2>3
<1>8. SnapsAgree'
  <2>1. ASSUME NEW d \in Claimers, NEW s \in snaps[d], NEW k \in Jobs, NEW a \in attempts'[k],
               a.token = s.token
        PROVE  k = s.job /\ a.no = s.retries + 1
    <3>1. CASE a \in attempts[k]
      BY <2>1, <3>1 DEF HistoryInv, SnapsAgree
    <3>2. CASE k = j /\ a = row
      BY <1>1, <2>1, <3>2 DEF HistoryInv, SnapsTrail
    <3> QED BY <1>5, <3>1, <3>2
  <2> QED BY <2>1 DEF HistoryInv, SnapsAgree
<1>9. TokensFresh'
  <2>1. issued \in Nat /\ NoToken <= issued
    BY DEF HistoryInv, TypeOK, NoToken
  <2>2. ASSUME NEW i \in Jobs, NEW k \in Jobs, NEW a \in attempts'[i]
        PROVE  a.token <= issued /\ a.token # token'[k]
    <3>1. a.token # NoToken
      BY DEF TypeOK, Attempt, Tokens, NoToken
    <3>2. CASE a \in attempts[i]
      BY <1>5, <3>1, <3>2 DEF HistoryInv, TokensFresh
    <3>3. CASE a = row
      BY <1>1, <1>5, <3>1, <3>3 DEF HistoryInv, TokensFresh
    <3> QED BY <1>5, <3>2, <3>3
  <2>3. \A k \in Jobs : token'[k] <= issued
    BY <1>5, <2>1 DEF HistoryInv, TokensFresh
  <2>4. \A i, k \in Jobs : token'[i] = token'[k] /\ token'[i] # NoToken => i = k
    BY <1>5 DEF HistoryInv, TokensFresh
  <2> QED BY <2>2, <2>3, <2>4 DEF TokensFresh
<1> QED BY <1>4, <1>7, <1>8, <1>9 DEF HistoryInv

\* Folding a lapsed lease into the history keeps the history invariant, also
\* when the lease was replaced since the claim call read it.
LEMMA FoldKeepsHistory ==
    ASSUME HistoryInv, TypeOK', NEW c \in Claimers, NEW s \in snaps[c], RecordExpiredLease(c, s)
    PROVE  HistoryInv'
<1> DEFINE j == s.job
           n == s.retries + 1
           row == [no |-> n, token |-> s.token, result |-> "LEASE_EXPIRED"]
           taken == n \in AttemptNos(j)
           matches == token[j] = s.token
<1>1. s \in Snapshot /\ j \in Jobs /\ s.retries \in Nat /\ s.token \in Tokens /\ row \in Attempt
  BY DEF HistoryInv, TypeOK, Snapshot, Attempt
<1>2. /\ s.token # NoToken /\ issued \in Nat /\ NoToken <= issued
      /\ \A k \in Jobs : retries[k] \in Nat
  BY <1>1 DEF HistoryInv, TypeOK, Tokens, NoToken
<1>3. /\ attempts' = IF taken THEN attempts ELSE [attempts EXCEPT ![j] = @ \cup {row}]
      /\ retries' = IF matches THEN [retries EXCEPT ![j] = n] ELSE retries
      /\ token' = IF matches THEN [token EXCEPT ![j] = NoToken] ELSE token
      /\ issued' = issued
      /\ \A d \in Claimers : snaps'[d] \subseteq snaps[d]
  <2>1. attempts \in [Jobs -> SUBSET Attempt] /\ snaps \in [Claimers -> SUBSET Snapshot]
    BY DEF HistoryInv, TypeOK
  <2> QED BY <2>1, <1>1 DEF RecordExpiredLease, ExpiredAttemptNo
<1>4. /\ s.retries <= retries[j] /\ s.token <= issued
      /\ \A k \in Jobs : token[k] = s.token => k = j /\ s.retries = retries[k]
  BY DEF HistoryInv, SnapsTrail
<1>5. ~taken => /\ n = retries[j] + 1
                /\ \A k \in Jobs : \A a \in attempts[k] : a.token # s.token
  <2>1. ~taken => n = retries[j] + 1
    <3>1. AttemptNos(j) \in {1..retries[j], 1..(retries[j] + 1)}
      BY <1>1 DEF HistoryInv, HistoryContiguous
    <3> QED BY <1>1, <1>2, <1>4, <3>1
  <2>2. ASSUME NEW k \in Jobs, NEW a \in attempts[k], a.token = s.token PROVE taken
    <3>1. k = j /\ a.no = n
      BY <2>2 DEF HistoryInv, SnapsAgree
    <3> QED BY <3>1 DEF AttemptNos
  <2> QED BY <2>1, <2>2
<1>6. /\ matches => n = retries[j] + 1 /\ retries'[j] = n /\ token'[j] = NoToken
      /\ \A k \in Jobs : k # j \/ ~matches => retries'[k] = retries[k] /\ token'[k] = token[k]
  BY <1>1, <1>3, <1>4 DEF HistoryInv, TypeOK
<1>7. \A k \in Jobs : \A a \in attempts'[k] : a \in attempts[k] \/ (~taken /\ k = j /\ a = row)
  BY <1>1, <1>3 DEF HistoryInv, TypeOK
<1>8. row.no = n /\ row.token = s.token
  OBVIOUS
<1> HIDE DEF row
<1>9. HistoryContiguous' /\ OneRowPerToken'
  <2>1. CASE ~taken
    <3>1. retries' = retries \/ retries' = [retries EXCEPT ![j] = row.no]
      BY <1>3, <1>8
    <3>2. /\ row.no = retries[j] + 1 /\ row.no \notin AttemptNos(j)
          /\ attempts' = [attempts EXCEPT ![j] = @ \cup {row}]
          /\ \A k \in Jobs : \A a \in attempts[k] : a.token # row.token
      BY <1>3, <1>5, <1>8, <2>1
    <3>3. j \in Jobs /\ row \in Attempt
      BY <1>1
    <3> HIDE DEF j
    <3> QED BY <3>1, <3>2, <3>3, AppendKeepsNumbering
  <2>2. CASE taken
    <3>1. attempts' = attempts
      BY <1>3, <2>2
    <3>2. ASSUME NEW k \in Jobs PROVE AttemptNos(k)' \in {1..retries'[k], 1..(retries'[k] + 1)}
      <4>1. AttemptNos(k)' = AttemptNos(k) /\ AttemptNos(k) \in {1..retries[k], 1..(retries[k] + 1)}
        BY <3>1 DEF AttemptNos, HistoryInv, HistoryContiguous
      <4>2. CASE k = j /\ matches
        <5>1. n \notin 1..retries[j] /\ retries'[k] = retries[k] + 1
          BY <1>2, <1>6, <4>2
        <5>2. AttemptNos(k) = 1..(retries[k] + 1)
          BY <2>2, <4>1, <4>2, <5>1
        <5> QED BY <4>1, <5>1, <5>2
      <4>3. CASE k # j \/ ~matches
        BY <1>6, <4>1, <4>3
      <4> QED BY <4>2, <4>3
    <3> QED BY <3>1, <3>2 DEF HistoryInv, HistoryContiguous, OneRowPerToken
  <2> QED BY <2>1, <2>2
<1>10. SnapsTrail'
  <2> SUFFICES ASSUME NEW d \in Claimers, NEW u \in snaps'[d]
               PROVE  /\ u.token <= issued
                      /\ u.retries <= retries'[u.job]
                      /\ \A k \in Jobs : token'[k] = u.token => k = u.job /\ u.retries = retries'[k]
    BY <1>3 DEF SnapsTrail
  <2>1. u \in snaps[d] /\ u.job \in Jobs /\ u.retries \in Nat /\ u.token # NoToken
    BY <1>3 DEF HistoryInv, TypeOK, Snapshot, Tokens, NoToken
  <2>2. u.token <= issued /\ u.retries <= retries[u.job]
    BY <2>1 DEF HistoryInv, SnapsTrail
  <2>3. u.retries <= retries'[u.job]
    BY <1>2, <1>6, <2>1, <2>2
  <2>4. \A k \in Jobs : token'[k] = u.token => k = u.job /\ u.retries = retries'[k]
    BY <1>6, <2>1 DEF HistoryInv, SnapsTrail
  <2> QED BY <2>2, <2>3, <2>4
<1>11. SnapsAgree'
  <2>1. ASSUME NEW d \in Claimers, NEW u \in snaps'[d], NEW k \in Jobs, NEW a \in attempts'[k],
               a.token = u.token
        PROVE  k = u.job /\ a.no = u.retries + 1
    <3>1. u \in snaps[d]
      BY <1>3
    <3>2. CASE a \in attempts[k]
      BY <2>1, <3>1, <3>2 DEF HistoryInv, SnapsAgree
    <3>3. CASE k = j /\ a = row
      <4>1. u = s
        BY <1>8, <2>1, <3>1, <3>3 DEF HistoryInv, SnapsAgree
      <4> QED BY <1>8, <3>3, <4>1
    <3> QED BY <1>7, <3>2, <3>3
  <2>2. \A d, e \in Claimers : \A u \in snaps'[d], v \in snaps'[e] : u.token = v.token => u = v
    BY <1>3 DEF HistoryInv, SnapsAgree
  <2> QED BY <2>1, <2>2 DEF SnapsAgree
<1>12. TokensFresh'
  <2>1. \A k \in Jobs : token'[k] <= issued
    BY <1>2, <1>6 DEF HistoryInv, TokensFresh
  <2>2. \A i, k \in Jobs : token'[i] = token'[k] /\ token'[i] # NoToken => i = k
    BY <1>6 DEF HistoryInv, TokensFresh
  <2>3. ASSUME NEW i \in Jobs, NEW k \in Jobs, NEW a \in attempts'[i]
        PROVE  a.token <= issued /\ a.token # token'[k]
    <3>1. a.token # NoToken
      BY DEF TypeOK, Attempt, Tokens, NoToken
    <3>2. CASE a \in attempts[i]
      BY <1>6, <3>1, <3>2 DEF HistoryInv, TokensFresh
    <3>3. CASE a = row
      BY <1>4, <1>6, <1>8, <3>1, <3>3
    <3> QED BY <1>7, <3>2, <3>3
  <2> QED BY <1>3, <2>1, <2>2, <2>3 DEF TokensFresh
<1> QED BY <1>9, <1>10, <1>11, <1>12 DEF HistoryInv

\* The history invariant is inductive.
LEMMA HistoryStep == HistoryInv /\ [Next]_vars => HistoryInv'
<1> SUFFICES ASSUME HistoryInv, [Next]_vars PROVE HistoryInv'
  OBVIOUS
<1>1. TypeOK /\ TypeOK'
  BY TypeStep DEF HistoryInv
<1>2. ASSUME NEW j \in Jobs, EnqueueJob(j) PROVE HistoryInv'
  BY <1>1, <1>2, QuietKeepsHistory DEF EnqueueJob, QuietStep, claimVars
<1>3. ASSUME NEW original \in Jobs, NEW j \in Jobs, ReprintJob(original, j) PROVE HistoryInv'
  BY <1>1, <1>3, QuietKeepsHistory DEF ReprintJob, QuietStep, claimVars
<1>4. ASSUME NEW c \in Claimers, ClaimStep(c) PROVE HistoryInv'
  <2>1. CASE SelectLapsed(c)
    BY <1>1, <2>1, SelectKeepsHistory
  <2>2. ASSUME NEW s \in snaps[c], RecordExpiredLease(c, s) PROVE HistoryInv'
    BY <1>1, <2>2, FoldKeepsHistory
  <2>3. CASE SelectCandidates(c)
    BY <1>1, <2>3, QuietKeepsHistory DEF SelectCandidates, QuietStep, rowVars
  <2>4. ASSUME NEW j \in Jobs, NEW d \in LeaseTimes, ClaimCandidate(c, j, d) PROVE HistoryInv'
    <3>1. CASE StillUnleased(j)
      BY <1>1, <2>4, <3>1, TokenKeepsHistory DEF ClaimCandidate
    <3>2. CASE ~StillUnleased(j)
      BY <1>1, <2>4, <3>2, QuietKeepsHistory DEF ClaimCandidate, QuietStep
    <3> QED BY <3>1, <3>2
  <2>5. CASE ClaimReturns(c)
    BY <1>1, <2>5, QuietKeepsHistory DEF ClaimReturns, QuietStep, rowVars
  <2> QED BY <1>4, <2>1, <2>2, <2>3, <2>4, <2>5 DEF ClaimStep
<1>5. ASSUME NEW c \in Claimers, HolderStep(c) PROVE HistoryInv'
  <2>1. PICK h \in held[c] :
          \/ \E d \in LeaseTimes : RenewLease(c, h[1], h[2], d)
          \/ \E result \in Results : AckJobV2(c, h[1], h[2], result)
          \/ SpoolRelease(c, h[1], h[2])
          \/ SpoolAck(c, h[1], h[2])
          \/ SpoolAbort(c, h[1], h[2])
    BY <1>5 DEF HolderStep
  <2> DEFINE j == h[1]
             t == h[2]
  <2>2. j \in Jobs /\ t \in Tokens
    BY <1>1 DEF TypeOK
  <2> HIDE DEF j, t
  <2>3. ASSUME NEW d \in LeaseTimes, RenewLease(c, j, t, d) PROVE HistoryInv'
    BY <1>1, <2>3, QuietKeepsHistory DEF RenewLease, QuietStep, claimVars
  <2>4. ASSUME NEW result \in Results, AckJobV2(c, j, t, result) PROVE HistoryInv'
    <3>1. CASE ResolveAttempt(j, t, result)
      BY <1>1, <2>2, <2>4, <3>1, ResolveKeepsHistory DEF AckJobV2, claimVars
    <3>2. CASE ReplayAck(j, t, result)
      BY <1>1, <2>4, <3>2, QuietKeepsHistory DEF AckJobV2, ReplayAck, QuietStep, claimVars, rowVars
    <3> QED BY <2>4, <3>1, <3>2 DEF AckJobV2
  <2>5. CASE SpoolRelease(c, j, t)
    <3>1. CASE token[j] = t
      BY <1>1, <2>2, <2>5, <3>1, TokenKeepsHistory DEF SpoolRelease, claimVars
    <3>2. CASE token[j] # t
      BY <1>1, <2>5, <3>2, QuietKeepsHistory DEF SpoolRelease, QuietStep, claimVars
    <3> QED BY <3>1, <3>2
  <2>6. CASE SpoolAck(c, j, t)
    <3>1. "PRINTED" \in Results
      BY DEF Results
    <3> QED BY <1>1, <2>2, <2>6, <3>1, ResolveKeepsHistory DEF SpoolAck, claimVars
  <2>7. CASE SpoolAbort(c, j, t)
    BY <1>1, <2>7, QuietKeepsHistory DEF SpoolAbort, QuietStep, claimVars, rowVars
  <2> QED BY <2>1, <2>3, <2>4, <2>5, <2>6, <2>7 DEF j, t
<1>6. ASSUME NEW c \in Claimers, Crash(c) PROVE HistoryInv'
  <2>1. snaps' = [snaps EXCEPT ![c] = {}] /\ snaps \in [Claimers -> SUBSET Snapshot]
    BY <1>1, <1>6 DEF Crash, TypeOK
  <2> QED BY <1>1, <1>6, <2>1, QuietKeepsHistory DEF Crash, QuietStep, rowVars
<1>7. ASSUME NEW a \in V1Agents, V1Step(a) PROVE HistoryInv'
  BY <1>1, <1>7, QuietKeepsHistory DEF V1Step, ListPendingJobs, AckJob, QuietStep, claimVars, rowVars
<1>8. CASE Tick
  BY <1>1, <1>8, QuietKeepsHistory DEF Tick, QuietStep, claimVars
<1>9. ASSUME NEW j \in Jobs, WindowElapses(j) PROVE HistoryInv'
  BY <1>1, <1>9, QuietKeepsHistory DEF WindowElapses, QuietStep, claimVars
<1>10. CASE UNCHANGED vars
  BY <1>1, <1>10, QuietKeepsHistory DEF vars, QuietStep, claimVars, rowVars
<1> QED BY <1>2, <1>3, <1>4, <1>5, <1>6, <1>7, <1>8, <1>9, <1>10 DEF Next

\* The history invariant holds in every reachable state.
LEMMA HistoryInductive == Spec => []HistoryInv
<1>1. Init => HistoryInv
  <2> SUFFICES ASSUME Init PROVE HistoryInv
    OBVIOUS
  <2>1. TypeOK
    BY PrintQueueAssumptions DEF Init, TypeOK, NoToken
  <2>2. HistoryContiguous
    <3>1. \A j \in Jobs : AttemptNos(j) = 1..0 /\ retries[j] = 0
      BY DEF Init, AttemptNos
    <3> QED BY <3>1 DEF Init, HistoryContiguous
  <2> QED BY <2>1, <2>2 DEF Init, HistoryInv, OneRowPerToken, SnapsTrail, SnapsAgree, TokensFresh, NoToken
<1> QED BY <1>1, HistoryStep, PTL DEF Spec

\* The numbering of attempts never has a gap or a duplicate and the counter of
\* a job is never ahead of its history, whatever claims, acks, spools, v1 agents
\* and crashes do to each other.
THEOREM HistoryIsContiguous == Spec => []HistoryContiguous
<1>1. HistoryInv => HistoryContiguous
  BY DEF HistoryInv
<1> QED BY <1>1, HistoryInductive, PTL

\* One lease token never leaves two attempt rows behind.
THEOREM TokenLeavesOneRow == Spec => []OneRowPerToken
<1>1. HistoryInv => OneRowPerToken
  BY DEF HistoryInv
<1> QED BY <1>1, HistoryInductive, PTL

-----------------------------------------------------------------------------
(* What acks are answered, and what a live lease and a resolved job are    *)
(* safe from.  Each step is sorted by what it does to the rows.            *)

\* The steps of the queue by their effect on the job rows and the history.
LEMMA StepKinds ==
    ASSUME TypeOK, [Next]_vars
    PROVE  \/ /\ UNCHANGED <<status, token, attempts, retries, answered>>
              /\ \A c \in Claimers : \A s \in snaps'[c] : s \in snaps[c] \/ Lapsed(s.job)
           \/ \E j \in Jobs : /\ status[j] = "ABSENT"
                              /\ status' = [status EXCEPT ![j] = "PENDING"]
                              /\ UNCHANGED <<token, attempts, retries, answered, snaps>>
           \/ \E c \in Claimers : \E s \in snaps[c] : RecordExpiredLease(c, s)
           \/ \E j \in Jobs : /\ StillUnleased(j)
                              /\ token' = [token EXCEPT ![j] = issued + 1]
                              /\ UNCHANGED <<status, attempts, retries, answered, snaps>>
           \/ \E j \in Jobs : /\ token' = [token EXCEPT ![j] = NoToken]
                              /\ UNCHANGED <<status, attempts, retries, answered, snaps>>
           \/ \E j \in Jobs, t \in Tokens, result \in Results :
                 ResolveAttempt(j, t, result) /\ UNCHANGED snaps
           \/ \E j \in Jobs, t \in Tokens, result \in Results :
                 ReplayAck(j, t, result) /\ UNCHANGED snaps
           \/ \E a \in V1Agents, j \in Jobs, result \in Results : AckJob(a, j, result)
<1> DEFINE Quiet == /\ UNCHANGED <<status, token, attempts, retries, answered>>
                    /\ \A c \in Claimers : \A s \in snaps'[c] : s \in snaps[c] \/ Lapsed(s.job)
           Resolve == \E j \in Jobs, t \in Tokens, result \in Results :
                         ResolveAttempt(j, t, result) /\ UNCHANGED snaps
           Replay == \E j \in Jobs, t \in Tokens, result \in Results :
                         ReplayAck(j, t, result) /\ UNCHANGED snaps
           Take == \E j \in Jobs : /\ StillUnleased(j)
                                   /\ token' = [token EXCEPT ![j] = issued + 1]
                                   /\ UNCHANGED <<status, attempts, retries, answered, snaps>>
           GiveBack == \E j \in Jobs : /\ token' = [token EXCEPT ![j] = NoToken]
                                       /\ UNCHANGED <<status, attempts, retries, answered, snaps>>
           New == \E j \in Jobs : /\ status[j] = "ABSENT"
                                  /\ status' = [status EXCEPT ![j] = "PENDING"]
                                  /\ UNCHANGED <<token, attempts, retries, answered, snaps>>
           Fold == \E c \in Claimers : \E s \in snaps[c] : RecordExpiredLease(c, s)
           V1 == \E a \in V1Agents, j \in Jobs, result \in Results : AckJob(a, j, result)
<1> SUFFICES Quiet \/ New \/ Fold \/ Take \/ GiveBack \/ Resolve \/ Replay \/ V1
  OBVIOUS
<1>1. ASSUME NEW j \in Jobs, EnqueueJob(j) PROVE New
  BY <1>1 DEF EnqueueJob, NewRow, claimVars
<1>2. ASSUME NEW original \in Jobs, NEW j \in Jobs, ReprintJob(original, j) PROVE New
  BY <1>2 DEF ReprintJob, NewRow, claimVars
<1>3. ASSUME NEW c \in Claimers, ClaimStep(c) PROVE Quiet \/ Fold \/ Take
  <2>1. CASE SelectLapsed(c)
    <3>1. \A d \in Claimers : \A s \in snaps'[d] : s \in snaps[d] \/ Lapsed(s.job)
      BY <2>1 DEF SelectLapsed, TypeOK
    <3> QED BY <2>1, <3>1 DEF SelectLapsed, rowVars
  <2>3. CASE SelectCandidates(c) \/ ClaimReturns(c)
    BY <2>3 DEF SelectCandidates, ClaimReturns, rowVars
  <2>2. ASSUME NEW j \in Jobs, NEW d \in LeaseTimes, ClaimCandidate(c, j, d) PROVE Quiet \/ Take
    BY <2>2 DEF ClaimCandidate
  <2> QED BY <1>3, <2>1, <2>2, <2>3 DEF ClaimStep
<1>4. ASSUME NEW c \in Claimers, HolderStep(c) PROVE Quiet \/ GiveBack \/ Resolve \/ Replay
  <2>1. PICK h \in held[c] :
          \/ \E d \in LeaseTimes : RenewLease(c, h[1], h[2], d)
          \/ \E result \in Results : AckJobV2(c, h[1], h[2], result)
          \/ SpoolRelease(c, h[1], h[2])
          \/ SpoolAck(c, h[1], h[2])
          \/ SpoolAbort(c, h[1], h[2])
    BY <1>4 DEF HolderStep
  <2> DEFINE j == h[1]
             t == h[2]
  <2>2. j \in Jobs /\ t \in Tokens
    BY DEF TypeOK
  <2> HIDE DEF j, t
  <2>3. ASSUME NEW d \in LeaseTimes, RenewLease(c, j, t, d) PROVE Quiet
    BY <2>3 DEF RenewLease, claimVars
  <2>4. ASSUME NEW result \in Results, AckJobV2(c, j, t, result) PROVE Resolve \/ Replay
    BY <2>2, <2>4 DEF AckJobV2, claimVars
  <2>5. CASE SpoolRelease(c, j, t)
    BY <2>2, <2>5 DEF SpoolRelease, claimVars
  <2>6. CASE SpoolAck(c, j, t)
    <3>1. "PRINTED" \in Results
      BY DEF Results
    <3> QED BY <2>2, <2>6, <3>1 DEF SpoolAck, claimVars
  <2>7. CASE SpoolAbort(c, j, t)
    BY <2>7 DEF SpoolAbort, rowVars, claimVars
  <2> QED BY <2>1, <2>3, <2>4, <2>5, <2>6, <2>7 DEF j, t
<1>5. ASSUME NEW c \in Claimers, Crash(c) PROVE Quiet
  BY <1>5 DEF Crash, rowVars, TypeOK
<1>6. ASSUME NEW a \in V1Agents, V1Step(a) PROVE Quiet \/ V1
  <2>1. CASE ListPendingJobs(a)
    BY <2>1 DEF ListPendingJobs, rowVars, claimVars
  <2> QED BY <1>6, <2>1 DEF V1Step
<1>7. CASE Tick
  BY <1>7 DEF Tick, claimVars
<1>8. ASSUME NEW j \in Jobs, WindowElapses(j) PROVE Quiet
  BY <1>8 DEF WindowElapses, claimVars
<1>9. CASE UNCHANGED vars
  BY <1>9 DEF vars, rowVars, claimVars
<1> HIDE DEF Quiet, New, Fold, Take, GiveBack, Resolve, Replay, V1
<1>10. CASE Tick \/ UNCHANGED vars
  BY <1>7, <1>9, <1>10 DEF Quiet
<1> QED BY <1>1, <1>2, <1>3, <1>4, <1>5, <1>6, <1>8, <1>10 DEF Next

\* AnswerBackedByHistory is inductive: history is only ever added to, and an
\* ack is answered after its row is there.
LEMMA AnswerStep == TypeOK /\ AnswerBackedByHistory /\ [Next]_vars => AnswerBackedByHistory'
<1> SUFFICES ASSUME TypeOK, AnswerBackedByHistory, [Next]_vars PROVE AnswerBackedByHistory'
  OBVIOUS
<1>1. CASE answered' = answered /\ attempts' = attempts
  BY <1>1 DEF AnswerBackedByHistory
<1>2. answered \subseteq Jobs \X Tokens \X Results /\ attempts \in [Jobs -> SUBSET Attempt]
  BY DEF TypeOK
<1>3. ASSUME NEW c \in Claimers, NEW s \in snaps[c], RecordExpiredLease(c, s)
      PROVE  AnswerBackedByHistory'
  <2>1. answered' = answered /\ \A j \in Jobs : attempts[j] \subseteq attempts'[j]
    BY <1>2, <1>3 DEF RecordExpiredLease
  <2> QED BY <1>2, <2>1 DEF AnswerBackedByHistory
<1>4. ASSUME NEW j \in Jobs, NEW t \in Tokens, NEW result \in Results, ResolveAttempt(j, t, result)
      PROVE  AnswerBackedByHistory'
  <2> DEFINE row == [no |-> retries[j] + 1, token |-> t, result |-> result]
  <2>1. /\ answered' = answered \cup {<<j, t, result>>}
        /\ row \in attempts'[j]
        /\ \A k \in Jobs : attempts[k] \subseteq attempts'[k]
    BY <1>2, <1>4 DEF ResolveAttempt
  <2>2. row.token = t /\ row.result = result
    OBVIOUS
  <2> HIDE DEF row
  <2> QED BY <1>2, <2>1, <2>2 DEF AnswerBackedByHistory
<1>5. ASSUME NEW j \in Jobs, NEW t \in Tokens, NEW result \in Results, ReplayAck(j, t, result)
      PROVE  AnswerBackedByHistory'
  BY <1>5 DEF ReplayAck, AnswerBackedByHistory
<1>6. ASSUME NEW a \in V1Agents, NEW j \in Jobs, NEW result \in Results, AckJob(a, j, result)
      PROVE  AnswerBackedByHistory'
  BY <1>1, <1>6 DEF AckJob
<1> QED BY <1>1, <1>3, <1>4, <1>5, <1>6, StepKinds

\* Every ack answered 200, replays included, is backed by an attempt row of
\* that token and that result from then on.
THEOREM AnswersAreBacked == Spec => []AnswerBackedByHistory
<1>1. Init => AnswerBackedByHistory
  BY DEF Init, AnswerBackedByHistory
<1> QED BY <1>1, AnswerStep, TypeCorrect, PTL DEF Spec

\* No claim of another agent or spool replaces the token of a live lease.
THEOREM LeaseIsSafe == Spec => LiveLeaseNotStolen
<1>1. TypeOK /\ [Next]_vars =>
        [\A j \in Jobs : Claimed(j) /\ token'[j] # token[j] => token'[j] = NoToken]_vars
  <2> SUFFICES ASSUME TypeOK, [Next]_vars, NEW j \in Jobs, Claimed(j), token'[j] # token[j]
               PROVE  token'[j] = NoToken
    OBVIOUS
  <2>1. token \in [Jobs -> Tokens \cup {NoToken}]
    BY DEF TypeOK
  <2>2. ASSUME NEW c \in Claimers, NEW s \in snaps[c], RecordExpiredLease(c, s)
        PROVE  token'[j] = NoToken
    BY <2>1, <2>2 DEF RecordExpiredLease
  <2>3. ASSUME NEW k \in Jobs, StillUnleased(k), token' = [token EXCEPT ![k] = issued + 1]
        PROVE  FALSE
    BY <2>1, <2>3 DEF StillUnleased, Claimed
  <2>4. ASSUME NEW k \in Jobs, token' = [token EXCEPT ![k] = NoToken]
        PROVE  token'[j] = NoToken
    BY <2>1, <2>4
  <2>5. ASSUME NEW k \in Jobs, NEW t \in Tokens, NEW result \in Results, ResolveAttempt(k, t, result)
        PROVE  token'[j] = NoToken
    BY <2>4, <2>5 DEF ResolveAttempt
  <2>6. ASSUME NEW k \in Jobs, NEW t \in Tokens, NEW result \in Results, ReplayAck(k, t, result)
        PROVE  FALSE
    BY <2>6 DEF ReplayAck, rowVars
  <2>7. ASSUME NEW a \in V1Agents, NEW k \in Jobs, NEW result \in Results, AckJob(a, k, result)
        PROVE  FALSE
    BY <2>7 DEF AckJob
  <2> QED BY <2>2, <2>3, <2>4, <2>5, <2>6, <2>7, StepKinds
<1> QED BY <1>1, TypeCorrect, PTL DEF Spec, LiveLeaseNotStolen

-----------------------------------------------------------------------------
(* Resolution.  OpenIsUndecided is about open jobs only and is not         *)
(* inductive: a lapsed lease folded late may still count up the retries of *)
(* a job a v1 agent resolved meanwhile.  Decided says what a deciding row  *)
(* leaves behind: a job that is resolved for good and carries no token.    *)

Decided(j) ==
    \A a \in attempts[j] :
        /\ a.result = "PRINTED" => /\ a.no = retries[j] /\ token[j] = NoToken
                                   /\ status[j] \in Results
        /\ a.result = "FAILED" /\ a.no >= MaxPrintAttempts => status[j] \in Results

ResolutionInv == \A j \in Jobs : Decided(j)

\* A job whose row and history did not change is as decided as before, also
\* when it is acked by a v1 agent, created, or gives up its token.
LEMMA SameRowDecided ==
    ASSUME NEW j \in Jobs, Decided(j), retries'[j] = retries[j], attempts'[j] = attempts[j],
           token'[j] \in {token[j], NoToken},
           status'[j] = status[j] \/ status'[j] \in Results \/ status[j] \notin Results
    PROVE  Decided(j)'
BY DEF Decided

\* Resolving an attempt keeps the resolution invariant.
LEMMA ResolveKeepsResolution ==
    ASSUME TypeOK, ResolutionInv, NEW j \in Jobs, NEW t \in Tokens, NEW result \in Results,
           ResolveAttempt(j, t, result)
    PROVE  ResolutionInv'
<1> DEFINE r == retries[j] + 1
           row == [no |-> r, token |-> t, result |-> result]
<1>1. /\ status \in [Jobs -> {"ABSENT", "PENDING"} \cup Results] /\ retries \in [Jobs -> Nat]
      /\ token \in [Jobs -> Tokens \cup {NoToken}] /\ attempts \in [Jobs -> SUBSET Attempt]
  BY DEF TypeOK
<1>2. /\ status[j] = "PENDING"
      /\ attempts'[j] = attempts[j] \cup {row} /\ status'[j] = Outcome(r, result)
      /\ retries'[j] = r /\ token'[j] = NoToken
      /\ \A k \in Jobs \ {j} : /\ status'[k] = status[k] /\ retries'[k] = retries[k]
                               /\ attempts'[k] = attempts[k] /\ token'[k] = token[k]
  BY <1>1 DEF ResolveAttempt, Claimed
<1>3. row.no = r /\ row.result = result
  OBVIOUS
<1>4. \A a \in attempts[j] : a.result # "PRINTED" /\ ~(a.result = "FAILED" /\ a.no >= MaxPrintAttempts)
  BY <1>2 DEF ResolutionInv, Decided, Results
<1>5. /\ result = "PRINTED" => status'[j] \in Results
      /\ result = "FAILED" /\ r >= MaxPrintAttempts => status'[j] \in Results
  BY <1>2 DEF Outcome, Results
<1> HIDE DEF row
<1>6. Decided(j)'
  BY <1>2, <1>3, <1>4, <1>5 DEF Decided
<1>7. ASSUME NEW k \in Jobs, k # j PROVE Decided(k)'
  BY <1>2, <1>7, SameRowDecided DEF ResolutionInv
<1> QED BY <1>6, <1>7 DEF ResolutionInv

\* Folding a lapsed lease keeps the resolution invariant: the counter moves
\* only while the row carries a token, and then nothing has printed.
LEMMA FoldKeepsResolution ==
    ASSUME TypeOK, ResolutionInv, NEW c \in Claimers, NEW s \in snaps[c], RecordExpiredLease(c, s)
    PROVE  ResolutionInv'
<1> DEFINE j == s.job
           row == [no |-> ExpiredAttemptNo(s), token |-> s.token, result |-> "LEASE_EXPIRED"]
<1>1. /\ status' = status /\ retries \in [Jobs -> Nat]
      /\ token \in [Jobs -> Tokens \cup {NoToken}] /\ attempts \in [Jobs -> SUBSET Attempt]
      /\ j \in Jobs /\ s.token # NoToken
  BY DEF TypeOK, Snapshot, Tokens, NoToken, RecordExpiredLease
<1>2. /\ attempts'[j] \in {attempts[j], attempts[j] \cup {row}}
      /\ token[j] # s.token => retries'[j] = retries[j]
      /\ token'[j] \in {token[j], NoToken}
      /\ \A k \in Jobs \ {j} : /\ retries'[k] = retries[k] /\ token'[k] = token[k]
                               /\ attempts'[k] = attempts[k]
  BY <1>1 DEF RecordExpiredLease
<1>3. row.result = "LEASE_EXPIRED"
  OBVIOUS
<1> HIDE DEF row
<1>4. Decided(j)'
  <2> SUFFICES ASSUME NEW a \in attempts'[j], a.result # "LEASE_EXPIRED"
               PROVE /\ a.result = "PRINTED" => /\ a.no = retries'[j] /\ token'[j] = NoToken
                                                /\ status'[j] \in Results
                     /\ a.result = "FAILED" /\ a.no >= MaxPrintAttempts => status'[j] \in Results
    BY DEF Decided
  <2>1. a \in attempts[j]
    BY <1>2, <1>3
  <2>2. CASE a.result = "PRINTED"
    <3>1. a.no = retries[j] /\ token[j] = NoToken /\ status[j] \in Results
      BY <1>1, <2>1, <2>2 DEF ResolutionInv, Decided
    <3> QED BY <1>1, <1>2, <2>2, <3>1
  <2>3. CASE a.result = "FAILED" /\ a.no >= MaxPrintAttempts
    BY <1>1, <2>1, <2>3 DEF ResolutionInv, Decided
  <2> QED BY <2>2, <2>3
<1>5. ASSUME NEW k \in Jobs, k # j PROVE Decided(k)'
  BY <1>1, <1>2, <1>5, SameRowDecided DEF ResolutionInv
<1> QED BY <1>4, <1>5 DEF ResolutionInv

\* The resolution invariant is inductive.
LEMMA ResolutionStep == TypeOK /\ ResolutionInv /\ [Next]_vars => ResolutionInv'
<1> SUFFICES ASSUME TypeOK, ResolutionInv, [Next]_vars PROVE ResolutionInv'
  OBVIOUS
<1>1. /\ status \in [Jobs -> {"ABSENT", "PENDING"} \cup Results]
      /\ token \in [Jobs -> Tokens \cup {NoToken}]
  BY DEF TypeOK
<1>2. CASE UNCHANGED <<status, token, attempts, retries>>
  BY <1>2 DEF ResolutionInv, Decided
<1>3. ASSUME NEW j \in Jobs, status[j] = "ABSENT", status' = [status EXCEPT ![j] = "PENDING"],
             UNCHANGED <<token, attempts, retries>>
      PROVE  ResolutionInv'
  <2>1. ASSUME NEW k \in Jobs PROVE Decided(k)'
    <3>1. status'[k] = status[k] \/ status[k] \notin Results
      BY <1>1, <1>3 DEF Results
    <3> QED BY <1>3, <3>1, SameRowDecided DEF ResolutionInv
  <2> QED BY <2>1 DEF ResolutionInv
<1>4. ASSUME NEW j \in Jobs, StillUnleased(j), token' = [token EXCEPT ![j] = issued + 1],
             UNCHANGED <<status, attempts, retries>>
      PROVE  ResolutionInv'
  <2>1. \A a \in attempts[j] : a.result # "PRINTED"
    BY <1>4 DEF ResolutionInv, Decided, StillUnleased, Results
  <2>2. Decided(j)'
    BY <1>4, <2>1 DEF ResolutionInv, Decided
  <2>3. ASSUME NEW k \in Jobs, k # j PROVE Decided(k)'
    BY <1>1, <1>4, <2>3, SameRowDecided DEF ResolutionInv
  <2> QED BY <2>2, <2>3 DEF ResolutionInv
<1>5. ASSUME NEW j \in Jobs, token' = [token EXCEPT ![j] = NoToken],
             UNCHANGED <<status, attempts, retries>>
      PROVE  ResolutionInv'
  <2>1. ASSUME NEW k \in Jobs PROVE Decided(k)'
    BY <1>1, <1>5, SameRowDecided DEF ResolutionInv
  <2> QED BY <2>1 DEF ResolutionInv
<1>6. ASSUME NEW j \in Jobs, NEW t \in Tokens, NEW result \in Results, ReplayAck(j, t, result)
      PROVE  ResolutionInv'
  BY <1>2, <1>6 DEF ReplayAck, rowVars
<1>7. ASSUME NEW a \in V1Agents, NEW j \in Jobs, NEW result \in Results, AckJob(a, j, result)
      PROVE  ResolutionInv'
  <2>1. ASSUME NEW k \in Jobs PROVE Decided(k)'
    <3>1. status'[k] = status[k] \/ status'[k] \in Results
      BY <1>1, <1>7 DEF AckJob
    <3> QED BY <1>7, <3>1, SameRowDecided DEF AckJob, ResolutionInv
  <2> QED BY <2>1 DEF ResolutionInv
<1> QED BY <1>2, <1>3, <1>4, <1>5, <1>6, <1>7, ResolveKeepsResolution, FoldKeepsResolution, StepKinds

\* The history decides a job: a PRINTED row is the last attempt counted, and an
\* open job has only lapsed leases and failures that left an attempt, whatever
\* v2 agents, spools and v1 agents do.
THEOREM HistoryDecides == Spec => []OpenIsUndecided
<1>1. Init => ResolutionInv
  BY DEF Init, ResolutionInv, Decided
<1>2. TypeOK /\ ResolutionInv => OpenIsUndecided
  <2> SUFFICES ASSUME TypeOK, ResolutionInv, NEW j \in Jobs, NEW a \in attempts[j]
               PROVE  /\ a.result = "PRINTED" => a.no = retries[j]
                      /\ status[j] = "PENDING" =>
                           a.result = "LEASE_EXPIRED" \/ (a.result = "FAILED" /\ a.no < MaxPrintAttempts)
    BY DEF OpenIsUndecided
  <2>1. a.no \in Nat /\ MaxPrintAttempts \in Nat /\ a.result \in Results \cup {"LEASE_EXPIRED"}
    BY PrintQueueAssumptions DEF TypeOK, Attempt
  <2>2. /\ a.result = "PRINTED" => a.no = retries[j] /\ status[j] \in Results
        /\ a.result = "FAILED" /\ a.no >= MaxPrintAttempts => status[j] \in Results
    BY DEF ResolutionInv, Decided
  <2> QED BY <2>1, <2>2 DEF Results
<1> QED BY <1>1, <1>2, ResolutionStep, TypeCorrect, PTL DEF Spec

\* The lease protocol never rewrites a resolved job, and a status it writes is
\* the result of the attempt row it appends in that step.
THEOREM StatusIsTheAttempts == Spec => StatusFollowsAttempt
<1> DEFINE Follows(j) ==
      status[j] # "ABSENT" /\ status'[j] # status[j] /\ ~AckedByV1(j) =>
         /\ status[j] = "PENDING"
         /\ \E a \in attempts'[j] \ attempts[j] :
              /\ a.result = status'[j]
              /\ status'[j] = "FAILED" => a.no >= MaxPrintAttempts
<1>1. TypeOK /\ [Next]_vars => \A j \in Jobs : Follows(j)
  <2> SUFFICES ASSUME TypeOK, [Next]_vars, NEW j \in Jobs, status[j] # "ABSENT",
                      status'[j] # status[j], ~AckedByV1(j)
               PROVE  /\ status[j] = "PENDING"
                      /\ \E a \in attempts'[j] \ attempts[j] :
                           /\ a.result = status'[j]
                           /\ status'[j] = "FAILED" => a.no >= MaxPrintAttempts
    OBVIOUS
  <2>1. /\ status \in [Jobs -> {"ABSENT", "PENDING"} \cup Results] /\ retries \in [Jobs -> Nat]
        /\ attempts \in [Jobs -> SUBSET Attempt] /\ seenV1 \in [V1Agents -> SUBSET Jobs]
    BY DEF TypeOK
  <2>2. ASSUME NEW k \in Jobs, status[k] = "ABSENT", status' = [status EXCEPT ![k] = "PENDING"]
        PROVE  FALSE
    BY <2>1, <2>2
  <2>3. ASSUME NEW c \in Claimers, NEW s \in snaps[c], RecordExpiredLease(c, s)
        PROVE  FALSE
    BY <2>3 DEF RecordExpiredLease
  <2>4. ASSUME NEW k \in Jobs, NEW t \in Tokens, NEW result \in Results, ReplayAck(k, t, result)
        PROVE  FALSE
    BY <2>4 DEF ReplayAck, rowVars
  <2>5. ASSUME NEW v \in V1Agents, NEW k \in Jobs, NEW result \in Results, AckJob(v, k, result)
        PROVE  FALSE
    <3>1. k = j
      BY <2>1, <2>5 DEF AckJob
    <3>2. j \in seenV1[v] /\ j \notin seenV1'[v]
      BY <2>1, <2>5, <3>1 DEF AckJob
    <3> QED BY <3>2 DEF AckedByV1
  <2>6. ASSUME NEW k \in Jobs, NEW t \in Tokens, NEW result \in Results, ResolveAttempt(k, t, result)
        PROVE  /\ status[j] = "PENDING"
               /\ \E a \in attempts'[j] \ attempts[j] :
                    /\ a.result = status'[j]
                    /\ status'[j] = "FAILED" => a.no >= MaxPrintAttempts
    <3> DEFINE r == retries[j] + 1
               row == [no |-> r, token |-> t, result |-> result]
    <3>1. k = j
      BY <2>1, <2>6 DEF ResolveAttempt
    <3>2. /\ status[j] = "PENDING" /\ r \notin AttemptNos(j)
          /\ attempts'[j] = attempts[j] \cup {row} /\ status'[j] = Outcome(r, result)
      BY <2>1, <2>6, <3>1 DEF ResolveAttempt, NumberIsFree, Claimed
    <3>3. row.no = r /\ row.result = result
      OBVIOUS
    <3> HIDE DEF row
    <3>4. row \in attempts'[j] \ attempts[j]
      BY <3>2, <3>3 DEF AttemptNos
    <3>5. row.result = status'[j] /\ (status'[j] = "FAILED" => row.no >= MaxPrintAttempts)
      BY <3>2, <3>3 DEF Outcome, Results
    <3> QED BY <3>2, <3>4, <3>5
  <2> QED BY <2>2, <2>3, <2>4, <2>5, <2>6, StepKinds
<1>2. TypeOK /\ [Next]_vars => [\A j \in Jobs : Follows(j)]_vars
  BY <1>1
<1> QED BY <1>2, TypeCorrect, PTL DEF Spec, StatusFollowsAttempt
=============================================================================
