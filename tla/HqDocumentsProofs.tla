------------------------- MODULE HqDocumentsProofs -------------------------
(***************************************************************************)
(* What is proved of the stock posting service and of the HQ documents     *)
(* built on it, for every set of warehouses, lots, documents, drafts,      *)
(* users and callers.                                                      *)
(*                                                                         *)
(* The first part is about the posting service alone and serves whatever   *)
(* documents are built on it (ProductionProofs uses it too): the steps by  *)
(* what they do to the ledger and to the requests, and the invariant they  *)
(* keep.  K is the set of slots of the documents at hand.  The second part *)
(* is about the documents: which plan is in flight or posted under a key,  *)
(* and what the document's rows say of it.  Only the shape of the state    *)
(* (the domains of functions and records) is carried along in both.        *)
(***************************************************************************)
EXTENDS HqDocuments, SumTheorems, TLAPS

CallFields == {"slot", "id", "plan", "rest", "done", "version", "phase"}

\* The shape of the requests, each on a slot in K.
CallShape(K) ==
    /\ DOMAIN call = Callers
    /\ \A c \in Callers : DOMAIN call[c] = CallFields
    /\ \A c \in Callers : IF call[c].phase = "idle" THEN call[c].slot = NoSlot
                          ELSE call[c].slot \in K
    /\ \A c \in Callers : \A t \in call[c].rest : t.slot \in K
LedgerShape ==
    /\ DOMAIN posting = Slots /\ DOMAIN doc = Slots
    /\ \A s \in Slots : DOMAIN doc[s] = {"state", "id"}

\* A posted slot's document is POSTED; a request that was told its plan is
\* posted holds the plan that is.
Claimed == \A s \in Slots : posting[s] # {} => doc[s].state = "POSTED"
Answer ==
    \A c \in Callers : call[c].phase = "posted" =>
        posting[call[c].slot] = call[c].plan /\ call[c].plan # {}
LedgerInv(K) == CallShape(K) /\ LedgerShape /\ Claimed /\ Answer

\* No document is posted under no slot.
LEMMA NoSlotIsNone == NoSlot \notin Slots
BY StockAssumptions DEF NoSlot, RouteClass

-----------------------------------------------------------------------------
(* The steps, by what they do to the ledger and to the requests.           *)

\* A step of the desk: nothing of the ledger changes, or documents are ensured.
Opened ==
    DOMAIN doc' = Slots /\ \A t \in Slots : doc'[t] = doc[t] \/ doc'[t] = Ensured(t)
Still == (doc' = doc \/ Opened) /\ posting' = posting /\ call' = call

\* One request is answered, and possibly its plan committed just now.
Answering(c) ==
    /\ \E p \in {"posted", "refused"} : Answered(c, p)
    /\ call[c].phase = "prepared"
    /\ posting' = posting /\ doc' = doc
    /\ call'[c].phase = "posted" =>
         posting[call[c].slot] = call[c].plan /\ call[c].plan # {}
Committing(c) ==
    /\ \E p \in {"posted", "refused"} : Answered(c, p)
    /\ call[c].plan # {} /\ posting[call[c].slot] = {}
    /\ posting' = [posting EXCEPT ![call[c].slot] = call[c].plan]
    /\ doc' = [doc EXCEPT ![call[c].slot].state = "POSTED"]
    /\ call[c].phase = "prepared"

\* One request ends; only documents nothing is posted against may go.
Ending(c) ==
    /\ Finished(c) /\ posting' = posting
    /\ \/ doc' = doc
       \/ \E d \in SUBSET Slots :
            doc' = Deleted(d) /\ \A s \in d : doc[s].state = "OPEN"

\* One request starts on slots in S, or goes on to one of them.
Starting(c, S) ==
    /\ posting' = posting
    /\ \E s \in S : \E plan, more, version :
         Prepared(c, s, plan, more, version) /\ \A x \in more : x[1] \in S
Continuing(c, S) ==
    /\ posting' = posting /\ doc' = doc
    /\ \E t \in call[c].rest : \E done :
         /\ t.slot \in S
         /\ call' = [call EXCEPT ![c] =
              [slot |-> t.slot, id |-> t.id, plan |-> t.plan, rest |-> call[c].rest \ {t},
               done |-> done, version |-> call[c].version, phase |-> "prepared"]]

Passing == Still \/ \E c \in Callers : Answering(c) \/ Committing(c) \/ Ending(c)
LedgerStep(S) == Passing \/ \E c \in Callers : Starting(c, S) \/ Continuing(c, S)

LEMMA CompensateEnds ==
    ASSUME LedgerShape, NEW c \in Callers, Compensate(c)
    PROVE  Ending(c)
<1> DEFINE gone == {x \in Tasks(c) : doc[x.slot] = [state |-> "OPEN", id |-> x.id]}
           d == {t.slot : t \in gone} \cap Slots
<1>1. doc' = Deleted({t.slot : t \in gone}) BY DEF Compensate
<1>2. Deleted({t.slot : t \in gone}) = Deleted(d) BY DEF Deleted
<1>3. ASSUME NEW s \in d PROVE doc[s].state = "OPEN"
  <2>1. PICK t \in gone : s = t.slot OBVIOUS
  <2>2. doc[t.slot] = [state |-> "OPEN", id |-> t.id] OBVIOUS
  <2>3. [state |-> "OPEN", id |-> t.id].state = "OPEN" OBVIOUS
  <2> HIDE DEF gone, d
  <2> QED BY <2>1, <2>2, <2>3
<1>4. d \in SUBSET Slots OBVIOUS
<1> HIDE DEF d, gone
<1> QED BY <1>1, <1>2, <1>3, <1>4 DEF Ending, Compensate

LEMMA PostingSteps ==
    ASSUME NEW K, LedgerShape, CallShape(K), PostingNext \/ \E c \in Callers : Compensate(c)
    PROVE  Passing
<1>1. ASSUME NEW c \in Callers, Post(c) \/ PostLost(c) PROVE Committing(c)
  BY <1>1 DEF Post, PostLost, Commit, Committing
<1>2. ASSUME NEW c \in Callers, PostReplay(c) PROVE Answering(c)
  BY <1>2 DEF PostReplay, Replayable, Answering, Answered
<1>3. ASSUME NEW c \in Callers, PostRefused(c) PROVE Answering(c)
  <2>1. call'[c].phase = "refused"
    BY <1>3 DEF PostRefused, Answered, CallShape, CallFields
  <2> QED BY <1>3, <2>1 DEF PostRefused, Answering
<1>4. ASSUME NEW c \in Callers, Crash(c) PROVE Ending(c)
  BY <1>4 DEF Crash, Ending
<1>5. CASE NextDay BY <1>5 DEF NextDay, Passing, Still
<1> QED BY <1>1, <1>2, <1>3, <1>4, <1>5, CompensateEnds DEF PostingNext, Passing

LEMMA LedgerStepWidens ==
    ASSUME NEW T, NEW S \in SUBSET T, LedgerStep(S) PROVE LedgerStep(T)
<1>1. ASSUME NEW c \in Callers, Starting(c, S) PROVE Starting(c, T)
  <2>1. PICK s \in S : \E plan, more, v :
                  Prepared(c, s, plan, more, v) /\ \A x \in more : x[1] \in S
    BY <1>1 DEF Starting
  <2>2. PICK plan, more, v : Prepared(c, s, plan, more, v) /\ \A x \in more : x[1] \in S
    BY <2>1
  <2>3. s \in T /\ \A x \in more : x[1] \in T BY <2>2
  <2>4. posting' = posting BY <1>1 DEF Starting
  <2> QED BY <2>2, <2>3, <2>4 DEF Starting
<1>2. ASSUME NEW c \in Callers, Continuing(c, S) PROVE Continuing(c, T)
  BY <1>2 DEF Continuing
<1> QED BY <1>1, <1>2 DEF LedgerStep

-----------------------------------------------------------------------------
(* The invariant.                                                          *)

\* How each kind of step leaves the requests.
LEMMA AnsweredCall ==
    ASSUME NEW K, CallShape(K), NEW c \in Callers, Answering(c) \/ Committing(c)
    PROVE  /\ DOMAIN call' = Callers /\ DOMAIN call'[c] = CallFields
           /\ call'[c].slot = call[c].slot /\ call'[c].plan = call[c].plan
           /\ call'[c].version = call[c].version /\ call'[c].phase # "idle"
           /\ call'[c].rest = call[c].rest /\ call[c].phase = "prepared"
           /\ \A k \in Callers \ {c} : call'[k] = call[k]
<1> PICK p \in {"posted", "refused"} : call' = [call EXCEPT ![c].phase = p]
  BY DEF Answering, Committing, Answered
<1>1. call[c].phase = "prepared" BY DEF Answering, Committing
<1> QED BY <1>1 DEF CallShape, CallFields

LEMMA EndedCall ==
    ASSUME NEW K, CallShape(K), NEW c \in Callers, Finished(c)
    PROVE  /\ DOMAIN call' = Callers /\ call'[c] = Idle
           /\ \A k \in Callers \ {c} : call'[k] = call[k]
BY DEF Finished, CallShape

LEMMA IdleCall ==
    /\ DOMAIN Idle = CallFields /\ Idle.slot = NoSlot /\ Idle.phase = "idle"
    /\ Idle.rest = {}
BY DEF Idle, CallFields

\* A request that starts on slot s leaves with its plan; the others go on.
LEMMA StartsWith ==
    ASSUME NEW K, CallShape(K), NEW c \in Callers, NEW s, NEW plan, NEW more, NEW v,
           Prepared(c, s, plan, more, v)
    PROVE  /\ DOMAIN call' = Callers /\ DOMAIN call'[c] = CallFields
           /\ call'[c].slot = s /\ call'[c].plan = plan /\ call'[c].phase = "prepared"
           /\ call'[c].rest = {TaskFor(x[1], x[2]) : x \in more}
           /\ \A k \in Callers \ {c} : call'[k] = call[k]
BY DEF CallShape, CallFields, Prepared

LEMMA TakenCall ==
    ASSUME NEW K, CallShape(K), NEW S, NEW c \in Callers,
           Starting(c, S) \/ Continuing(c, S)
    PROVE  /\ DOMAIN call' = Callers /\ DOMAIN call'[c] = CallFields
           /\ call'[c].slot \in S /\ call'[c].phase = "prepared"
           /\ \A t \in call'[c].rest : t.slot \in S \/ t \in call[c].rest
           /\ \A k \in Callers \ {c} : call'[k] = call[k]
<1>1. CASE Starting(c, S)
  <2>0. PICK s \in S : \E plan, more, v :
                  Prepared(c, s, plan, more, v) /\ \A x \in more : x[1] \in S
    BY <1>1 DEF Starting
  <2>1. PICK plan, more, v : Prepared(c, s, plan, more, v) /\ \A x \in more : x[1] \in S
    BY <2>0
  <2>2. \A x : TaskFor(x[1], x[2]).slot = x[1] BY DEF TaskFor
  <2>3. \A t \in call'[c].rest : t.slot \in S BY <2>1, <2>2, StartsWith
  <2> QED BY <2>1, <2>3, StartsWith
<1>2. CASE Continuing(c, S) BY <1>2 DEF Continuing, CallShape, CallFields
<1> QED BY <1>1, <1>2

LEMMA CallShapeKept ==
    ASSUME NEW K, CallShape(K), LedgerStep(K) PROVE CallShape(K)'
<1>1. CASE Still BY <1>1 DEF Still, CallShape
<1>2. ASSUME NEW c \in Callers, Answering(c) \/ Committing(c) PROVE CallShape(K)'
  BY <1>2, AnsweredCall DEF CallShape
<1>3. ASSUME NEW c \in Callers, Ending(c) PROVE CallShape(K)'
  <2>1. Finished(c) BY <1>3 DEF Ending
  <2> QED BY <2>1, IdleCall, EndedCall DEF CallShape
<1>4. ASSUME NEW c \in Callers, Starting(c, K) \/ Continuing(c, K) PROVE CallShape(K)'
  BY <1>4, TakenCall DEF CallShape
<1> QED BY <1>1, <1>2, <1>3, <1>4 DEF LedgerStep, Passing

\* How each kind of step leaves the ledger: a posting or its document's state
\* changes only by the commit that makes the posting.
LEMMA LedgerAfter ==
    ASSUME NEW K, CallShape(K), LedgerShape, Claimed, NEW S, LedgerStep(S)
    PROVE  LedgerShape' /\ Claimed' /\
           \A s \in Slots : posting[s] # {} =>
              posting'[s] = posting[s] /\ doc'[s].state = "POSTED"
<1> DEFINE Goal == /\ LedgerShape' /\ Claimed'
                   /\ \A s \in Slots : posting[s] # {} =>
                        posting'[s] = posting[s] /\ doc'[s].state = "POSTED"
<1> SUFFICES Goal OBVIOUS
<1>1. ASSUME posting' = posting, doc' = doc PROVE Goal
  BY <1>1 DEF LedgerShape, Claimed
<1>2. ASSUME NEW c \in Callers, Committing(c) PROVE Goal
  <2>1. DOMAIN posting' = Slots /\ DOMAIN doc' = Slots
    BY <1>2 DEF Committing, LedgerShape
  <2>2. ASSUME NEW s \in Slots, s = call[c].slot
        PROVE  /\ posting'[s] = call[c].plan /\ doc'[s].state = "POSTED"
               /\ DOMAIN doc'[s] = {"state", "id"}
    BY <1>2, <2>2 DEF Committing, LedgerShape
  <2>3. ASSUME NEW s \in Slots, s # call[c].slot
        PROVE  posting'[s] = posting[s] /\ doc'[s] = doc[s]
    BY <1>2, <2>3 DEF Committing, LedgerShape
  <2>4. posting[call[c].slot] = {} BY <1>2 DEF Committing
  <2> QED BY <2>1, <2>2, <2>3, <2>4 DEF LedgerShape, Claimed
<1>3. ASSUME NEW c \in Callers, Ending(c), doc' # doc PROVE Goal
  <2>1. PICK d \in SUBSET Slots : doc' = Deleted(d) /\ \A s \in d : doc[s].state = "OPEN"
    BY <1>3 DEF Ending
  <2>2. posting' = posting BY <1>3 DEF Ending
  <2>3. ASSUME NEW s \in Slots
        PROVE  DOMAIN doc'[s] = {"state", "id"} /\ (s \notin d => doc'[s] = doc[s])
    BY <2>1 DEF Deleted, LedgerShape
  <2>4. DOMAIN doc' = Slots BY <2>1 DEF Deleted
  <2>5. \A s \in d : posting[s] = {} BY <2>1 DEF Claimed
  <2> QED BY <2>2, <2>3, <2>4, <2>5 DEF LedgerShape, Claimed
<1>4. ASSUME Opened, posting' = posting PROVE Goal
  <2>1. ASSUME NEW t \in Slots
        PROVE  DOMAIN doc'[t] = {"state", "id"} /\ (doc[t].state = "POSTED" => doc'[t] = doc[t])
    BY <1>4 DEF Opened, Ensured, LedgerShape
  <2> QED BY <1>4, <2>1 DEF Opened, LedgerShape, Claimed
<1> HIDE DEF Goal
<1>5. ASSUME NEW c \in Callers, Ending(c) PROVE Goal
  BY <1>1, <1>3, <1>5 DEF Ending
<1>6. ASSUME NEW c \in Callers, Answering(c) \/ Continuing(c, S) PROVE Goal
  BY <1>1, <1>6 DEF Answering, Continuing
<1>7. CASE Still BY <1>1, <1>4, <1>7 DEF Still
<1>8. ASSUME NEW c \in Callers, Starting(c, S) PROVE Goal
  <2>0. PICK s \in S : \E plan, more, v : Prepared(c, s, plan, more, v)
    BY <1>8 DEF Starting
  <2>1. PICK plan, more, v : Prepared(c, s, plan, more, v) BY <2>0
  <2>2. Opened BY <2>1 DEF Prepared, Opened
  <2> QED BY <1>4, <1>8, <2>2 DEF Starting
<1> QED BY <1>2, <1>5, <1>6, <1>7, <1>8 DEF LedgerStep, Passing

LEMMA AnswerKept ==
    ASSUME NEW K \in SUBSET Slots, LedgerInv(K), LedgerStep(K) PROVE Answer'
<1>0. CallShape(K) /\ LedgerShape /\ Claimed /\ Answer BY DEF LedgerInv
<1>1. CASE Still BY <1>0, <1>1 DEF Still, Answer
<1>2. ASSUME NEW c \in Callers, Answering(c) PROVE Answer'
  <2>1. posting' = posting BY <1>2 DEF Answering
  <2>2. call'[c].phase = "posted" =>
          posting[call[c].slot] = call[c].plan /\ call[c].plan # {}
    BY <1>2 DEF Answering
  <2> QED BY <1>0, <1>2, <2>1, <2>2, AnsweredCall DEF Answer
<1>3. ASSUME NEW c \in Callers, Committing(c) PROVE Answer'
  <2>1. posting' = [posting EXCEPT ![call[c].slot] = call[c].plan] /\ call[c].plan # {}
    BY <1>3 DEF Committing
  <2>2. \A k \in Callers \ {c} : call'[k] = call[k] BY <1>0, <1>3, AnsweredCall
  <2>3. /\ call'[c].slot = call[c].slot /\ call'[c].plan = call[c].plan
        /\ call[c].phase = "prepared"
    BY <1>0, <1>3, AnsweredCall
  <2>4. call[c].slot \in Slots BY <1>0, <2>3 DEF CallShape
  <2>5. posting'[call'[c].slot] = call'[c].plan
    BY <1>0, <2>1, <2>3, <2>4 DEF LedgerShape
  <2>6. ASSUME NEW k \in Callers \ {c}, call'[k].phase = "posted"
        PROVE  posting'[call'[k].slot] = call'[k].plan /\ call'[k].plan # {}
    <3>1. call[k].phase = "posted" BY <2>2, <2>6
    <3>2. posting[call[k].slot] = call[k].plan /\ call[k].plan # {}
      BY <1>0, <3>1 DEF Answer
    <3>3. call[k].slot \in Slots BY <1>0, <3>1 DEF CallShape
    <3>4. posting'[call[k].slot] = posting[call[k].slot]
      BY <1>0, <3>2, <3>3, LedgerAfter
    <3> QED BY <2>2, <3>2, <3>4
  <2> QED BY <2>1, <2>3, <2>5, <2>6 DEF Answer
<1>4. ASSUME NEW c \in Callers, Ending(c) PROVE Answer'
  <2>1. posting' = posting /\ Finished(c) BY <1>4 DEF Ending
  <2> QED BY <1>0, <2>1, IdleCall, EndedCall DEF Answer
<1>5. ASSUME NEW c \in Callers, Starting(c, K) \/ Continuing(c, K) PROVE Answer'
  <2>1. posting' = posting BY <1>5 DEF Starting, Continuing
  <2> QED BY <1>0, <1>5, <2>1, TakenCall DEF Answer
<1> QED BY <1>1, <1>2, <1>3, <1>4, <1>5 DEF LedgerStep, Passing

LEMMA LedgerInitial == ASSUME NEW K, StockInit PROVE LedgerInv(K)
<1>1. CallShape(K) /\ Answer BY IdleCall DEF StockInit, CallShape, Answer
<1>2. LedgerShape /\ Claimed BY DEF StockInit, LedgerShape, Claimed
<1> QED BY <1>1, <1>2 DEF LedgerInv

LEMMA LedgerKept ==
    ASSUME NEW K \in SUBSET Slots, LedgerInv(K), LedgerStep(K) PROVE LedgerInv(K)'
BY CallShapeKept, LedgerAfter, AnswerKept DEF LedgerInv

-----------------------------------------------------------------------------
(* A step leaves the slots of a document alone unless it is a request      *)
(* starting on them: at most a plan that was in flight gets posted.        *)

Untouched(s) == posting[s] = {} /\ \A c \in Callers : call[c].slot # s

PostedMeanwhile(s) ==
    /\ posting[s] = {}
    /\ \E c \in Callers : call[c].slot = s /\ posting'[s] = call[c].plan /\ call[c].plan # {}
Undisturbed(S) ==
    /\ \A s \in S : posting'[s] = posting[s] \/ PostedMeanwhile(s)
    /\ \A c \in Callers : call'[c].slot \in S =>
         call'[c].slot = call[c].slot /\ call'[c].plan = call[c].plan

LEMMA UntouchedKept ==
    ASSUME NEW S, Undisturbed(S), NEW s \in S, Untouched(s) PROVE Untouched(s)'
BY DEF Undisturbed, Untouched, PostedMeanwhile

LEMMA FinishedDisturbsNothing ==
    ASSUME NEW K, CallShape(K), NEW S \in SUBSET Slots, NEW c \in Callers, Finished(c),
           posting' = posting
    PROVE  Undisturbed(S)
BY IdleCall, EndedCall, NoSlotIsNone DEF Undisturbed

LEMMA QuietSteps ==
    ASSUME NEW K, LedgerInv(K), NEW S \in SUBSET Slots, NEW T, T \cap S = {}, LedgerStep(T)
    PROVE  Undisturbed(S)
<1>0. CallShape(K) /\ LedgerShape BY DEF LedgerInv
<1>1. CASE Still BY <1>1 DEF Still, Undisturbed
<1>2. ASSUME NEW c \in Callers, Answering(c) PROVE Undisturbed(S)
  <2>1. posting' = posting BY <1>2 DEF Answering
  <2> QED BY <1>0, <1>2, <2>1, AnsweredCall DEF Undisturbed
<1>3. ASSUME NEW c \in Callers, Committing(c) PROVE Undisturbed(S)
  <2>1. /\ posting' = [posting EXCEPT ![call[c].slot] = call[c].plan]
        /\ call[c].plan # {} /\ posting[call[c].slot] = {}
    BY <1>3 DEF Committing
  <2>2. ASSUME NEW s \in S PROVE posting'[s] = posting[s] \/ PostedMeanwhile(s)
    BY <1>0, <2>1 DEF LedgerShape, PostedMeanwhile
  <2> QED BY <1>0, <1>3, <2>2, AnsweredCall DEF Undisturbed
<1>4. ASSUME NEW c \in Callers, Ending(c) PROVE Undisturbed(S)
  BY <1>0, <1>4, FinishedDisturbsNothing DEF Ending
<1>5. ASSUME NEW c \in Callers, Starting(c, T) \/ Continuing(c, T) PROVE Undisturbed(S)
  <2>1. posting' = posting BY <1>5 DEF Starting, Continuing
  <2> QED BY <1>0, <1>5, <2>1, TakenCall DEF Undisturbed
<1> QED BY <1>1, <1>2, <1>3, <1>4, <1>5 DEF LedgerStep, Passing

-----------------------------------------------------------------------------
(* The types of the ledger and of the requests.  For the balances to stay  *)
(* numbers every plan must be finite; for a new document to find a row id  *)
(* no request remembers, a request must remember one id of a document.     *)

Plans == {p \in SUBSET Move : IsFiniteSet(p)}
DocRow == [state : {"ABSENT", "OPEN", "POSTED"}, id : RowIds]
Balances == [Warehouses -> [Lots -> Nat]]

TasksOf(r) == {[slot |-> r.slot, id |-> r.id, plan |-> r.plan]} \cup r.rest \cup r.done
Sound ==
    {r \in Request : /\ \A t \in TasksOf(r) : t.plan \in Plans
                     /\ \A t, k \in TasksOf(r) : t.slot = k.slot => t.id = k.id}

StockTyped ==
    /\ onHand \in Balances
    /\ lotState \in [Lots -> LotStates]
    /\ today \in 0..LastDay
    /\ doc \in [Slots -> DocRow]
    /\ posting \in [Slots -> Plans]
    /\ call \in [Callers -> Sound]

\* A finite set stays finite when its elements are replaced.
LEMMA FiniteImage ==
    ASSUME NEW S, IsFiniteSet(S), NEW f, DOMAIN f = S, f = [x \in S |-> f[x]]
    PROVE  IsFiniteSet({f[x] : x \in S})
<1> DEFINE T == {f[x] : x \in S}
<1>1. f \in Surjection(S, T)
  BY DEF Surjection
<1> HIDE DEF T
<1>2. IsFiniteSet(T)
  BY <1>1, FS_Surjection
<1> QED BY <1>2 DEF T

\* Row ids are numbers, zero among them.
LEMMA RowIdsTyped == Cardinality(Callers) \in Nat /\ RowIds \subseteq Nat /\ 0 \in RowIds
<1>1. Cardinality(Callers) \in Nat
  BY StockAssumptions, FS_CardinalityType
<1> QED BY <1>1 DEF RowIds

\* The types claim what StockTypeOK does.
LEMMA TypedStock == ASSUME StockTyped PROVE StockTypeOK
<1>1. Plans \subseteq SUBSET Move
  BY DEF Plans
<1>2. Sound \subseteq Request
  BY DEF Sound
<1> QED BY <1>1, <1>2 DEF StockTyped, StockTypeOK, Balances, DocRow

LEMMA IdleSound == Idle \in Sound
<1>1. Idle \in Request
  BY RowIdsTyped DEF Idle, Request, Phases
<1>2. TasksOf(Idle) = {[slot |-> NoSlot, id |-> 0, plan |-> {}]}
  BY DEF TasksOf, Idle
<1>3. {} \in Plans
  BY FS_EmptySet DEF Plans
<1> QED BY <1>1, <1>2, <1>3 DEF Sound

\* The plan at hand is one of the postings a request has in hand.
LEMMA SoundPlan == ASSUME NEW r \in Sound PROVE r.plan \in Plans
<1> DEFINE t == [slot |-> r.slot, id |-> r.id, plan |-> r.plan]
<1>1. t \in TasksOf(r)
  BY DEF TasksOf
<1>2. t.plan = r.plan
  OBVIOUS
<1> HIDE DEF t
<1>3. t.plan \in Plans
  BY <1>1 DEF Sound
<1> QED BY <1>2, <1>3

\* The pigeonhole: there are more row ids than requests to remember one.
LEMMA FreshIdKnown ==
    ASSUME call \in [Callers -> Sound], NEW s PROVE FreshId(s) \in RowIds
<1> DEFINE Used(n) == {c \in Callers : \E t \in TasksOf(call[c]) : t.slot = s /\ t.id = n}
<1>1. \A c \in Callers : Tasks(c) = TasksOf(call[c])
  BY DEF Tasks, TasksOf
<1>2. ASSUME \A n \in RowIds : Used(n) # {} PROVE FALSE
  <2> DEFINE f == [n \in RowIds |-> CHOOSE c \in Used(n) : TRUE]
  <2>1. \A n \in RowIds : f[n] \in Used(n)
    BY <1>2
  <2>2. f \in [RowIds -> Callers]
    BY <2>1
  <2>3. IsFiniteSet(RowIds) /\ Cardinality(RowIds) = Cardinality(Callers) + 1
    <3>1. Cardinality(Callers) \in Int /\ ~ (0 > Cardinality(Callers)) /\ 0 \in Int
      BY RowIdsTyped
    <3> DEFINE n == Cardinality(Callers)
    <3> HIDE DEF n
    <3>2. IsFiniteSet(0..n) /\ Cardinality(0..n) = n + 1
      BY <3>1, FS_Interval DEF n
    <3> QED BY <3>2 DEF n, RowIds
  <2>4. Cardinality(Callers) < Cardinality(RowIds)
    BY <2>3, RowIdsTyped
  <2> HIDE DEF f
  <2>5. PICK m, n \in RowIds : m # n /\ f[m] = f[n]
    BY <2>2, <2>3, <2>4, StockAssumptions, FS_PigeonHole
  <2>6. call[f[m]] \in Sound
    BY <2>2
  <2>7. PICK t \in TasksOf(call[f[m]]) : t.slot = s /\ t.id = m
    BY <2>1
  <2>8. PICK k \in TasksOf(call[f[m]]) : k.slot = s /\ k.id = n
    BY <2>1, <2>5
  <2> QED BY <2>5, <2>6, <2>7, <2>8 DEF Sound
<1>3. PICK n \in RowIds : Used(n) = {}
  BY <1>2
<1>4. \A c \in Callers : \A t \in Tasks(c) : t.slot = s => t.id # n
  BY <1>1, <1>3
<1> QED BY <1>4 DEF FreshId

LEMMA EnsuredTyped ==
    ASSUME call \in [Callers -> Sound], doc \in [Slots -> DocRow], NEW s \in Slots
    PROVE  Ensured(s) \in DocRow
BY FreshIdKnown DEF Ensured, DocRow

\* A request that is answered, ends or starts stays sound.
LEMMA AnsweredSound ==
    ASSUME call \in [Callers -> Sound], NEW c \in Callers, NEW p \in Phases, Answered(c, p)
    PROVE  call' \in [Callers -> Sound]
<1> DEFINE r == [call[c] EXCEPT !.phase = p]
<1>1. call[c] \in Request
  BY DEF Sound
<1>2. r \in Request
  BY <1>1 DEF Request
<1>3. r.slot = call[c].slot /\ r.id = call[c].id /\ r.plan = call[c].plan
        /\ r.rest = call[c].rest /\ r.done = call[c].done
  BY <1>1 DEF Request
<1>4. TasksOf(r) = TasksOf(call[c])
  BY <1>3 DEF TasksOf
<1>5. call' = [call EXCEPT ![c] = r]
  BY DEF Answered
<1> HIDE DEF r
<1>6. r \in Sound
  BY <1>2, <1>4 DEF Sound
<1> QED BY <1>5, <1>6

LEMMA FinishedSound ==
    ASSUME call \in [Callers -> Sound], NEW c \in Callers, Finished(c)
    PROVE  call' \in [Callers -> Sound]
BY IdleSound DEF Finished

LEMMA PreparedTyped ==
    ASSUME call \in [Callers -> Sound], doc \in [Slots -> DocRow], NEW c \in Callers,
           NEW s \in Slots, NEW plan \in Plans, NEW more, NEW v \in Nat,
           \A x \in more : x[1] \in Slots /\ x[2] \in Plans,
           Prepared(c, s, plan, more, v)
    PROVE  call' \in [Callers -> Sound] /\ doc' \in [Slots -> DocRow]
<1>1. \A t \in Slots : Ensured(t) \in DocRow
  BY EnsuredTyped
<1>2. doc' \in [Slots -> DocRow]
  BY <1>1 DEF Prepared
<1> DEFINE rest == {TaskFor(x[1], x[2]) : x \in more}
           r == [slot |-> s, id |-> Ensured(s).id, plan |-> plan, rest |-> rest,
                 done |-> {}, version |-> v, phase |-> "prepared"]
<1>3. \A t \in Slots : Ensured(t).id \in RowIds
  BY <1>1 DEF DocRow
<1>4. ASSUME NEW t \in rest
      PROVE  t \in Task /\ t.plan \in Plans /\ t.slot \in Slots /\ t.id = Ensured(t.slot).id
  <2>1. PICK x \in more : t = TaskFor(x[1], x[2])
    OBVIOUS
  <2>2. x[1] \in Slots /\ x[2] \in Plans
    OBVIOUS
  <2> HIDE DEF rest, r
  <2>3. x[2] \in SUBSET Move
    BY <2>2 DEF Plans
  <2> QED BY <1>3, <2>1, <2>2, <2>3 DEF TaskFor, Task
<1>5. TasksOf(r) = {[slot |-> s, id |-> Ensured(s).id, plan |-> plan]} \cup rest
  BY DEF TasksOf
<1>6. rest \subseteq Task
  BY <1>4
<1>7. call' = [call EXCEPT ![c] = r]
  BY DEF Prepared
<1> HIDE DEF rest
<1>8. r \in Request
  <2>1. plan \in SUBSET Move
    BY DEF Plans
  <2> QED BY <1>3, <1>6, <2>1 DEF Request, Phases
<1>9. \A t \in TasksOf(r) : t.plan \in Plans /\ t.id = Ensured(t.slot).id
  <2> HIDE DEF r
  <2> QED BY <1>4, <1>5
<1> HIDE DEF r
<1>10. r \in Sound
  BY <1>8, <1>9 DEF Sound
<1> QED BY <1>2, <1>7, <1>10

-----------------------------------------------------------------------------
(* What a posting does to the balances.                                    *)

LEMMA QtyNat ==
    ASSUME NEW P \in Plans, NEW S \in SUBSET P PROVE QtyOf(S) \in Nat
<1> DEFINE f == [m \in S |-> m.qty]
<1>1. IsFiniteSet(S)
  BY FS_Subset DEF Plans
<1>2. \A m \in S : f[m] \in Nat
  BY StockAssumptions DEF Plans, Move, Quantity
<1> HIDE DEF f
<1>3. SumFunctionOnSet(f, S) \in Nat
  BY <1>1, <1>2, SumNat
<1> QED BY <1>3 DEF QtyOf, f

LEMMA MovedNat ==
    ASSUME NEW P \in Plans, NEW way, NEW w, NEW l PROVE Moved(P, way, w, l) \in Nat
<1> DEFINE S == {m \in P : m.way = way /\ m.wh = w /\ m.lot = l}
<1>1. S \in SUBSET P
  OBVIOUS
<1> HIDE DEF S
<1>2. QtyOf(S) \in Nat
  BY <1>1, QtyNat
<1> QED BY <1>2 DEF Moved, S

\* Enough stock: no balance falls below zero.
LEMMA AfterTyped ==
    ASSUME onHand \in Balances, NEW P \in Plans, Sufficient(P)
    PROVE  After(P) \in Balances
<1>1. ASSUME NEW w \in Warehouses, NEW l \in Lots PROVE After(P)[w][l] \in Nat
  <2>1. onHand[w][l] \in Nat
    BY DEF Balances
  <2>2. Moved(P, "IN", w, l) \in Nat /\ Moved(P, "OUT", w, l) \in Nat
    BY MovedNat
  <2>3. After(P)[w][l] = onHand[w][l] + Moved(P, "IN", w, l) - Moved(P, "OUT", w, l)
    BY DEF After
  <2>4. After(P)[w][l] >= 0
    BY DEF Sufficient
  <2> QED BY <2>1, <2>2, <2>3, <2>4
<1>2. DOMAIN After(P) = Warehouses /\ After(P) = [w \in Warehouses |-> After(P)[w]]
  BY DEF After
<1>3. \A w \in Warehouses : After(P)[w] = [l \in Lots |-> After(P)[w][l]]
  BY DEF After
<1>4. \A w \in Warehouses : After(P)[w] \in [Lots -> Nat]
  BY <1>1, <1>3
<1> QED BY <1>2, <1>4 DEF Balances

LEMMA CommitTyped ==
    ASSUME StockTyped, NEW c \in Callers, Commit(c)
    PROVE  /\ onHand' \in Balances /\ posting' \in [Slots -> Plans]
           /\ doc' \in [Slots -> DocRow]
<1>1. call[c] \in Sound
  BY DEF StockTyped
<1>2. call[c].plan \in Plans
  BY <1>1, SoundPlan
<1>3. onHand' \in Balances
  BY <1>2, AfterTyped DEF Commit, StockTyped
<1>4. posting' \in [Slots -> Plans]
  BY <1>2 DEF Commit, StockTyped
<1>5. doc' \in [Slots -> DocRow]
  <2>1. doc' = [doc EXCEPT ![call[c].slot].state = "POSTED"]
    BY DEF Commit
  <2>2. doc \in [Slots -> DocRow]
    BY DEF StockTyped
  <2> HIDE DEF StockTyped, Commit
  <2>3. \A s \in Slots : [doc[s] EXCEPT !.state = "POSTED"] \in DocRow
    BY <2>2 DEF DocRow
  <2> QED BY <2>1, <2>2, <2>3
<1> QED BY <1>3, <1>4, <1>5

\* The posting service and the compensation keep the types.
LEMMA PostingTyped ==
    ASSUME StockTyped, PostingNext \/ \E c \in Callers : Compensate(c)
    PROVE  StockTyped'
<1>0. call \in [Callers -> Sound]
  BY DEF StockTyped
<1>1. ASSUME NEW c \in Callers, Post(c) PROVE StockTyped'
  <2>1. call' \in [Callers -> Sound]
    BY <1>0, <1>1, AnsweredSound DEF Post, Phases
  <2> QED BY <1>1, <2>1, CommitTyped DEF Post, StockTyped
<1>2. ASSUME NEW c \in Callers, PostLost(c) PROVE StockTyped'
  <2>1. call' \in [Callers -> Sound]
    BY <1>0, <1>2, AnsweredSound DEF PostLost, Phases
  <2> QED BY <1>2, <2>1, CommitTyped DEF PostLost, StockTyped
<1>3. ASSUME NEW c \in Callers, PostReplay(c) PROVE StockTyped'
  <2>1. call' \in [Callers -> Sound]
    BY <1>0, <1>3, AnsweredSound DEF PostReplay, Phases
  <2> QED BY <1>3, <2>1 DEF PostReplay, StockTyped
<1>4. ASSUME NEW c \in Callers, PostRefused(c) PROVE StockTyped'
  <2>1. call' \in [Callers -> Sound]
    BY <1>0, <1>4, AnsweredSound DEF PostRefused, Phases
  <2> QED BY <1>4, <2>1 DEF PostRefused, StockTyped
<1>5. ASSUME NEW c \in Callers, Crash(c) PROVE StockTyped'
  BY <1>0, <1>5, FinishedSound DEF Crash, StockTyped
<1>6. CASE NextDay
  BY <1>6, StockAssumptions DEF NextDay, StockTyped
<1>7. ASSUME NEW c \in Callers, Compensate(c) PROVE StockTyped'
  <2>1. \A d : Deleted(d) \in [Slots -> DocRow]
    BY RowIdsTyped DEF Deleted, StockTyped, DocRow
  <2>2. doc' \in [Slots -> DocRow]
    BY <1>7, <2>1 DEF Compensate
  <2>3. call' \in [Callers -> Sound]
    BY <1>0, <1>7, FinishedSound DEF Compensate
  <2> QED BY <1>7, <2>2, <2>3 DEF Compensate, StockTyped
<1> QED BY <1>1, <1>2, <1>3, <1>4, <1>5, <1>6, <1>7 DEF PostingNext

\* What a plan made of the lines of a document takes to be one.
LEMMA PlanOfLines ==
    ASSUME NEW lines, IsFiniteSet(lines), NEW f, f = [l \in lines |-> f[l]],
           \A l \in lines : f[l] \in Move
    PROVE  {f[l] : l \in lines} \in Plans
<1>1. DOMAIN f = lines
  OBVIOUS
<1>2. IsFiniteSet({f[l] : l \in lines})
  BY <1>1, FiniteImage
<1> QED BY <1>2 DEF Plans

LEMMA PlansJoin == ASSUME NEW P \in Plans, NEW Q \in Plans PROVE P \cup Q \in Plans
<1>1. IsFiniteSet(P \cup Q)
  BY FS_Union DEF Plans
<1> QED BY <1>1 DEF Plans

\* A request goes on to one of the postings it still has in hand.
LEMMA ContinuedSound ==
    ASSUME call \in [Callers -> Sound], NEW c \in Callers, call[c].slot \in Slots,
           NEW t \in call[c].rest, NEW D \in SUBSET Tasks(c),
           call' = [call EXCEPT ![c] =
             [slot |-> t.slot, id |-> t.id, plan |-> t.plan, rest |-> call[c].rest \ {t},
              done |-> D, version |-> call[c].version, phase |-> "prepared"]]
    PROVE  call' \in [Callers -> Sound]
<1> DEFINE r == [slot |-> t.slot, id |-> t.id, plan |-> t.plan, rest |-> call[c].rest \ {t},
                 done |-> D, version |-> call[c].version, phase |-> "prepared"]
           one == [slot |-> call[c].slot, id |-> call[c].id, plan |-> call[c].plan]
<1>1. call[c] \in Sound /\ call[c] \in Request
  BY DEF Sound
<1>2. one \in Task /\ call[c].rest \subseteq Task /\ call[c].done \subseteq Task /\ t \in Task
  BY <1>1 DEF Request, Task
<1>3. Tasks(c) = {one} \cup call[c].rest \cup call[c].done /\ Tasks(c) = TasksOf(call[c])
  BY DEF Tasks, TasksOf
<1> HIDE DEF one
<1>4. D \subseteq Task
  BY <1>2, <1>3
<1>5. t.slot \in Slots /\ t.id \in RowIds /\ t.plan \in SUBSET Move
        /\ t = [slot |-> t.slot, id |-> t.id, plan |-> t.plan]
  BY <1>2 DEF Task
<1>6. call[c].version \in Nat
  BY <1>1 DEF Request
<1>7. r \in Request
  BY <1>2, <1>4, <1>5, <1>6 DEF Request, Phases
<1>8. TasksOf(r) = {[slot |-> t.slot, id |-> t.id, plan |-> t.plan]} \cup (call[c].rest \ {t}) \cup D
  BY DEF TasksOf
<1> HIDE DEF r
<1>9. TasksOf(r) \subseteq TasksOf(call[c])
  BY <1>3, <1>5, <1>8
<1>10. r \in Sound
  BY <1>1, <1>7, <1>9 DEF Sound
<1> QED BY <1>10 DEF r

LEMMA StockTypedAtFirst == ASSUME StockInit PROVE StockTyped
<1>1. {} \in Plans
  BY FS_EmptySet DEF Plans
<1>2. OpeningLots \subseteq Lots /\ InitStock \in Balances /\ LastDay \in Nat
  BY StockAssumptions DEF Balances
<1> QED BY <1>1, <1>2, IdleSound, RowIdsTyped DEF StockInit, StockTyped, DocRow, LotStates

-----------------------------------------------------------------------------
(* The slots of the HQ documents.                                          *)

TransferSlots(o) == {DispatchSlot(o), ReceiptSlot(o)}
ReturnSlots(b) == {ReturnSlot(b), ReturnReceiptSlot(b)}

HqSlots ==
    (UNION {TransferSlots(o) : o \in TransferOrders})
      \cup (UNION {ReturnSlots(b) : b \in ReturnBatches})
      \cup {ReleaseSlot(q) : q \in Releases}
HqLedger == LedgerInv(HqSlots)

\* The slots of the documents are slots of the ledger.
LEMMA SlotsKnown == HqSlots \subseteq Slots
<1>1. \A o \in TransferOrders : DispatchSlot(o) \in Slots /\ ReceiptSlot(o) \in Slots
  BY TransferAssumptions DEF DispatchSlot, ReceiptSlot
<1>2. \A b \in ReturnBatches : ReturnSlot(b) \in Slots /\ ReturnReceiptSlot(b) \in Slots
  BY ReturnAssumptions DEF ReturnSlot, ReturnReceiptSlot
<1>3. \A q \in Releases : ReleaseSlot(q) \in Slots
  BY ReleaseAssumptions DEF ReleaseSlot
<1> QED BY <1>1, <1>2, <1>3 DEF HqSlots, TransferSlots, ReturnSlots

-----------------------------------------------------------------------------
(* The steps of the documents, by what they do to the ledger.              *)

LEMMA TransferSteps ==
    ASSUME NEW o \in TransferOrders, TransferStep(o) PROVE LedgerStep(TransferSlots(o))
<1>0. DispatchSlot(o) \in HqSlots /\ ReceiptSlot(o) \in HqSlots
                /\ DispatchSlot(o) \in TransferSlots(o) /\ ReceiptSlot(o) \in TransferSlots(o)
  BY DEF HqSlots, TransferSlots
<1>1. ASSUME NEW u \in Users, TransferDesk(o, u) \/ CancelTransferOrder(o, u) PROVE Still
  BY <1>1 DEF TransferDesk, CreateTransferOrderDraft, UpdateTransferOrderDraft,
     SubmitTransferOrder, ApproveTransferOrder, CancelTransferOrder, Still, stockVars
<1>2. ASSUME NEW c \in Callers, NEW u \in Users, DispatchTransferPrepare(c, o, u)
      PROVE  Starting(c, TransferSlots(o))
  BY <1>0, <1>2 DEF DispatchTransferPrepare, Starting
<1>3. ASSUME NEW c \in Callers, NEW u \in Users, NEW got, ReceiveTransferPrepare(c, o, u, got)
      PROVE  Starting(c, TransferSlots(o))
  BY <1>0, <1>3 DEF ReceiveTransferPrepare, Starting
<1>4. ASSUME NEW c \in Callers, DispatchTransferFinalize(c, o) \/ ReceiveTransferFinalize(c, o)
      PROVE  Ending(c)
  BY <1>4 DEF DispatchTransferFinalize, ReceiveTransferFinalize, Ending
<1> QED BY <1>0, <1>1, <1>2, <1>3, <1>4 DEF TransferStep, LedgerStep, Passing

LEMMA ReturnSteps ==
    ASSUME NEW b \in ReturnBatches, ReturnStep(b) PROVE LedgerStep(ReturnSlots(b))
<1>0. ReturnSlot(b) \in HqSlots /\ ReturnReceiptSlot(b) \in HqSlots
             /\ ReturnSlot(b) \in ReturnSlots(b) /\ ReturnReceiptSlot(b) \in ReturnSlots(b)
  BY DEF HqSlots, ReturnSlots
<1>1. ASSUME NEW u \in Users, ReturnDesk(b, u) PROVE Still
  BY <1>1 DEF ReturnDesk, CreateStockReturnDraft, UpdateStockReturnDraft,
     SubmitStockReturnBatch, ApproveStockReturnBatch, CancelStockReturnBatch, Still, stockVars
<1>2. ASSUME NEW c \in Callers, NEW u \in Users, DispatchReturnPrepare(c, b, u)
      PROVE  Starting(c, ReturnSlots(b))
  BY <1>0, <1>2 DEF DispatchReturnPrepare, Starting
<1>3. ASSUME NEW c \in Callers, NEW u \in Users, NEW reason,
             ReceiveReturnPrepare(c, b, u, reason)
      PROVE  Starting(c, ReturnSlots(b))
  BY <1>0, <1>3 DEF ReceiveReturnPrepare, Starting
<1>4. ASSUME NEW c \in Callers, DispatchReturnFinalize(c, b) \/ ReceiveReturnFinalize(c, b)
      PROVE  Ending(c)
  BY <1>4 DEF DispatchReturnFinalize, ReceiveReturnFinalize, Ending
<1> QED BY <1>0, <1>1, <1>2, <1>3, <1>4 DEF ReturnStep, LedgerStep, Passing

LEMMA ReleaseSteps ==
    ASSUME NEW q \in Releases, ReleaseStep(q) PROVE LedgerStep({ReleaseSlot(q)})
<1>0. ReleaseSlot(q) \in HqSlots BY DEF HqSlots
<1>1. ASSUME NEW u \in Users, NEW lines \in ReleaseDrafts,
             CreateQaReleaseDraft(q, u, lines) \/ UpdateQaReleaseDraft(q, u, lines)
      PROVE  Still
  BY <1>1 DEF CreateQaReleaseDraft, UpdateQaReleaseDraft, Still, stockVars
<1>2. ASSUME NEW u \in Users,
             SubmitQaRelease(q, u) \/ ApproveQaRelease(q, u) \/ CancelQaRelease(q, u)
      PROVE  Still
  BY <1>2 DEF SubmitQaRelease, ApproveQaRelease, CancelQaRelease, Still, stockVars
<1>3. ASSUME NEW c \in Callers, NEW u \in Users, ReleasePrepare(c, q, u)
      PROVE  Starting(c, {ReleaseSlot(q)})
  BY <1>0, <1>3 DEF ReleasePrepare, Starting
<1>4. ASSUME NEW c \in Callers, ReleaseFinalize(c, q) PROVE Ending(c)
  BY <1>4 DEF ReleaseFinalize, Ending
<1> QED BY <1>0, <1>1, <1>2, <1>3, <1>4 DEF ReleaseStep, LedgerStep, Passing

\* Every step is one of the five kinds.
LEMMA StepKinds ==
    ASSUME HqLedger, [HqNext]_hqVars PROVE LedgerStep(HqSlots)
<1>1. CASE HqNext
  <2>1. CASE PostingNext \/ \E c \in Callers : Compensate(c)
    BY <2>1, PostingSteps DEF HqLedger, LedgerInv, LedgerStep
  <2>2. CASE TransferNext
    <3> PICK o \in TransferOrders : TransferStep(o) BY <2>2 DEF TransferNext
    <3>1. TransferSlots(o) \subseteq HqSlots BY DEF HqSlots
    <3> QED BY <3>1, TransferSteps, LedgerStepWidens
  <2>3. CASE ReturnNext
    <3> PICK b \in ReturnBatches : ReturnStep(b) BY <2>3 DEF ReturnNext
    <3>1. ReturnSlots(b) \subseteq HqSlots BY DEF HqSlots
    <3> QED BY <3>1, ReturnSteps, LedgerStepWidens
  <2>4. CASE ReleaseNext
    <3> PICK q \in Releases : ReleaseStep(q) BY <2>4 DEF ReleaseNext
    <3>1. {ReleaseSlot(q)} \subseteq HqSlots BY DEF HqSlots
    <3> QED BY <3>1, ReleaseSteps, LedgerStepWidens
  <2> QED BY <1>1, <2>1, <2>2, <2>3, <2>4 DEF HqNext
<1>2. CASE UNCHANGED hqVars
  BY <1>2 DEF hqVars, stockVars, LedgerStep, Passing, Still
<1> QED BY <1>1, <1>2

-----------------------------------------------------------------------------
(* The ledger.                                                             *)

LEMMA HqLedgerKept == ASSUME HqLedger, [HqNext]_hqVars PROVE HqLedger'
BY StepKinds, SlotsKnown, LedgerKept DEF HqLedger

LEMMA LedgerAlways == HqSpec => []HqLedger
<1>1. HqInit => HqLedger BY LedgerInitial DEF HqInit, HqLedger
<1>2. HqLedger /\ [HqNext]_hqVars => HqLedger' BY HqLedgerKept
<1> QED BY <1>1, <1>2, PTL DEF HqSpec

\* A posting is final (executePosting's claim of the key, the compensation that
\* deletes only what nothing was posted against): whatever handlers run, crash,
\* retry or compensate, what was posted stays, and so does its document.
THEOREM PostedForGood == HqSpec => PostingsAreFinal
<1>1. HqLedger /\ [HqNext]_hqVars =>
        [\A s \in Slots : posting[s] # {} =>
           posting'[s] = posting[s] /\ doc'[s].state = "POSTED"]_hqVars
  <2> SUFFICES ASSUME HqLedger, [HqNext]_hqVars
               PROVE  \A s \in Slots : posting[s] # {} =>
                        posting'[s] = posting[s] /\ doc'[s].state = "POSTED"
    OBVIOUS
  <2> QED BY StepKinds, LedgerAfter DEF HqLedger, LedgerInv
<1> QED BY <1>1, LedgerAlways, PTL DEF HqSpec, PostingsAreFinal

-----------------------------------------------------------------------------
\* The slots of different documents, and the two of one, are different.
LEMMA SlotsApart ==
    /\ \A o : DispatchSlot(o) # ReceiptSlot(o)
    /\ \A b : ReturnSlot(b) # ReturnReceiptSlot(b)
    /\ \A o, p : p # o => TransferSlots(p) \cap TransferSlots(o) = {}
    /\ \A o, b : TransferSlots(o) \cap ReturnSlots(b) = {}
    /\ \A o, q : TransferSlots(o) \cap {ReleaseSlot(q)} = {}
    /\ \A a, b : a # b => ReturnSlots(a) \cap ReturnSlots(b) = {}
    /\ \A b, q : ReturnSlots(b) \cap {ReleaseSlot(q)} = {}
    /\ \A p, q : p # q => {ReleaseSlot(p)} \cap {ReleaseSlot(q)} = {}
<1>1. /\ \A o : DispatchSlot(o) # ReceiptSlot(o)
      /\ \A b : ReturnSlot(b) # ReturnReceiptSlot(b)
  BY DEF DispatchSlot, ReceiptSlot, ReturnSlot, ReturnReceiptSlot
<1>2. \A o, p : p # o => TransferSlots(p) \cap TransferSlots(o) = {}
  BY DEF TransferSlots, DispatchSlot, ReceiptSlot
<1>3. \A o, b : TransferSlots(o) \cap ReturnSlots(b) = {}
  BY DEF TransferSlots, ReturnSlots, DispatchSlot, ReceiptSlot, ReturnSlot, ReturnReceiptSlot
<1>4. \A o, q : TransferSlots(o) \cap {ReleaseSlot(q)} = {}
  BY DEF TransferSlots, DispatchSlot, ReceiptSlot, ReleaseSlot
<1>5. \A a, b : a # b => ReturnSlots(a) \cap ReturnSlots(b) = {}
  BY DEF ReturnSlots, ReturnSlot, ReturnReceiptSlot
<1>6. \A b, q : ReturnSlots(b) \cap {ReleaseSlot(q)} = {}
  BY DEF ReturnSlots, ReturnSlot, ReturnReceiptSlot, ReleaseSlot
<1>7. \A p, q : p # q => {ReleaseSlot(p)} \cap {ReleaseSlot(q)} = {}
  BY DEF ReleaseSlot
<1> QED BY <1>1, <1>2, <1>3, <1>4, <1>5, <1>6, <1>7

-----------------------------------------------------------------------------
(* Transfer orders.                                                        *)

TransferShape ==
    /\ DOMAIN tStatus = TransferOrders /\ DOMAIN tVersion = TransferOrders
    /\ DOMAIN tMaker = TransferOrders
    /\ DOMAIN tFrom = TransferOrders /\ DOMAIN tTo = TransferOrders
    /\ DOMAIN tLines = TransferOrders

LineFields == {"no", "item", "lot", "qty", "sent", "got"}
Numbered(lines) == \A l, k \in lines : l.no = k.no => l = k

\* A plan that takes some lot for every line, the pinned one where there is one;
\* a plan that brings at most what was sent of every line.
Chosen(P, lines, w) ==
    \E f : /\ P = {DispatchMove(l, w, f[l]) : l \in lines}
           /\ \A l \in lines : l.lot # None => f[l] = l.lot
Counted(P, lines, w) ==
    \E f : /\ P = {ReceiptMove(l, w, f[l.no]) : l \in lines}
           /\ \A l \in lines : f[l.no] <= l.sent

\* What is in flight or posted for an order, by its status.
TransferRows(o) ==
    /\ tStatus[o] \in TransferStatuses
    /\ \A l \in tLines[o] : DOMAIN l = LineFields
    /\ Numbered(tLines[o])
TransferEarly(o) == tStatus[o] \in {"ABSENT", "DRAFT", "SUBMITTED"} =>
    /\ Untouched(DispatchSlot(o)) /\ Untouched(ReceiptSlot(o))
    /\ \A l \in tLines[o] : l.sent = 0 /\ l.got = 0
TransferApproved(o) == tStatus[o] = "APPROVED" =>
    /\ \A l \in tLines[o] : l.sent = 0 /\ l.got = 0
    /\ \A c \in Callers : call[c].slot = DispatchSlot(o) =>
         Chosen(call[c].plan, tLines[o], tFrom[o])
    /\ posting[DispatchSlot(o)] = {}
         \/ Chosen(posting[DispatchSlot(o)], tLines[o], tFrom[o])
    /\ Untouched(ReceiptSlot(o))
TransferSent(o) == tStatus[o] \in {"DISPATCHED", "RECEIVED"} =>
    /\ posting[DispatchSlot(o)] = {DispatchMove(l, tFrom[o], l.lot) : l \in tLines[o]}
    /\ tLines[o] # {}
TransferOnItsWay(o) == tStatus[o] = "DISPATCHED" =>
    /\ \A l \in tLines[o] : l.sent = l.qty /\ l.got = 0
    /\ \A c \in Callers : call[c].slot = ReceiptSlot(o) =>
         Counted(call[c].plan, tLines[o], tTo[o])
    /\ posting[ReceiptSlot(o)] = {} \/ Counted(posting[ReceiptSlot(o)], tLines[o], tTo[o])
TransferReceived(o) == tStatus[o] = "RECEIVED" =>
    /\ posting[ReceiptSlot(o)] = {ReceiptMove(l, tTo[o], l.got) : l \in tLines[o]}
    /\ \A l \in tLines[o] : l.got <= l.qty
TransferCancelled(o) == tStatus[o] = "CANCELLED" => Untouched(ReceiptSlot(o))

TransferInv(o) ==
    /\ TransferRows(o) /\ TransferEarly(o) /\ TransferApproved(o) /\ TransferSent(o)
    /\ TransferOnItsWay(o) /\ TransferReceived(o) /\ TransferCancelled(o)
TransferHistory == TransferShape /\ \A o \in TransferOrders : TransferInv(o)

SameTransfer(o) ==
    /\ tStatus'[o] = tStatus[o] /\ tFrom'[o] = tFrom[o] /\ tTo'[o] = tTo[o]
    /\ tLines'[o] = tLines[o]

LEMMA TransferShapeKept == ASSUME TransferShape, [HqNext]_hqVars PROVE TransferShape'
<1>1. ASSUME NEW o \in TransferOrders, TransferStep(o) PROVE TransferShape'
  <2>1. ASSUME NEW u \in Users, TransferDesk(o, u) \/ CancelTransferOrder(o, u)
        PROVE TransferShape'
    BY <2>1 DEF TransferDesk, CreateTransferOrderDraft, UpdateTransferOrderDraft,
       SubmitTransferOrder, ApproveTransferOrder, CancelTransferOrder, TransferAdvances,
       TransferShape
  <2>2. ASSUME NEW c \in Callers, DispatchTransferFinalize(c, o) PROVE TransferShape'
    BY <2>2 DEF DispatchTransferFinalize, TransferAdvances, TransferShape
  <2>3. ASSUME NEW c \in Callers, ReceiveTransferFinalize(c, o) PROVE TransferShape'
    BY <2>3 DEF ReceiveTransferFinalize, TransferAdvances, TransferShape
  <2>4. ASSUME UNCHANGED transferVars PROVE TransferShape'
    BY <2>4 DEF transferVars, TransferShape
  <2> QED BY <1>1, <2>1, <2>2, <2>3, <2>4
          DEF TransferStep, DispatchTransferPrepare, ReceiveTransferPrepare
<1>2. ASSUME UNCHANGED transferVars PROVE TransferShape'
  BY <1>2 DEF transferVars, TransferShape
<1> QED BY <1>1, <1>2 DEF HqNext, TransferNext, hqVars

\* A step of another order is no change of this one.
LEMMA OtherTransfers ==
    ASSUME TransferShape, NEW o \in TransferOrders, NEW p \in TransferOrders, p # o,
           TransferStep(p)
    PROVE  SameTransfer(o)
<1>1. ASSUME NEW u \in Users, TransferDesk(p, u) \/ CancelTransferOrder(p, u)
      PROVE SameTransfer(o)
  BY <1>1 DEF TransferDesk, CreateTransferOrderDraft, UpdateTransferOrderDraft,
     SubmitTransferOrder, ApproveTransferOrder, CancelTransferOrder, TransferAdvances,
     TransferShape, SameTransfer
<1>2. ASSUME NEW c \in Callers, DispatchTransferFinalize(c, p) PROVE SameTransfer(o)
  BY <1>2 DEF DispatchTransferFinalize, TransferAdvances, TransferShape, SameTransfer
<1>3. ASSUME NEW c \in Callers, ReceiveTransferFinalize(c, p) PROVE SameTransfer(o)
  BY <1>3 DEF ReceiveTransferFinalize, TransferAdvances, TransferShape, SameTransfer
<1>4. ASSUME UNCHANGED transferVars PROVE SameTransfer(o)
  BY <1>4 DEF transferVars, SameTransfer
<1> QED BY <1>1, <1>2, <1>3, <1>4
        DEF TransferStep, DispatchTransferPrepare, ReceiveTransferPrepare

\* Every step is a step of order o or leaves it and its slots alone.
LEMMA TransferFrame ==
    ASSUME HqLedger, TransferShape, [HqNext]_hqVars, NEW o \in TransferOrders
    PROVE  TransferStep(o) \/ (SameTransfer(o) /\ Undisturbed(TransferSlots(o)))
<1>0. TransferSlots(o) \in SUBSET Slots BY SlotsKnown DEF HqSlots
<1>1. ASSUME NEW T, LedgerStep(T), T \cap TransferSlots(o) = {} PROVE Undisturbed(TransferSlots(o))
  BY <1>0, <1>1, QuietSteps DEF HqLedger
<1>2. ASSUME UNCHANGED transferVars PROVE SameTransfer(o)
  BY <1>2 DEF transferVars, SameTransfer
<1>3. CASE (PostingNext \/ \E c \in Callers : Compensate(c)) /\ UNCHANGED transferVars
  <2>1. LedgerStep({}) BY <1>3, PostingSteps DEF HqLedger, LedgerInv, LedgerStep
  <2> QED BY <1>1, <1>2, <1>3, <2>1
<1>4. ASSUME NEW p \in TransferOrders, TransferStep(p), p # o
      PROVE  SameTransfer(o) /\ Undisturbed(TransferSlots(o))
  BY <1>1, <1>4, OtherTransfers, TransferSteps, SlotsApart
<1>5. ASSUME NEW b \in ReturnBatches, ReturnStep(b), UNCHANGED transferVars
      PROVE  SameTransfer(o) /\ Undisturbed(TransferSlots(o))
  BY <1>1, <1>2, <1>5, ReturnSteps, SlotsApart
<1>6. ASSUME NEW q \in Releases, ReleaseStep(q), UNCHANGED transferVars
      PROVE  SameTransfer(o) /\ Undisturbed(TransferSlots(o))
  BY <1>1, <1>2, <1>6, ReleaseSteps, SlotsApart
<1>7. CASE UNCHANGED hqVars
  <2>1. LedgerStep({}) BY <1>7 DEF hqVars, stockVars, LedgerStep, Passing, Still
  <2> QED BY <1>1, <1>2, <1>7, <2>1 DEF hqVars
<1> QED BY <1>3, <1>4, <1>5, <1>6, <1>7 DEF HqNext, TransferNext, ReturnNext, ReleaseNext

LEMMA TransferQuiet ==
    ASSUME NEW o \in TransferOrders, TransferInv(o), SameTransfer(o),
           Undisturbed(TransferSlots(o))
    PROVE  TransferInv(o)'
<1>0. DispatchSlot(o) \in TransferSlots(o) /\ ReceiptSlot(o) \in TransferSlots(o)
  BY DEF TransferSlots
<1>1. /\ Untouched(DispatchSlot(o)) => Untouched(DispatchSlot(o))'
      /\ Untouched(ReceiptSlot(o)) => Untouched(ReceiptSlot(o))'
  BY <1>0, UntouchedKept
<1>2. /\ tStatus'[o] = tStatus[o] /\ tFrom'[o] = tFrom[o] /\ tTo'[o] = tTo[o]
      /\ tLines'[o] = tLines[o]
  BY DEF SameTransfer
<1>3. TransferRows(o)' /\ TransferEarly(o)' /\ TransferCancelled(o)'
  BY <1>1, <1>2 DEF TransferInv, TransferRows, TransferEarly, TransferCancelled
<1>4. TransferApproved(o)'
  BY <1>0, <1>1, <1>2 DEF TransferInv, TransferApproved, Undisturbed, PostedMeanwhile
<1>5. TransferSent(o)'
  <2> SUFFICES ASSUME tStatus[o] \in {"DISPATCHED", "RECEIVED"}
               PROVE  posting'[DispatchSlot(o)] = posting[DispatchSlot(o)]
    BY <1>2 DEF TransferSent, TransferInv
  <2>1. PICK l \in tLines[o] : TRUE BY DEF TransferInv, TransferSent
  <2>2. posting[DispatchSlot(o)] # {} BY <2>1 DEF TransferInv, TransferSent
  <2> QED BY <1>0, <2>2 DEF Undisturbed, PostedMeanwhile
<1>6. TransferOnItsWay(o)'
  BY <1>0, <1>1, <1>2 DEF TransferInv, TransferOnItsWay, Undisturbed, PostedMeanwhile
<1>7. TransferReceived(o)'
  <2> SUFFICES ASSUME tStatus[o] = "RECEIVED"
               PROVE  posting'[ReceiptSlot(o)] = posting[ReceiptSlot(o)]
    BY <1>2 DEF TransferReceived, TransferInv
  <2>1. PICK l \in tLines[o] : TRUE BY DEF TransferInv, TransferSent
  <2>2. posting[ReceiptSlot(o)] # {} BY <2>1 DEF TransferInv, TransferReceived
  <2> QED BY <1>0, <2>2 DEF Undisturbed, PostedMeanwhile
<1> QED BY <1>3, <1>4, <1>5, <1>6, <1>7 DEF TransferInv

\* The draft lines a client may enter are as the invariant wants them.
LEMMA DraftLines ==
    ASSUME NEW d \in TransferDrafts
    PROVE  /\ \A l \in d.lines : DOMAIN l = LineFields /\ l.sent = 0 /\ l.got = 0
           /\ Numbered(d.lines)
<1>1. d \in TransferDraft BY TransferAssumptions
<1>2. d.lines \subseteq TransferLine BY <1>1 DEF TransferDraft
<1>3. \A l \in TransferLine : DOMAIN l = LineFields BY DEF TransferLine, LineFields
<1> QED BY <1>2, <1>3, TransferAssumptions DEF Numbered

LEMMA TransferDeskKeeps ==
    ASSUME TransferShape, NEW o \in TransferOrders, TransferInv(o), NEW u \in Users,
           TransferDesk(o, u) \/ CancelTransferOrder(o, u)
    PROVE  TransferInv(o)'
<1>0. call' = call /\ posting' = posting
  BY DEF TransferDesk, CreateTransferOrderDraft, UpdateTransferOrderDraft,
     SubmitTransferOrder, ApproveTransferOrder, CancelTransferOrder, stockVars
<1>1. ASSUME NEW d \in TransferDrafts, CreateTransferOrderDraft(o, u, d)
      PROVE  TransferInv(o)'
  <2>1. tStatus[o] = "ABSENT" /\ tStatus'[o] = "DRAFT" /\ tLines'[o] = d.lines
    BY <1>1 DEF CreateTransferOrderDraft, TransferAdvances, TransferShape
  <2> QED BY <1>0, <2>1, DraftLines DEF TransferInv, TransferRows, TransferEarly, Untouched,
             TransferStatuses, TransferApproved, TransferSent, TransferOnItsWay,
             TransferReceived, TransferCancelled
<1>2. ASSUME NEW d \in TransferDrafts, UpdateTransferOrderDraft(o, u, d.lines)
      PROVE  TransferInv(o)'
  <2>1. tStatus[o] = "DRAFT" /\ tStatus'[o] = "DRAFT" /\ tLines'[o] = d.lines
    BY <1>2 DEF UpdateTransferOrderDraft, TransferShape
  <2> QED BY <1>0, <2>1, DraftLines DEF TransferInv, TransferRows, TransferEarly, Untouched,
             TransferStatuses, TransferApproved, TransferSent, TransferOnItsWay,
             TransferReceived, TransferCancelled
<1>3. ASSUME SubmitTransferOrder(o, u) PROVE TransferInv(o)'
  <2>1. tStatus[o] = "DRAFT" /\ tStatus'[o] = "SUBMITTED" /\ tLines'[o] = tLines[o]
    BY <1>3 DEF SubmitTransferOrder, TransferAdvances, TransferShape
  <2> QED BY <1>0, <2>1 DEF TransferInv, TransferRows, TransferEarly, Untouched,
             TransferStatuses, TransferApproved, TransferSent, TransferOnItsWay,
             TransferReceived, TransferCancelled
<1>4. ASSUME ApproveTransferOrder(o, u) PROVE TransferInv(o)'
  <2>1. tStatus[o] = "SUBMITTED" /\ tStatus'[o] = "APPROVED" /\ tLines'[o] = tLines[o]
    BY <1>4 DEF ApproveTransferOrder, TransferAdvances, TransferShape
  <2> QED BY <1>0, <2>1 DEF TransferInv, TransferRows, TransferEarly, Untouched,
             TransferStatuses, TransferApproved, TransferSent, TransferOnItsWay,
             TransferReceived, TransferCancelled
<1>5. ASSUME CancelTransferOrder(o, u) PROVE TransferInv(o)'
  <2>1. /\ tStatus[o] \in {"DRAFT", "SUBMITTED", "APPROVED"} /\ tStatus'[o] = "CANCELLED"
        /\ tLines'[o] = tLines[o]
    BY <1>5 DEF CancelTransferOrder, TransferAdvances, TransferShape
  <2> QED BY <1>0, <2>1 DEF TransferInv, TransferRows, TransferEarly, Untouched,
             TransferStatuses, TransferApproved, TransferSent, TransferOnItsWay,
             TransferReceived, TransferCancelled
<1> QED BY <1>1, <1>2, <1>3, <1>4, <1>5 DEF TransferDesk

LEMMA DispatchStartKeeps ==
    ASSUME HqLedger, NEW o \in TransferOrders, TransferInv(o), NEW c \in Callers,
           NEW u \in Users, DispatchTransferPrepare(c, o, u)
    PROVE  TransferInv(o)'
<1>0. CallShape(HqSlots) BY DEF HqLedger, LedgerInv
<1>1. /\ Prepared(c, DispatchSlot(o), DispatchPlan(o), {}, tVersion[o])
      /\ posting' = posting /\ tStatus[o] \in {"APPROVED", "DISPATCHED"}
      /\ tStatus' = tStatus /\ tFrom' = tFrom /\ tTo' = tTo /\ tLines' = tLines
  BY DEF DispatchTransferPrepare, transferVars
<1>2. /\ call'[c].slot = DispatchSlot(o) /\ call'[c].plan = DispatchPlan(o)
      /\ \A k \in Callers \ {c} : call'[k] = call[k]
  BY <1>0, <1>1, StartsWith
<1>3. Chosen(DispatchPlan(o), tLines[o], tFrom[o])
  <2> DEFINE f == [l \in tLines[o] |-> LotFor(l, tFrom[o])]
  <2>1. DispatchPlan(o) = {DispatchMove(l, tFrom[o], f[l]) : l \in tLines[o]}
    BY DEF DispatchPlan
  <2>2. \A l \in tLines[o] : l.lot # None => f[l] = l.lot BY DEF LotFor
  <2> HIDE DEF f
  <2> QED BY <2>1, <2>2 DEF Chosen
<1>4. Untouched(ReceiptSlot(o)) => Untouched(ReceiptSlot(o))'
  BY <1>1, <1>2, SlotsApart DEF Untouched
<1>5. TransferApproved(o)'
  BY <1>1, <1>2, <1>3, <1>4 DEF TransferInv, TransferApproved
<1>6. TransferOnItsWay(o)'
  BY <1>1, <1>2, SlotsApart DEF TransferInv, TransferOnItsWay
<1> QED BY <1>1, <1>5, <1>6 DEF TransferInv, TransferRows, TransferEarly, TransferSent,
           TransferReceived, TransferCancelled

LEMMA ReceiptStartKeeps ==
    ASSUME HqLedger, NEW o \in TransferOrders, TransferInv(o), NEW c \in Callers,
           NEW u \in Users, NEW got \in Receipts(tLines[o]),
           ReceiveTransferPrepare(c, o, u, got)
    PROVE  TransferInv(o)'
<1>0. CallShape(HqSlots) BY DEF HqLedger, LedgerInv
<1>1. /\ Prepared(c, ReceiptSlot(o), ReceiptPlan(o, got), {}, tVersion[o])
      /\ posting' = posting /\ tStatus[o] \in {"DISPATCHED", "RECEIVED"}
      /\ tStatus' = tStatus /\ tFrom' = tFrom /\ tTo' = tTo /\ tLines' = tLines
  BY DEF ReceiveTransferPrepare, transferVars
<1>2. /\ call'[c].slot = ReceiptSlot(o) /\ call'[c].plan = ReceiptPlan(o, got)
      /\ \A k \in Callers \ {c} : call'[k] = call[k]
  BY <1>0, <1>1, StartsWith
<1>3. Counted(ReceiptPlan(o, got), tLines[o], tTo[o])
  BY DEF Counted, Receipts, ReceiptPlan
<1>4. TransferOnItsWay(o)'
  BY <1>1, <1>2, <1>3 DEF TransferInv, TransferOnItsWay
<1> QED BY <1>1, <1>4 DEF TransferInv, TransferRows, TransferEarly, TransferSent,
           TransferApproved, TransferReceived, TransferCancelled

AsSent(lines, P) ==
    {IF l.sent = 0 THEN [l EXCEPT !.lot = LotOfLine(P, l.no), !.sent = l.qty]
     ELSE l : l \in lines}
AsGot(lines, P) ==
    {IF l.got = 0 THEN [l EXCEPT !.got = (CHOOSE m \in P : m.line = l.no).qty]
     ELSE l : l \in lines}

\* The lots and quantities written to the lines of a dispatched order are those
\* of the plan that was posted.
LEMMA LotsRecorded ==
    ASSUME NEW lines, NEW w, NEW P, P # {}, Chosen(P, lines, w), Numbered(lines),
           \A l \in lines : DOMAIN l = LineFields /\ l.sent = 0 /\ l.got = 0,
           NEW L, L = AsSent(lines, P)
    PROVE  /\ L # {} /\ Numbered(L) /\ P = {DispatchMove(l, w, l.lot) : l \in L}
           /\ \A l \in L : DOMAIN l = LineFields /\ l.sent = l.qty /\ l.got = 0
<1>1. PICK f : P = {DispatchMove(l, w, f[l]) : l \in lines} BY DEF Chosen
<1> DEFINE new(l) == [l EXCEPT !.lot = f[l], !.sent = l.qty]
<1>2. ASSUME NEW l \in lines PROVE LotOfLine(P, l.no) = f[l]
  <2>1. DispatchMove(l, w, f[l]) \in P BY <1>1
  <2>2. ASSUME NEW m \in P, m.line = l.no PROVE m.lot = f[l]
    <3>1. PICK k \in lines : m = DispatchMove(k, w, f[k]) BY <1>1
    <3>2. k.no = l.no /\ m.lot = f[k] BY <2>2, <3>1 DEF DispatchMove
    <3> QED BY <3>2 DEF Numbered
  <2>3. DispatchMove(l, w, f[l]).line = l.no BY DEF DispatchMove
  <2> QED BY <2>1, <2>2, <2>3 DEF LotOfLine
<1>3. ASSUME NEW l \in lines
      PROVE  /\ DOMAIN new(l) = LineFields /\ new(l).no = l.no /\ new(l).qty = l.qty
             /\ new(l).lot = f[l] /\ new(l).sent = l.qty /\ new(l).got = 0
  BY DEF LineFields
<1>4. L = {new(l) : l \in lines} BY <1>2 DEF AsSent
<1>5. ASSUME NEW l \in lines
      PROVE  DispatchMove(new(l), w, new(l).lot) = DispatchMove(l, w, f[l])
  BY <1>3 DEF DispatchMove
<1> HIDE DEF new
<1>6. P = {DispatchMove(l, w, l.lot) : l \in L}
  <2>1. ASSUME NEW m \in P PROVE \E l \in L : m = DispatchMove(l, w, l.lot)
    <3>1. PICK l \in lines : m = DispatchMove(l, w, f[l]) BY <1>1
    <3> QED BY <1>4, <1>5, <3>1
  <2>2. ASSUME NEW k \in L PROVE DispatchMove(k, w, k.lot) \in P
    <3>1. PICK l \in lines : k = new(l) BY <1>4
    <3> QED BY <1>1, <1>5, <3>1
  <2> QED BY <2>1, <2>2
<1>7. Numbered(L)
  <2> SUFFICES ASSUME NEW a \in L, NEW b \in L, a.no = b.no PROVE a = b BY DEF Numbered
  <2>1. PICK l \in lines : a = new(l) BY <1>4
  <2>2. PICK k \in lines : b = new(k) BY <1>4
  <2>3. l.no = k.no BY <1>3, <2>1, <2>2
  <2> QED BY <2>1, <2>2, <2>3 DEF Numbered
<1>8. L # {} BY <1>1, <1>4
<1>9. ASSUME NEW k \in L PROVE DOMAIN k = LineFields /\ k.sent = k.qty /\ k.got = 0
  <2>1. PICK l \in lines : k = new(l) BY <1>4
  <2> QED BY <1>3, <2>1
<1> QED BY <1>6, <1>7, <1>8, <1>9

LEMMA DispatchEndKeeps ==
    ASSUME HqLedger, TransferShape, NEW o \in TransferOrders, TransferInv(o),
           NEW c \in Callers, DispatchTransferFinalize(c, o)
    PROVE  TransferInv(o)'
<1>0. CallShape(HqSlots) /\ Answer BY DEF HqLedger, LedgerInv
<1>1. /\ call[c].phase = "posted" /\ call[c].slot = DispatchSlot(o)
      /\ posting' = posting /\ doc' = doc /\ tFrom' = tFrom /\ tTo' = tTo /\ Finished(c)
  BY DEF DispatchTransferFinalize
<1>2. posting[DispatchSlot(o)] = call[c].plan /\ call[c].plan # {}
  BY <1>0, <1>1 DEF Answer
<1>3. call'[c] = Idle /\ \A k \in Callers \ {c} : call'[k] = call[k]
  BY <1>0, <1>1, EndedCall
<1>4. Undisturbed(TransferSlots(o))
  <2>1. TransferSlots(o) \in SUBSET Slots BY SlotsKnown DEF HqSlots
  <2> QED BY <1>0, <1>1, <2>1, FinishedDisturbsNothing
<1>5. CASE tStatus' = tStatus /\ tLines' = tLines
  BY <1>1, <1>4, <1>5, TransferQuiet DEF SameTransfer
<1>6. CASE /\ TransferAdvances(o, {"APPROVED"}, "DISPATCHED")
           /\ tLines' = [tLines EXCEPT ![o] =
                {IF l.sent = 0
                 THEN [l EXCEPT !.lot = LotOfLine(call[c].plan, l.no), !.sent = l.qty]
                 ELSE l : l \in @}]
  <2>1. tStatus[o] = "APPROVED" /\ tStatus'[o] = "DISPATCHED"
    BY <1>6 DEF TransferAdvances, TransferShape
  <2>2. tLines'[o] = AsSent(tLines[o], call[c].plan)
    BY <1>6 DEF TransferShape, AsSent
  <2>3. /\ Chosen(call[c].plan, tLines[o], tFrom[o]) /\ Numbered(tLines[o])
        /\ \A l \in tLines[o] : DOMAIN l = LineFields /\ l.sent = 0 /\ l.got = 0
        /\ Untouched(ReceiptSlot(o))
    BY <1>1, <2>1 DEF TransferInv, TransferRows, TransferApproved
  <2>4. /\ tLines'[o] # {} /\ Numbered(tLines'[o])
        /\ call[c].plan = {DispatchMove(l, tFrom[o], l.lot) : l \in tLines'[o]}
        /\ \A l \in tLines'[o] : DOMAIN l = LineFields /\ l.sent = l.qty /\ l.got = 0
    BY <1>2, <2>2, <2>3, LotsRecorded
  <2>5. Untouched(ReceiptSlot(o))'
    BY <1>4, <2>3, UntouchedKept DEF TransferSlots
  <2>6. TransferRows(o)' /\ TransferSent(o)'
    BY <1>1, <1>2, <2>1, <2>4 DEF TransferRows, TransferSent, TransferStatuses
  <2>7. TransferOnItsWay(o)'
    BY <2>4, <2>5 DEF TransferOnItsWay, Untouched
  <2> QED BY <2>1, <2>6, <2>7 DEF TransferInv, TransferEarly, TransferApproved,
             TransferReceived, TransferCancelled
<1> QED BY <1>5, <1>6 DEF DispatchTransferFinalize

\* The movements that the rows of a dispatched or received order tell.
SentBy(lines, w) == {DispatchMove(l, w, l.lot) : l \in lines}
GotBy(lines, w) == {ReceiptMove(l, w, l.got) : l \in lines}

\* The quantities written to the lines of a received order are those of the
\* plan that was posted, and no more than was sent.
LEMMA QuantitiesRecorded ==
    ASSUME NEW lines, lines # {}, NEW w, NEW Q, Counted(Q, lines, w), Numbered(lines),
           \A l \in lines : DOMAIN l = LineFields /\ l.sent = l.qty /\ l.got = 0,
           NEW L, L = AsGot(lines, Q)
    PROVE  /\ L # {} /\ Numbered(L) /\ Q = GotBy(L, w)
           /\ \A v : SentBy(L, v) = SentBy(lines, v)
           /\ \A l \in L : DOMAIN l = LineFields /\ l.got <= l.qty
<1>1. PICK f : /\ Q = {ReceiptMove(l, w, f[l.no]) : l \in lines}
               /\ \A l \in lines : f[l.no] <= l.sent
  BY DEF Counted
<1> DEFINE new(l) == [l EXCEPT !.got = f[l.no]]
<1>2. ASSUME NEW l \in lines PROVE (CHOOSE m \in Q : m.line = l.no).qty = f[l.no]
  <2>1. ReceiptMove(l, w, f[l.no]) \in Q BY <1>1
  <2>2. ASSUME NEW m \in Q, m.line = l.no PROVE m.qty = f[l.no]
    <3>1. PICK k \in lines : m = ReceiptMove(k, w, f[k.no]) BY <1>1
    <3>2. k.no = l.no /\ m.qty = f[k.no] BY <2>2, <3>1 DEF ReceiptMove
    <3> QED BY <3>2
  <2>3. ReceiptMove(l, w, f[l.no]).line = l.no BY DEF ReceiptMove
  <2> QED BY <2>1, <2>2, <2>3
<1>3. ASSUME NEW l \in lines
      PROVE  /\ DOMAIN new(l) = LineFields /\ new(l).no = l.no /\ new(l).qty = l.qty
             /\ new(l).lot = l.lot /\ new(l).got = f[l.no]
  BY DEF LineFields
<1>4. L = {new(l) : l \in lines} BY <1>2 DEF AsGot
<1>5. ASSUME NEW l \in lines
      PROVE  /\ ReceiptMove(new(l), w, new(l).got) = ReceiptMove(l, w, f[l.no])
             /\ \A v : DispatchMove(new(l), v, new(l).lot) = DispatchMove(l, v, l.lot)
  BY <1>3 DEF DispatchMove, ReceiptMove
<1> HIDE DEF new
<1>6. Q = GotBy(L, w)
  <2>1. ASSUME NEW m \in Q PROVE \E l \in L : m = ReceiptMove(l, w, l.got)
    <3>1. PICK l \in lines : m = ReceiptMove(l, w, f[l.no]) BY <1>1
    <3> QED BY <1>4, <1>5, <3>1
  <2>2. ASSUME NEW k \in L PROVE ReceiptMove(k, w, k.got) \in Q
    <3>1. PICK l \in lines : k = new(l) BY <1>4
    <3> QED BY <1>1, <1>5, <3>1
  <2> QED BY <2>1, <2>2 DEF GotBy
<1>7. ASSUME NEW v PROVE SentBy(L, v) = SentBy(lines, v)
  <2>1. ASSUME NEW m \in SentBy(lines, v) PROVE \E l \in L : m = DispatchMove(l, v, l.lot)
    <3>1. PICK l \in lines : m = DispatchMove(l, v, l.lot) BY DEF SentBy
    <3> QED BY <1>4, <1>5, <3>1
  <2>2. ASSUME NEW k \in L PROVE DispatchMove(k, v, k.lot) \in SentBy(lines, v)
    <3>1. PICK l \in lines : k = new(l) BY <1>4
    <3> QED BY <1>5, <3>1 DEF SentBy
  <2> QED BY <2>1, <2>2 DEF SentBy
<1>8. Numbered(L)
  <2> SUFFICES ASSUME NEW a \in L, NEW b \in L, a.no = b.no PROVE a = b BY DEF Numbered
  <2>1. PICK l \in lines : a = new(l) BY <1>4
  <2>2. PICK k \in lines : b = new(k) BY <1>4
  <2>3. l.no = k.no BY <1>3, <2>1, <2>2
  <2> QED BY <2>1, <2>2, <2>3 DEF Numbered
<1>9. L # {} BY <1>4
<1>10. ASSUME NEW k \in L PROVE DOMAIN k = LineFields /\ k.got <= k.qty
  <2>1. PICK l \in lines : k = new(l) BY <1>4
  <2>2. f[l.no] <= l.qty BY <1>1
  <2> QED BY <1>3, <2>1, <2>2
<1> QED BY <1>6, <1>7, <1>8, <1>9, <1>10

LEMMA ReceiptEndKeeps ==
    ASSUME HqLedger, TransferShape, NEW o \in TransferOrders, TransferInv(o),
           NEW c \in Callers, ReceiveTransferFinalize(c, o)
    PROVE  TransferInv(o)'
<1>0. CallShape(HqSlots) /\ Answer BY DEF HqLedger, LedgerInv
<1>1. /\ call[c].phase = "posted" /\ call[c].slot = ReceiptSlot(o)
      /\ posting' = posting /\ doc' = doc /\ tFrom' = tFrom /\ tTo' = tTo /\ Finished(c)
  BY DEF ReceiveTransferFinalize
<1>2. posting[ReceiptSlot(o)] = call[c].plan /\ call[c].plan # {}
  BY <1>0, <1>1 DEF Answer
<1>3. call'[c] = Idle /\ \A k \in Callers \ {c} : call'[k] = call[k]
  BY <1>0, <1>1, EndedCall
<1>4. Undisturbed(TransferSlots(o))
  <2>1. TransferSlots(o) \in SUBSET Slots BY SlotsKnown DEF HqSlots
  <2> QED BY <1>0, <1>1, <2>1, FinishedDisturbsNothing
<1>5. CASE tStatus' = tStatus /\ tLines' = tLines
  BY <1>1, <1>4, <1>5, TransferQuiet DEF SameTransfer
<1>6. CASE /\ TransferAdvances(o, {"DISPATCHED"}, "RECEIVED")
           /\ tLines' = [tLines EXCEPT ![o] =
                {IF l.got = 0
                 THEN [l EXCEPT !.got = (CHOOSE m \in call[c].plan : m.line = l.no).qty]
                 ELSE l : l \in @}]
  <2>1. tStatus[o] = "DISPATCHED" /\ tStatus'[o] = "RECEIVED"
    BY <1>6 DEF TransferAdvances, TransferShape
  <2>2. tLines'[o] = AsGot(tLines[o], call[c].plan)
    BY <1>6 DEF TransferShape, AsGot
  <2>3. /\ Counted(call[c].plan, tLines[o], tTo[o]) /\ Numbered(tLines[o])
        /\ \A l \in tLines[o] : DOMAIN l = LineFields /\ l.sent = l.qty /\ l.got = 0
        /\ posting[DispatchSlot(o)] = SentBy(tLines[o], tFrom[o])
        /\ tLines[o] # {}
    BY <1>1, <2>1 DEF TransferInv, TransferRows, TransferOnItsWay, TransferSent, SentBy
  <2>4. /\ tLines'[o] # {} /\ Numbered(tLines'[o])
        /\ posting[DispatchSlot(o)] = SentBy(tLines'[o], tFrom[o])
        /\ call[c].plan = GotBy(tLines'[o], tTo[o])
        /\ \A l \in tLines'[o] : DOMAIN l = LineFields /\ l.got <= l.qty
    <3>1. /\ tLines'[o] # {} /\ Numbered(tLines'[o])
          /\ call[c].plan = GotBy(tLines'[o], tTo[o])
          /\ \A v : SentBy(tLines'[o], v) = SentBy(tLines[o], v)
          /\ \A l \in tLines'[o] : DOMAIN l = LineFields /\ l.got <= l.qty
      BY <2>2, <2>3, QuantitiesRecorded
    <3> QED BY <2>3, <3>1
  <2>5. TransferRows(o)' /\ TransferSent(o)' /\ TransferReceived(o)'
    BY <1>1, <1>2, <2>1, <2>4 DEF TransferRows, TransferSent, TransferReceived,
       TransferStatuses, SentBy, GotBy
  <2> QED BY <2>1, <2>5 DEF TransferInv, TransferEarly, TransferApproved, TransferOnItsWay,
             TransferCancelled
<1> QED BY <1>5, <1>6 DEF ReceiveTransferFinalize

LEMMA TransferInitial == ASSUME HqInit PROVE TransferHistory
<1>1. TransferInit /\ StockInit BY DEF HqInit
<1>2. Idle.slot = NoSlot BY DEF Idle
<1>3. TransferShape BY <1>1 DEF TransferInit, TransferShape
<1>4. ASSUME NEW o \in TransferOrders PROVE TransferInv(o)
  <2>1. tStatus[o] = "ABSENT" /\ tLines[o] = {} BY <1>1 DEF TransferInit
  <2>2. DispatchSlot(o) \in HqSlots /\ ReceiptSlot(o) \in HqSlots
    BY DEF HqSlots, TransferSlots
  <2>3. Untouched(DispatchSlot(o)) /\ Untouched(ReceiptSlot(o))
    BY <1>1, <1>2, <2>2, SlotsKnown, NoSlotIsNone DEF StockInit, Untouched
  <2> QED BY <2>1, <2>3 DEF TransferInv, TransferRows, TransferEarly, TransferApproved,
             TransferSent, TransferOnItsWay, TransferReceived, TransferCancelled,
             TransferStatuses, Numbered
<1> QED BY <1>3, <1>4 DEF TransferHistory

LEMMA TransferKept ==
    ASSUME HqLedger, TransferHistory, [HqNext]_hqVars PROVE TransferHistory'
<1>1. TransferShape BY DEF TransferHistory
<1>2. TransferShape' BY <1>1, TransferShapeKept
<1>3. ASSUME NEW o \in TransferOrders PROVE TransferInv(o)'
  <2>0. TransferInv(o) BY DEF TransferHistory
  <2>1. CASE TransferStep(o)
    BY <1>1, <2>0, <2>1, TransferDeskKeeps, DispatchStartKeeps, ReceiptStartKeeps,
       DispatchEndKeeps, ReceiptEndKeeps DEF TransferStep
  <2>2. CASE SameTransfer(o) /\ Undisturbed(TransferSlots(o))
    BY <2>0, <2>2, TransferQuiet
  <2> QED BY <1>1, <2>1, <2>2, TransferFrame
<1> QED BY <1>2, <1>3 DEF TransferHistory

-----------------------------------------------------------------------------
(* Return batches.                                                         *)

ReturnShape ==
    /\ DOMAIN rStatus = ReturnBatches /\ DOMAIN rVersion = ReturnBatches
    /\ DOMAIN rMaker = ReturnBatches /\ DOMAIN rSite = ReturnBatches
    /\ DOMAIN rLines = ReturnBatches /\ DOMAIN rReceipt = ReturnBatches

\* A plan that disposes of every line of the batch for some reason.
Disposed(P, b) == \E reason \in Dispositions(b) : P = ReturnReceiptPlan(b, reason)

ReturnRows(b) ==
    /\ rStatus[b] \in ReturnStatuses
    /\ Numbered(rLines[b])
    /\ rStatus[b] \in {"ABSENT", "CANCELLED"} \/ rLines[b] # {}
ReturnEarly(b) == rStatus[b] \in {"ABSENT", "DRAFT", "SUBMITTED", "CANCELLED"} =>
    Untouched(ReturnSlot(b))
ReturnLater(b) == rStatus[b] \in {"APPROVED", "DISPATCHED", "RECEIVED_DISPOSED"} =>
    /\ \A c \in Callers : call[c].slot = ReturnSlot(b) => call[c].plan = ReturnPlan(b)
    /\ posting[ReturnSlot(b)] \in {{}, ReturnPlan(b)}
ReturnSent(b) == rStatus[b] \in {"DISPATCHED", "RECEIVED_DISPOSED"} =>
    posting[ReturnSlot(b)] = ReturnPlan(b)
ReturnUnreceived(b) == rStatus[b] \notin {"DISPATCHED", "RECEIVED_DISPOSED"} =>
    Untouched(ReturnReceiptSlot(b)) /\ rReceipt[b] = {}
ReturnOnItsWay(b) == rStatus[b] = "DISPATCHED" =>
    /\ rReceipt[b] = {}
    /\ \A c \in Callers : call[c].slot = ReturnReceiptSlot(b) => Disposed(call[c].plan, b)
    /\ posting[ReturnReceiptSlot(b)] = {} \/ Disposed(posting[ReturnReceiptSlot(b)], b)
ReturnReceived(b) == rStatus[b] = "RECEIVED_DISPOSED" =>
    posting[ReturnReceiptSlot(b)] = ReturnReceiptPlan(b, ReceivedFor(b))

ReturnInv(b) ==
    /\ ReturnRows(b) /\ ReturnEarly(b) /\ ReturnLater(b) /\ ReturnSent(b)
    /\ ReturnUnreceived(b) /\ ReturnOnItsWay(b) /\ ReturnReceived(b)
ReturnHistory == ReturnShape /\ \A b \in ReturnBatches : ReturnInv(b)

SameReturn(b) ==
    rStatus'[b] = rStatus[b] /\ rLines'[b] = rLines[b] /\ rReceipt'[b] = rReceipt[b]

LEMMA ReturnShapeKept == ASSUME ReturnShape, [HqNext]_hqVars PROVE ReturnShape'
<1>1. ASSUME NEW b \in ReturnBatches, ReturnStep(b) PROVE ReturnShape'
  <2>1. ASSUME NEW u \in Users, ReturnDesk(b, u) PROVE ReturnShape'
    BY <2>1 DEF ReturnDesk, CreateStockReturnDraft, UpdateStockReturnDraft,
       SubmitStockReturnBatch, ApproveStockReturnBatch, CancelStockReturnBatch,
       ReturnAdvances, ReturnShape
  <2>2. ASSUME NEW c \in Callers, DispatchReturnFinalize(c, b) PROVE ReturnShape'
    BY <2>2 DEF DispatchReturnFinalize, ReturnAdvances, ReturnShape
  <2>3. ASSUME NEW c \in Callers, ReceiveReturnFinalize(c, b) PROVE ReturnShape'
    BY <2>3 DEF ReceiveReturnFinalize, ReturnAdvances, ReturnShape
  <2>4. ASSUME UNCHANGED returnVars PROVE ReturnShape'
    BY <2>4 DEF returnVars, ReturnShape
  <2> QED BY <1>1, <2>1, <2>2, <2>3, <2>4
          DEF ReturnStep, DispatchReturnPrepare, ReceiveReturnPrepare
<1>2. ASSUME UNCHANGED returnVars PROVE ReturnShape'
  BY <1>2 DEF returnVars, ReturnShape
<1>3. ASSUME NEW q \in Releases, ReleaseStep(q) PROVE UNCHANGED returnVars
  BY <1>3 DEF ReleaseStep, CreateQaReleaseDraft, UpdateQaReleaseDraft, SubmitQaRelease,
     ApproveQaRelease, CancelQaRelease, ReleasePrepare, ReleaseFinalize
<1> QED BY <1>1, <1>2, <1>3 DEF HqNext, ReturnNext, ReleaseNext, hqVars

LEMMA OtherReturns ==
    ASSUME ReturnShape, NEW b \in ReturnBatches, NEW a \in ReturnBatches, a # b,
           ReturnStep(a)
    PROVE  SameReturn(b)
<1>1. ASSUME NEW u \in Users, ReturnDesk(a, u) PROVE SameReturn(b)
  BY <1>1 DEF ReturnDesk, CreateStockReturnDraft, UpdateStockReturnDraft,
     SubmitStockReturnBatch, ApproveStockReturnBatch, CancelStockReturnBatch,
     ReturnAdvances, ReturnShape, SameReturn
<1>2. ASSUME NEW c \in Callers, DispatchReturnFinalize(c, a) PROVE SameReturn(b)
  BY <1>2 DEF DispatchReturnFinalize, ReturnAdvances, ReturnShape, SameReturn
<1>3. ASSUME NEW c \in Callers, ReceiveReturnFinalize(c, a) PROVE SameReturn(b)
  BY <1>3 DEF ReceiveReturnFinalize, ReturnAdvances, ReturnShape, SameReturn
<1>4. ASSUME UNCHANGED returnVars PROVE SameReturn(b)
  BY <1>4 DEF returnVars, SameReturn
<1> QED BY <1>1, <1>2, <1>3, <1>4
        DEF ReturnStep, DispatchReturnPrepare, ReceiveReturnPrepare

LEMMA ReturnFrame ==
    ASSUME HqLedger, ReturnShape, [HqNext]_hqVars, NEW b \in ReturnBatches
    PROVE  ReturnStep(b) \/ (SameReturn(b) /\ Undisturbed(ReturnSlots(b)))
<1>0. ReturnSlots(b) \in SUBSET Slots BY SlotsKnown DEF HqSlots
<1>1. ASSUME NEW T, LedgerStep(T), T \cap ReturnSlots(b) = {} PROVE Undisturbed(ReturnSlots(b))
  BY <1>0, <1>1, QuietSteps DEF HqLedger
<1>2. ASSUME UNCHANGED returnVars PROVE SameReturn(b)
  BY <1>2 DEF returnVars, SameReturn
<1>3. CASE (PostingNext \/ \E c \in Callers : Compensate(c)) /\ UNCHANGED returnVars
  <2>1. LedgerStep({}) BY <1>3, PostingSteps DEF HqLedger, LedgerInv, LedgerStep
  <2> QED BY <1>1, <1>2, <1>3, <2>1
<1>4. ASSUME NEW a \in ReturnBatches, ReturnStep(a), a # b
      PROVE  SameReturn(b) /\ Undisturbed(ReturnSlots(b))
  BY <1>1, <1>4, OtherReturns, ReturnSteps, SlotsApart
<1>5. ASSUME NEW o \in TransferOrders, TransferStep(o), UNCHANGED returnVars
      PROVE  SameReturn(b) /\ Undisturbed(ReturnSlots(b))
  BY <1>1, <1>2, <1>5, TransferSteps, SlotsApart
<1>6. ASSUME NEW q \in Releases, ReleaseStep(q)
      PROVE  SameReturn(b) /\ Undisturbed(ReturnSlots(b))
  <2>1. UNCHANGED returnVars
    BY <1>6 DEF ReleaseStep, CreateQaReleaseDraft, UpdateQaReleaseDraft, SubmitQaRelease,
       ApproveQaRelease, CancelQaRelease, ReleasePrepare, ReleaseFinalize
  <2> QED BY <1>1, <1>2, <1>6, <2>1, ReleaseSteps, SlotsApart
<1>7. CASE UNCHANGED hqVars
  <2>1. LedgerStep({}) BY <1>7 DEF hqVars, stockVars, LedgerStep, Passing, Still
  <2> QED BY <1>1, <1>2, <1>7, <2>1 DEF hqVars
<1> QED BY <1>3, <1>4, <1>5, <1>6, <1>7 DEF HqNext, TransferNext, ReturnNext, ReleaseNext

\* The plans of a batch depend on its lines alone.
LEMMA PlansOfLines ==
    ASSUME NEW b \in ReturnBatches, rLines'[b] = rLines[b]
    PROVE  /\ ReturnPlan(b)' = ReturnPlan(b)
           /\ \A P : Disposed(P, b) => Disposed(P, b)'
           /\ \A reason : ReturnReceiptPlan(b, reason)' = ReturnReceiptPlan(b, reason)
<1>1. ReturnPlan(b)' = ReturnPlan(b) BY DEF ReturnPlan
<1>2. Dispositions(b)' = Dispositions(b) BY DEF Dispositions
<1>3. \A reason : ReturnReceiptPlan(b, reason)' = ReturnReceiptPlan(b, reason)
  BY DEF ReturnReceiptPlan, QuarantineIn, WriteOff, QuarantineLot, Quarantine
<1> QED BY <1>1, <1>2, <1>3 DEF Disposed

\* A batch with lines has plans that move something.
LEMMA PlansMove ==
    ASSUME NEW b \in ReturnBatches, rLines[b] # {}
    PROVE  ReturnPlan(b) # {} /\ \A reason : ReturnReceiptPlan(b, reason) # {}
<1> PICK l \in rLines[b] : TRUE OBVIOUS
<1>1. ReturnPlan(b) # {} BY DEF ReturnPlan
<1>2. \A reason : QuarantineIn(b, l, reason[l.no]) \in ReturnReceiptPlan(b, reason)
  BY DEF ReturnReceiptPlan
<1> QED BY <1>1, <1>2

LEMMA ReturnQuiet ==
    ASSUME NEW b \in ReturnBatches, ReturnInv(b), SameReturn(b), Undisturbed(ReturnSlots(b))
    PROVE  ReturnInv(b)'
<1>0. ReturnSlot(b) \in ReturnSlots(b) /\ ReturnReceiptSlot(b) \in ReturnSlots(b)
  BY DEF ReturnSlots
<1>1. /\ Untouched(ReturnSlot(b)) => Untouched(ReturnSlot(b))'
      /\ Untouched(ReturnReceiptSlot(b)) => Untouched(ReturnReceiptSlot(b))'
  BY <1>0, UntouchedKept
<1>2. rStatus'[b] = rStatus[b] /\ rLines'[b] = rLines[b] /\ rReceipt'[b] = rReceipt[b]
  BY DEF SameReturn
<1>3. /\ ReturnPlan(b)' = ReturnPlan(b)
      /\ \A P : Disposed(P, b) => Disposed(P, b)'
      /\ \A reason : ReturnReceiptPlan(b, reason)' = ReturnReceiptPlan(b, reason)
  BY <1>2, PlansOfLines
<1>4. ReturnRows(b)' /\ ReturnEarly(b)' /\ ReturnUnreceived(b)'
  BY <1>1, <1>2 DEF ReturnInv, ReturnRows, ReturnEarly, ReturnUnreceived
<1>5. ReturnLater(b)'
  BY <1>0, <1>2, <1>3 DEF ReturnInv, ReturnLater, Undisturbed, PostedMeanwhile
<1>6. ASSUME rLines[b] # {} PROVE ReturnSent(b)'
  BY <1>0, <1>2, <1>3, <1>6, PlansMove DEF ReturnInv, ReturnSent, Undisturbed,
     PostedMeanwhile
<1>7. ReturnOnItsWay(b)'
  BY <1>0, <1>2, <1>3 DEF ReturnInv, ReturnOnItsWay, Undisturbed, PostedMeanwhile
<1>8. ASSUME rLines[b] # {} PROVE ReturnReceived(b)'
  <2>1. ReceivedFor(b)' = ReceivedFor(b) BY <1>2 DEF ReceivedFor
  <2> QED BY <1>0, <1>2, <1>3, <1>8, <2>1, PlansMove DEF ReturnInv, ReturnReceived,
             Undisturbed, PostedMeanwhile
<1>9. rLines[b] = {} => ReturnSent(b)' /\ ReturnReceived(b)'
  BY <1>2 DEF ReturnInv, ReturnRows, ReturnSent, ReturnReceived
<1> QED BY <1>4, <1>5, <1>6, <1>7, <1>8, <1>9 DEF ReturnInv

LEMMA ReturnDraftLines ==
    ASSUME NEW d \in ReturnDrafts PROVE Numbered(d.lines)
BY ReturnAssumptions DEF Numbered

LEMMA ReturnDeskKeeps ==
    ASSUME ReturnShape, NEW b \in ReturnBatches, ReturnInv(b), NEW u \in Users,
           ReturnDesk(b, u)
    PROVE  ReturnInv(b)'
<1>0. call' = call /\ posting' = posting /\ rReceipt' = rReceipt
  BY DEF ReturnDesk, CreateStockReturnDraft, UpdateStockReturnDraft,
     SubmitStockReturnBatch, ApproveStockReturnBatch, CancelStockReturnBatch, stockVars
<1>1. ASSUME NEW d \in ReturnDrafts, CreateStockReturnDraft(b, u, d) PROVE ReturnInv(b)'
  <2>1. /\ rStatus[b] = "ABSENT" /\ rStatus'[b] = "DRAFT" /\ rLines'[b] = d.lines
        /\ d.lines # {}
    BY <1>1 DEF CreateStockReturnDraft, ReturnAdvances, ReturnShape, ReturnLinesOk
  <2> QED BY <1>0, <2>1, ReturnDraftLines DEF ReturnInv, ReturnRows, ReturnEarly, Untouched,
             ReturnStatuses, ReturnLater, ReturnSent, ReturnUnreceived, ReturnOnItsWay,
             ReturnReceived
<1>2. ASSUME NEW d \in ReturnDrafts, UpdateStockReturnDraft(b, u, d.lines)
      PROVE  ReturnInv(b)'
  <2>1. /\ rStatus[b] = "DRAFT" /\ rStatus'[b] = "DRAFT" /\ rLines'[b] = d.lines
        /\ d.lines # {}
    BY <1>2 DEF UpdateStockReturnDraft, ReturnShape, ReturnLinesOk
  <2> QED BY <1>0, <2>1, ReturnDraftLines DEF ReturnInv, ReturnRows, ReturnEarly, Untouched,
             ReturnStatuses, ReturnLater, ReturnSent, ReturnUnreceived, ReturnOnItsWay,
             ReturnReceived
<1>3. ASSUME SubmitStockReturnBatch(b, u) PROVE ReturnInv(b)'
  <2>1. rStatus[b] = "DRAFT" /\ rStatus'[b] = "SUBMITTED" /\ rLines'[b] = rLines[b]
    BY <1>3 DEF SubmitStockReturnBatch, ReturnAdvances, ReturnShape
  <2> QED BY <1>0, <2>1 DEF ReturnInv, ReturnRows, ReturnEarly, Untouched,
             ReturnStatuses, ReturnLater, ReturnSent, ReturnUnreceived, ReturnOnItsWay,
             ReturnReceived
<1>4. ASSUME ApproveStockReturnBatch(b, u) PROVE ReturnInv(b)'
  <2>1. rStatus[b] = "SUBMITTED" /\ rStatus'[b] = "APPROVED" /\ rLines'[b] = rLines[b]
    BY <1>4 DEF ApproveStockReturnBatch, ReturnAdvances, ReturnShape
  <2>2. ReturnLater(b)' BY <1>0, <2>1 DEF ReturnInv, ReturnEarly, ReturnLater, Untouched
  <2> QED BY <1>0, <2>1, <2>2 DEF ReturnInv, ReturnRows, ReturnEarly, Untouched,
             ReturnStatuses, ReturnSent, ReturnUnreceived, ReturnOnItsWay, ReturnReceived
<1>5. ASSUME CancelStockReturnBatch(b, u) PROVE ReturnInv(b)'
  <2>1. /\ rStatus[b] \in {"DRAFT", "SUBMITTED"} /\ rStatus'[b] = "CANCELLED"
        /\ rLines'[b] = rLines[b]
    BY <1>5 DEF CancelStockReturnBatch, ReturnAdvances, ReturnShape
  <2> QED BY <1>0, <2>1 DEF ReturnInv, ReturnRows, ReturnEarly, Untouched,
             ReturnStatuses, ReturnLater, ReturnSent, ReturnUnreceived, ReturnOnItsWay,
             ReturnReceived
<1> QED BY <1>1, <1>2, <1>3, <1>4, <1>5 DEF ReturnDesk

LEMMA ReturnStartKeeps ==
    ASSUME HqLedger, NEW b \in ReturnBatches, ReturnInv(b), NEW c \in Callers,
           NEW u \in Users, DispatchReturnPrepare(c, b, u)
    PROVE  ReturnInv(b)'
<1>0. CallShape(HqSlots) BY DEF HqLedger, LedgerInv
<1>1. /\ Prepared(c, ReturnSlot(b), ReturnPlan(b), {}, rVersion[b])
      /\ posting' = posting /\ rStatus[b] \in {"APPROVED", "DISPATCHED"}
      /\ rStatus' = rStatus /\ rLines' = rLines /\ rReceipt' = rReceipt
  BY DEF DispatchReturnPrepare, returnVars
<1>2. /\ call'[c].slot = ReturnSlot(b) /\ call'[c].plan = ReturnPlan(b)
      /\ \A k \in Callers \ {c} : call'[k] = call[k]
  BY <1>0, <1>1, StartsWith
<1>3. /\ ReturnPlan(b)' = ReturnPlan(b) /\ \A P : Disposed(P, b) => Disposed(P, b)'
      /\ \A reason : ReturnReceiptPlan(b, reason)' = ReturnReceiptPlan(b, reason)
  BY <1>1, PlansOfLines
<1>4. Untouched(ReturnReceiptSlot(b)) => Untouched(ReturnReceiptSlot(b))'
  BY <1>1, <1>2, SlotsApart DEF Untouched
<1>5. ReturnLater(b)' BY <1>1, <1>2, <1>3 DEF ReturnInv, ReturnLater
<1>6. ReturnOnItsWay(b)' BY <1>1, <1>2, <1>3, SlotsApart DEF ReturnInv, ReturnOnItsWay
<1>7. ReturnSent(b)' /\ ReturnUnreceived(b)'
  BY <1>1, <1>3, <1>4 DEF ReturnInv, ReturnSent, ReturnUnreceived
<1> QED BY <1>1, <1>5, <1>6, <1>7 DEF ReturnInv, ReturnRows, ReturnEarly, ReturnReceived

LEMMA DisposalStartKeeps ==
    ASSUME HqLedger, NEW b \in ReturnBatches, ReturnInv(b), NEW c \in Callers,
           NEW u \in Users, NEW reason \in Dispositions(b),
           ReceiveReturnPrepare(c, b, u, reason)
    PROVE  ReturnInv(b)'
<1>0. CallShape(HqSlots) BY DEF HqLedger, LedgerInv
<1>1. /\ Prepared(c, ReturnReceiptSlot(b), ReturnReceiptPlan(b, reason), {}, rVersion[b])
      /\ posting' = posting /\ rStatus[b] \in {"DISPATCHED", "RECEIVED_DISPOSED"}
      /\ rStatus' = rStatus /\ rLines' = rLines /\ rReceipt' = rReceipt
  BY DEF ReceiveReturnPrepare, returnVars
<1>2. /\ call'[c].slot = ReturnReceiptSlot(b)
      /\ call'[c].plan = ReturnReceiptPlan(b, reason)
      /\ \A k \in Callers \ {c} : call'[k] = call[k]
  BY <1>0, <1>1, StartsWith
<1>3. /\ ReturnPlan(b)' = ReturnPlan(b) /\ \A P : Disposed(P, b) => Disposed(P, b)'
      /\ \A r : ReturnReceiptPlan(b, r)' = ReturnReceiptPlan(b, r)
  BY <1>1, PlansOfLines
<1>4. Disposed(ReturnReceiptPlan(b, reason), b) BY DEF Disposed
<1>5. ReturnLater(b)' BY <1>1, <1>2, <1>3, SlotsApart DEF ReturnInv, ReturnLater
<1>6. ReturnOnItsWay(b)' BY <1>1, <1>2, <1>3, <1>4 DEF ReturnInv, ReturnOnItsWay
<1>7. ReturnSent(b)' /\ ReturnUnreceived(b)'
  BY <1>1, <1>3 DEF ReturnInv, ReturnSent, ReturnUnreceived
<1>8. ReturnReceived(b)'
  <2>1. ReceivedFor(b)' = ReceivedFor(b) BY <1>1 DEF ReceivedFor
  <2> QED BY <1>1, <1>3, <2>1 DEF ReturnInv, ReturnReceived
<1> QED BY <1>1, <1>5, <1>6, <1>7, <1>8 DEF ReturnInv, ReturnRows, ReturnEarly

LEMMA ReturnEndKeeps ==
    ASSUME HqLedger, ReturnShape, NEW b \in ReturnBatches, ReturnInv(b),
           NEW c \in Callers, DispatchReturnFinalize(c, b)
    PROVE  ReturnInv(b)'
<1>0. CallShape(HqSlots) /\ Answer BY DEF HqLedger, LedgerInv
<1>1. /\ call[c].phase = "posted" /\ call[c].slot = ReturnSlot(b) /\ Finished(c)
      /\ posting' = posting /\ doc' = doc /\ rLines' = rLines /\ rReceipt' = rReceipt
  BY DEF DispatchReturnFinalize
<1>2. posting[ReturnSlot(b)] = call[c].plan BY <1>0, <1>1 DEF Answer
<1>3. call'[c] = Idle /\ \A k \in Callers \ {c} : call'[k] = call[k]
  BY <1>0, <1>1, EndedCall
<1>4. Undisturbed(ReturnSlots(b))
  <2>1. ReturnSlots(b) \in SUBSET Slots BY SlotsKnown DEF HqSlots
  <2> QED BY <1>0, <1>1, <2>1, FinishedDisturbsNothing
<1>5. CASE rStatus' = rStatus
  BY <1>1, <1>4, <1>5, ReturnQuiet DEF SameReturn
<1>6. CASE ReturnAdvances(b, {"APPROVED"}, "DISPATCHED")
  <2>1. rStatus[b] = "APPROVED" /\ rStatus'[b] = "DISPATCHED"
    BY <1>6 DEF ReturnAdvances, ReturnShape
  <2>2. call[c].plan = ReturnPlan(b) BY <1>1, <2>1 DEF ReturnInv, ReturnLater
  <2>3. ReturnPlan(b)' = ReturnPlan(b) BY <1>1, PlansOfLines
  <2>4. Untouched(ReturnReceiptSlot(b))'
    BY <1>4, <2>1, UntouchedKept DEF ReturnInv, ReturnUnreceived, ReturnSlots
  <2>5. ReturnLater(b)'
    BY <1>1, <1>4, <2>1, <2>3 DEF ReturnInv, ReturnLater, Undisturbed, ReturnSlots
  <2>6. ReturnOnItsWay(b)'
    BY <1>1, <2>1, <2>4 DEF ReturnInv, ReturnUnreceived, ReturnOnItsWay, Untouched
  <2>7. ReturnSent(b)' BY <1>1, <1>2, <2>2, <2>3 DEF ReturnSent
  <2> QED BY <1>1, <2>1, <2>5, <2>6, <2>7 DEF ReturnInv, ReturnRows, ReturnStatuses,
             ReturnEarly, ReturnUnreceived, ReturnReceived
<1> QED BY <1>5, <1>6 DEF DispatchReturnFinalize

\* The reason read back from a posted plan is the one it was made for.
LEMMA ReasonReadBack ==
    ASSUME NEW b \in ReturnBatches, Numbered(rLines[b]), NEW reason \in Dispositions(b),
           NEW l \in rLines[b]
    PROVE  ReasonOf(ReturnReceiptPlan(b, reason), l.no) = reason[l.no]
<1> DEFINE plan == ReturnReceiptPlan(b, reason)
<1>1. reason[l.no] \in {"SPOILED", "OTHER"} BY DEF Dispositions, Reasons
<1>2. CASE reason[l.no] = "SPOILED"
  <2>1. WriteOff(b, l) \in plan BY <1>2 DEF ReturnReceiptPlan, Reusable
  <2>2. WriteOff(b, l).line = l.no /\ WriteOff(b, l).way = "OUT" BY DEF WriteOff
  <2> HIDE DEF plan
  <2>3. ReasonOf(plan, l.no) = "SPOILED" BY <2>1, <2>2 DEF ReasonOf
  <2> QED BY <1>2, <2>3 DEF plan
<1>3. CASE reason[l.no] = "OTHER"
  <2>1. ASSUME NEW m \in plan, m.line = l.no, m.way = "OUT" PROVE FALSE
    <3>1. CASE \E k \in rLines[b] : m = QuarantineIn(b, k, reason[k.no])
      BY <2>1, <3>1 DEF QuarantineIn
    <3>2. CASE \E k \in rLines[b] : reason[k.no] \notin Reusable /\ m = WriteOff(b, k)
      <4>1. PICK k \in rLines[b] : reason[k.no] \notin Reusable /\ m = WriteOff(b, k)
        BY <3>2
      <4>2. k.no = l.no BY <2>1, <4>1 DEF WriteOff
      <4> QED BY <1>3, <4>1, <4>2 DEF Reusable
    <3> QED BY <2>1, <3>1, <3>2 DEF ReturnReceiptPlan
  <2> HIDE DEF plan
  <2>2. ReasonOf(plan, l.no) = "OTHER" BY <2>1 DEF ReasonOf
  <2> QED BY <1>3, <2>2 DEF plan
<1> QED BY <1>1, <1>2, <1>3

\* A plan depends on the reasons of the batch's own lines only.
LEMMA SameReasonsSamePlan ==
    ASSUME NEW b \in ReturnBatches, NEW r, NEW s, \A l \in rLines[b] : r[l.no] = s[l.no]
    PROVE  ReturnReceiptPlan(b, r) = ReturnReceiptPlan(b, s)
<1>1. {QuarantineIn(b, l, r[l.no]) : l \in rLines[b]}
        = {QuarantineIn(b, l, s[l.no]) : l \in rLines[b]}
  OBVIOUS
<1>2. {k \in rLines[b] : r[k.no] \notin Reusable} = {k \in rLines[b] : s[k.no] \notin Reusable}
  OBVIOUS
<1> QED BY <1>1, <1>2 DEF ReturnReceiptPlan

LEMMA DisposalEndKeeps ==
    ASSUME HqLedger, ReturnShape, NEW b \in ReturnBatches, ReturnInv(b),
           NEW c \in Callers, ReceiveReturnFinalize(c, b)
    PROVE  ReturnInv(b)'
<1>0. CallShape(HqSlots) /\ Answer BY DEF HqLedger, LedgerInv
<1>1. /\ call[c].phase = "posted" /\ call[c].slot = ReturnReceiptSlot(b) /\ Finished(c)
      /\ posting' = posting /\ doc' = doc /\ rLines' = rLines
  BY DEF ReceiveReturnFinalize
<1>2. posting[ReturnReceiptSlot(b)] = call[c].plan BY <1>0, <1>1 DEF Answer
<1>3. call'[c] = Idle /\ \A k \in Callers \ {c} : call'[k] = call[k]
  BY <1>0, <1>1, EndedCall
<1>4. Undisturbed(ReturnSlots(b))
  <2>1. ReturnSlots(b) \in SUBSET Slots BY SlotsKnown DEF HqSlots
  <2> QED BY <1>0, <1>1, <2>1, FinishedDisturbsNothing
<1>5. CASE rStatus' = rStatus /\ rReceipt' = rReceipt
  BY <1>1, <1>4, <1>5, ReturnQuiet DEF SameReturn
<1>6. CASE /\ ReturnAdvances(b, {"DISPATCHED"}, "RECEIVED_DISPOSED")
           /\ rReceipt' = [rReceipt EXCEPT ![b] =
                @ \cup {x \in ReceiptRows(b, call[c].plan) : \A y \in @ : y.no # x.no}]
  <2>1. rStatus[b] = "DISPATCHED" /\ rStatus'[b] = "RECEIVED_DISPOSED"
    BY <1>6 DEF ReturnAdvances, ReturnShape
  <2>2. /\ rReceipt[b] = {} /\ Numbered(rLines[b]) /\ Disposed(call[c].plan, b)
        /\ rLines[b] # {} /\ posting[ReturnSlot(b)] = ReturnPlan(b)
    BY <1>1, <2>1 DEF ReturnInv, ReturnRows, ReturnOnItsWay, ReturnSent
  <2>3. rReceipt'[b] = ReceiptRows(b, call[c].plan)
    BY <1>6, <2>2 DEF ReturnShape
  <2>4. PICK reason \in Dispositions(b) : call[c].plan = ReturnReceiptPlan(b, reason)
    BY <2>2 DEF Disposed
  <2> DEFINE row(l) == [no |-> l.no, lot |-> QuarantineLot(b, l.no), qty |-> l.qty,
                        reason |-> ReasonOf(call[c].plan, l.no)]
  <2>5. rReceipt'[b] = {row(l) : l \in rLines[b]} BY <2>3 DEF ReceiptRows
  <2>6. ASSUME NEW l \in rLines[b] PROVE row(l).no = l.no /\ row(l).reason = reason[l.no]
    BY <2>2, <2>4, ReasonReadBack
  <2> HIDE DEF row
  <2>7. ASSUME NEW l \in rLines[b] PROVE ReceivedFor(b)'[l.no] = reason[l.no]
    <3>1. row(l) \in rReceipt'[b] BY <2>5
    <3>2. ASSUME NEW x \in rReceipt'[b], x.no = l.no PROVE x.reason = reason[l.no]
      <4>1. PICK k \in rLines[b] : x = row(k) BY <2>5
      <4>2. k.no = l.no BY <2>6, <3>2, <4>1
      <4> QED BY <2>6, <4>1, <4>2
    <3>3. (CHOOSE x \in rReceipt'[b] : x.no = l.no).reason = reason[l.no]
      BY <2>6, <3>1, <3>2
    <3>4. l.no \in {x.no : x \in rReceipt'[b]} BY <2>6, <3>1
    <3> QED BY <3>3, <3>4 DEF ReceivedFor
  <2>8. /\ ReturnPlan(b)' = ReturnPlan(b)
        /\ \A r : ReturnReceiptPlan(b, r)' = ReturnReceiptPlan(b, r)
    BY <1>1, PlansOfLines
  <2>9. ReturnReceiptPlan(b, ReceivedFor(b)') = ReturnReceiptPlan(b, reason)
    BY <2>7, SameReasonsSamePlan
  <2>10. ReturnReceiptPlan(b, ReceivedFor(b))' = ReturnReceiptPlan(b, ReceivedFor(b)')
    BY <1>1 DEF ReturnReceiptPlan, QuarantineIn, WriteOff, QuarantineLot, Quarantine
  <2>11. ReturnReceived(b)'
    BY <1>1, <1>2, <2>4, <2>9, <2>10 DEF ReturnReceived
  <2>12. ReturnLater(b)' /\ ReturnSent(b)'
    BY <1>1, <1>4, <2>1, <2>2, <2>8 DEF ReturnInv, ReturnLater, ReturnSent, Undisturbed,
       ReturnSlots
  <2> QED BY <1>1, <2>1, <2>2, <2>11, <2>12 DEF ReturnInv, ReturnRows, ReturnStatuses,
             ReturnEarly, ReturnUnreceived, ReturnOnItsWay
<1> QED BY <1>5, <1>6 DEF ReceiveReturnFinalize

LEMMA ReturnInitial == ASSUME HqInit PROVE ReturnHistory
<1>1. ReturnInit /\ StockInit BY DEF HqInit
<1>2. Idle.slot = NoSlot BY DEF Idle
<1>3. ReturnShape BY <1>1 DEF ReturnInit, ReturnShape
<1>4. ASSUME NEW b \in ReturnBatches PROVE ReturnInv(b)
  <2>1. rStatus[b] = "ABSENT" /\ rLines[b] = {} /\ rReceipt[b] = {} BY <1>1 DEF ReturnInit
  <2>2. ReturnSlot(b) \in HqSlots /\ ReturnReceiptSlot(b) \in HqSlots
    BY DEF HqSlots, ReturnSlots
  <2>3. Untouched(ReturnSlot(b)) /\ Untouched(ReturnReceiptSlot(b))
    BY <1>1, <1>2, <2>2, SlotsKnown, NoSlotIsNone DEF StockInit, Untouched
  <2> QED BY <2>1, <2>3 DEF ReturnInv, ReturnRows, ReturnEarly, ReturnLater, ReturnSent,
             ReturnUnreceived, ReturnOnItsWay, ReturnReceived, ReturnStatuses, Numbered
<1> QED BY <1>3, <1>4 DEF ReturnHistory

LEMMA ReturnKept ==
    ASSUME HqLedger, ReturnHistory, [HqNext]_hqVars PROVE ReturnHistory'
<1>1. ReturnShape BY DEF ReturnHistory
<1>2. ReturnShape' BY <1>1, ReturnShapeKept
<1>3. ASSUME NEW b \in ReturnBatches PROVE ReturnInv(b)'
  <2>0. ReturnInv(b) BY DEF ReturnHistory
  <2>1. CASE ReturnStep(b)
    BY <1>1, <2>0, <2>1, ReturnDeskKeeps, ReturnStartKeeps, DisposalStartKeeps,
       ReturnEndKeeps, DisposalEndKeeps DEF ReturnStep
  <2>2. CASE SameReturn(b) /\ Undisturbed(ReturnSlots(b))
    BY <2>0, <2>2, ReturnQuiet
  <2> QED BY <1>1, <2>1, <2>2, ReturnFrame
<1> QED BY <1>2, <1>3 DEF ReturnHistory

-----------------------------------------------------------------------------
(* QA releases.                                                            *)

ReleaseShape ==
    /\ DOMAIN qStatus = Releases /\ DOMAIN qVersion = Releases
    /\ DOMAIN qMaker = Releases /\ DOMAIN qLines = Releases

ReleaseEarly(q) == qStatus[q] \in {"ABSENT", "DRAFT", "SUBMITTED"} =>
    Untouched(ReleaseSlot(q))
ReleaseLater(q) == qStatus[q] \notin {"ABSENT", "DRAFT", "SUBMITTED"} =>
    /\ \A c \in Callers : call[c].slot = ReleaseSlot(q) => call[c].plan = ReleasePlan(q)
    /\ posting[ReleaseSlot(q)] \in {{}, ReleasePlan(q)}
ReleaseDone(q) == qStatus[q] = "RELEASED" =>
    posting[ReleaseSlot(q)] = ReleasePlan(q) /\ ReleasePlan(q) # {}

ReleaseInv(q) == ReleaseEarly(q) /\ ReleaseLater(q) /\ ReleaseDone(q)
ReleaseHistory == ReleaseShape /\ \A q \in Releases : ReleaseInv(q)

SameRelease(q) == qStatus'[q] = qStatus[q] /\ qLines'[q] = qLines[q]

ReleaseDeskStep(q, u) ==
    \/ \E lines \in ReleaseDrafts :
         CreateQaReleaseDraft(q, u, lines) \/ UpdateQaReleaseDraft(q, u, lines)
    \/ SubmitQaRelease(q, u) \/ ApproveQaRelease(q, u) \/ CancelQaRelease(q, u)

LEMMA ReleaseShapeKept == ASSUME ReleaseShape, [HqNext]_hqVars PROVE ReleaseShape'
<1>1. ASSUME NEW q \in Releases, ReleaseStep(q) PROVE ReleaseShape'
  <2>1. ASSUME NEW u \in Users, ReleaseDeskStep(q, u) PROVE ReleaseShape'
    BY <2>1 DEF ReleaseDeskStep, CreateQaReleaseDraft, UpdateQaReleaseDraft,
       SubmitQaRelease, ApproveQaRelease, CancelQaRelease, ReleaseAdvances, ReleaseShape
  <2>2. ASSUME NEW c \in Callers, ReleaseFinalize(c, q) PROVE ReleaseShape'
    BY <2>2 DEF ReleaseFinalize, ReleaseAdvances, ReleaseShape
  <2>3. ASSUME UNCHANGED releaseVars PROVE ReleaseShape'
    BY <2>3 DEF releaseVars, ReleaseShape
  <2> QED BY <1>1, <2>1, <2>2, <2>3 DEF ReleaseStep, ReleaseDeskStep, ReleasePrepare
<1>2. ASSUME UNCHANGED releaseVars PROVE ReleaseShape'
  BY <1>2 DEF releaseVars, ReleaseShape
<1> QED BY <1>1, <1>2 DEF HqNext, ReleaseNext, hqVars

LEMMA OtherReleases ==
    ASSUME ReleaseShape, NEW q \in Releases, NEW p \in Releases, p # q, ReleaseStep(p)
    PROVE  SameRelease(q)
<1>1. ASSUME NEW u \in Users, ReleaseDeskStep(p, u) PROVE SameRelease(q)
  BY <1>1 DEF ReleaseDeskStep, CreateQaReleaseDraft, UpdateQaReleaseDraft,
     SubmitQaRelease, ApproveQaRelease, CancelQaRelease, ReleaseAdvances, ReleaseShape,
     SameRelease
<1>2. ASSUME NEW c \in Callers, ReleaseFinalize(c, p) PROVE SameRelease(q)
  BY <1>2 DEF ReleaseFinalize, ReleaseAdvances, ReleaseShape, SameRelease
<1>3. ASSUME UNCHANGED releaseVars PROVE SameRelease(q)
  BY <1>3 DEF releaseVars, SameRelease
<1> QED BY <1>1, <1>2, <1>3 DEF ReleaseStep, ReleaseDeskStep, ReleasePrepare

LEMMA ReleaseFrame ==
    ASSUME HqLedger, ReleaseShape, [HqNext]_hqVars, NEW q \in Releases
    PROVE  ReleaseStep(q) \/ (SameRelease(q) /\ Undisturbed({ReleaseSlot(q)}))
<1>0. {ReleaseSlot(q)} \in SUBSET Slots BY SlotsKnown DEF HqSlots
<1>1. ASSUME NEW T, LedgerStep(T), T \cap {ReleaseSlot(q)} = {} PROVE Undisturbed({ReleaseSlot(q)})
  BY <1>0, <1>1, QuietSteps DEF HqLedger
<1>2. ASSUME UNCHANGED releaseVars PROVE SameRelease(q)
  BY <1>2 DEF releaseVars, SameRelease
<1>3. CASE (PostingNext \/ \E c \in Callers : Compensate(c)) /\ UNCHANGED releaseVars
  <2>1. LedgerStep({}) BY <1>3, PostingSteps DEF HqLedger, LedgerInv, LedgerStep
  <2> QED BY <1>1, <1>2, <1>3, <2>1
<1>4. ASSUME NEW p \in Releases, ReleaseStep(p), p # q
      PROVE  SameRelease(q) /\ Undisturbed({ReleaseSlot(q)})
  BY <1>1, <1>4, OtherReleases, ReleaseSteps, SlotsApart
<1>5. ASSUME NEW o \in TransferOrders, TransferStep(o), UNCHANGED releaseVars
      PROVE  SameRelease(q) /\ Undisturbed({ReleaseSlot(q)})
  BY <1>1, <1>2, <1>5, TransferSteps, SlotsApart
<1>6. ASSUME NEW b \in ReturnBatches, ReturnStep(b), UNCHANGED releaseVars
      PROVE  SameRelease(q) /\ Undisturbed({ReleaseSlot(q)})
  BY <1>1, <1>2, <1>6, ReturnSteps, SlotsApart
<1>7. CASE UNCHANGED hqVars
  <2>1. LedgerStep({}) BY <1>7 DEF hqVars, stockVars, LedgerStep, Passing, Still
  <2> QED BY <1>1, <1>2, <1>7, <2>1 DEF hqVars
<1> QED BY <1>3, <1>4, <1>5, <1>6, <1>7 DEF HqNext, TransferNext, ReturnNext, ReleaseNext

LEMMA ReleaseQuiet ==
    ASSUME NEW q \in Releases, ReleaseInv(q), SameRelease(q), Undisturbed({ReleaseSlot(q)})
    PROVE  ReleaseInv(q)'
<1>1. Untouched(ReleaseSlot(q)) => Untouched(ReleaseSlot(q))'
  BY UntouchedKept
<1>2. qStatus'[q] = qStatus[q] /\ ReleasePlan(q)' = ReleasePlan(q)
  BY DEF SameRelease, ReleasePlan, ReleaseMove
<1>3. ReleaseEarly(q)' BY <1>1, <1>2 DEF ReleaseInv, ReleaseEarly
<1>4. ReleaseLater(q)'
  BY <1>2 DEF ReleaseInv, ReleaseLater, Undisturbed, PostedMeanwhile
<1>5. ReleaseDone(q)'
  BY <1>2 DEF ReleaseInv, ReleaseDone, Undisturbed, PostedMeanwhile
<1> QED BY <1>3, <1>4, <1>5 DEF ReleaseInv

LEMMA ReleaseStepKeeps ==
    ASSUME HqLedger, ReleaseShape, NEW q \in Releases, ReleaseInv(q), ReleaseStep(q)
    PROVE  ReleaseInv(q)'
<1>0. CallShape(HqSlots) /\ Answer BY DEF HqLedger, LedgerInv
<1>1. ASSUME NEW u \in Users, ReleaseDeskStep(q, u) PROVE ReleaseInv(q)'
  <2>1. call' = call /\ posting' = posting
    BY <1>1 DEF ReleaseDeskStep, CreateQaReleaseDraft, UpdateQaReleaseDraft,
       SubmitQaRelease, ApproveQaRelease, CancelQaRelease, stockVars
  <2>2. CASE \E lines \in ReleaseDrafts :
               CreateQaReleaseDraft(q, u, lines) \/ UpdateQaReleaseDraft(q, u, lines)
    <3>1. qStatus[q] \in {"ABSENT", "DRAFT"} /\ qStatus'[q] = "DRAFT"
      BY <2>2 DEF CreateQaReleaseDraft, UpdateQaReleaseDraft, ReleaseAdvances, ReleaseShape
    <3> QED BY <2>1, <3>1 DEF ReleaseInv, ReleaseEarly, ReleaseLater, ReleaseDone, Untouched
  <2>3. CASE SubmitQaRelease(q, u)
    <3>1. qStatus[q] = "DRAFT" /\ qStatus'[q] = "SUBMITTED"
      BY <2>3 DEF SubmitQaRelease, ReleaseAdvances, ReleaseShape
    <3> QED BY <2>1, <3>1 DEF ReleaseInv, ReleaseEarly, ReleaseLater, ReleaseDone, Untouched
  <2>4. CASE ApproveQaRelease(q, u) \/ CancelQaRelease(q, u)
    <3>1. /\ qStatus[q] \in {"DRAFT", "SUBMITTED", "APPROVED"}
          /\ qStatus'[q] \in {"APPROVED", "CANCELLED"} /\ qLines'[q] = qLines[q]
      BY <2>4 DEF ApproveQaRelease, CancelQaRelease, ReleaseAdvances, ReleaseShape
    <3>2. ReleasePlan(q)' = ReleasePlan(q) BY <3>1 DEF ReleasePlan, ReleaseMove
    <3> QED BY <2>1, <3>1, <3>2 DEF ReleaseInv, ReleaseEarly, ReleaseLater, ReleaseDone,
               Untouched
  <2> QED BY <1>1, <2>2, <2>3, <2>4 DEF ReleaseDeskStep
<1>2. ASSUME NEW c \in Callers, NEW u \in Users, ReleasePrepare(c, q, u)
      PROVE  ReleaseInv(q)'
  <2>1. /\ Prepared(c, ReleaseSlot(q), ReleasePlan(q), {}, qVersion[q])
        /\ posting' = posting /\ qStatus[q] \in {"APPROVED", "RELEASED"}
        /\ qStatus' = qStatus /\ qLines' = qLines
    BY <1>2 DEF ReleasePrepare, releaseVars
  <2>2. /\ call'[c].plan = ReleasePlan(q) /\ \A k \in Callers \ {c} : call'[k] = call[k]
    BY <1>0, <2>1, StartsWith
  <2>3. ReleasePlan(q)' = ReleasePlan(q) BY <2>1 DEF ReleasePlan, ReleaseMove
  <2> QED BY <2>1, <2>2, <2>3 DEF ReleaseInv, ReleaseEarly, ReleaseLater, ReleaseDone
<1>3. ASSUME NEW c \in Callers, ReleaseFinalize(c, q) PROVE ReleaseInv(q)'
  <2>1. /\ call[c].phase = "posted" /\ call[c].slot = ReleaseSlot(q) /\ Finished(c)
        /\ posting' = posting /\ doc' = doc /\ qLines' = qLines
    BY <1>3 DEF ReleaseFinalize
  <2>2. posting[ReleaseSlot(q)] = call[c].plan /\ call[c].plan # {}
    BY <1>0, <2>1 DEF Answer
  <2>3. call'[c] = Idle /\ \A k \in Callers \ {c} : call'[k] = call[k]
    BY <1>0, <2>1, EndedCall
  <2>4. Undisturbed({ReleaseSlot(q)})
    <3>1. {ReleaseSlot(q)} \in SUBSET Slots BY SlotsKnown DEF HqSlots
    <3> QED BY <1>0, <2>1, <3>1, FinishedDisturbsNothing
  <2>5. CASE qStatus' = qStatus
    BY <2>1, <2>4, <2>5, ReleaseQuiet DEF SameRelease
  <2>6. CASE ReleaseAdvances(q, {"APPROVED"}, "RELEASED")
    <3>1. qStatus[q] = "APPROVED" /\ qStatus'[q] = "RELEASED"
      BY <2>6 DEF ReleaseAdvances, ReleaseShape
    <3>2. call[c].plan = ReleasePlan(q) BY <2>1, <3>1 DEF ReleaseInv, ReleaseLater
    <3>3. ReleasePlan(q)' = ReleasePlan(q) BY <2>1 DEF ReleasePlan, ReleaseMove
    <3>4. ReleaseLater(q)'
      BY <2>1, <2>4, <3>1, <3>3 DEF ReleaseInv, ReleaseLater, Undisturbed
    <3> QED BY <2>1, <2>2, <3>1, <3>2, <3>3, <3>4 DEF ReleaseInv, ReleaseEarly, ReleaseDone
  <2> QED BY <1>3, <2>5, <2>6 DEF ReleaseFinalize
<1> QED BY <1>1, <1>2, <1>3 DEF ReleaseStep, ReleaseDeskStep

LEMMA ReleaseInitial == ASSUME HqInit PROVE ReleaseHistory
<1>1. ReleaseInit /\ StockInit BY DEF HqInit
<1>2. Idle.slot = NoSlot BY DEF Idle
<1>3. ReleaseShape BY <1>1 DEF ReleaseInit, ReleaseShape
<1>4. ASSUME NEW q \in Releases PROVE ReleaseInv(q)
  <2>1. qStatus[q] = "ABSENT" BY <1>1 DEF ReleaseInit
  <2>2. ReleaseSlot(q) \in HqSlots BY DEF HqSlots
  <2>3. Untouched(ReleaseSlot(q))
    BY <1>1, <1>2, <2>2, SlotsKnown, NoSlotIsNone DEF StockInit, Untouched
  <2> QED BY <2>1, <2>3 DEF ReleaseInv, ReleaseEarly, ReleaseLater, ReleaseDone
<1> QED BY <1>3, <1>4 DEF ReleaseHistory

LEMMA ReleaseKept ==
    ASSUME HqLedger, ReleaseHistory, [HqNext]_hqVars PROVE ReleaseHistory'
<1>1. ReleaseShape BY DEF ReleaseHistory
<1>2. ReleaseShape' BY <1>1, ReleaseShapeKept
<1>3. ASSUME NEW q \in Releases PROVE ReleaseInv(q)'
  <2>0. ReleaseInv(q) BY DEF ReleaseHistory
  <2> QED BY <1>1, <2>0, ReleaseStepKeeps, ReleaseQuiet, ReleaseFrame
<1> QED BY <1>2, <1>3 DEF ReleaseHistory

-----------------------------------------------------------------------------
(* What follows for the documents.                                         *)

HqInv == HqLedger /\ TransferHistory /\ ReturnHistory /\ ReleaseHistory

LEMMA HqInductive == HqSpec => []HqInv
<1>1. HqInit => HqInv
  BY LedgerInitial, TransferInitial, ReturnInitial, ReleaseInitial DEF HqInv, HqLedger, HqInit
<1>2. HqInv /\ [HqNext]_hqVars => HqInv'
  BY HqLedgerKept, TransferKept, ReturnKept, ReleaseKept DEF HqInv
<1> QED BY <1>1, <1>2, PTL DEF HqSpec

\* A status that says stock has moved is backed by the one posting that moved
\* it, and the lots, quantities and reasons the finalizing handlers wrote are
\* that posting's (dispatch, receive, dispose and release, for any number of
\* documents, lines, callers and crashes).
THEOREM StatusesBacked == HqSpec => []StatusBackedByPosting
<1>1. HqInv => StatusBackedByPosting
  <2> SUFFICES ASSUME HqInv PROVE StatusBackedByPosting OBVIOUS
  <2>1. ASSUME NEW o \in TransferOrders PROVE TransferSent(o) /\ TransferReceived(o)
    BY DEF HqInv, TransferHistory, TransferInv
  <2>2. ASSUME NEW b \in ReturnBatches PROVE ReturnSent(b) /\ ReturnReceived(b)
    BY DEF HqInv, ReturnHistory, ReturnInv
  <2>3. ASSUME NEW q \in Releases PROVE ReleaseDone(q)
    BY DEF HqInv, ReleaseHistory, ReleaseInv
  <2> QED BY <2>1, <2>2, <2>3 DEF StatusBackedByPosting, TransferSent, TransferReceived,
             ReturnSent, ReturnReceived, ReleaseDone
<1> QED BY <1>1, HqInductive, PTL

\* Nothing is received that was not dispatched: every movement in at the far
\* end answers one out at the near end, of the same line and lot, of no more.
THEOREM ReceivedWasSent == HqSpec => []ReceivedWithinDispatched
<1>1. HqInv => ReceivedWithinDispatched
  <2> SUFFICES ASSUME HqInv PROVE ReceivedWithinDispatched OBVIOUS
  <2>1. ASSUME NEW o \in TransferOrders, NEW m \in posting[ReceiptSlot(o)]
        PROVE  \E k \in posting[DispatchSlot(o)] :
                  k.line = m.line /\ k.lot = m.lot /\ m.qty <= k.qty
    <3>0. TransferInv(o) BY DEF HqInv, TransferHistory
    <3>1. tStatus[o] \in {"DISPATCHED", "RECEIVED"}
      BY <3>0 DEF TransferInv, TransferRows, TransferStatuses, TransferEarly,
         TransferApproved, TransferCancelled, Untouched
    <3>2. posting[DispatchSlot(o)] = {DispatchMove(l, tFrom[o], l.lot) : l \in tLines[o]}
      BY <3>0, <3>1 DEF TransferInv, TransferSent
    <3>3. PICK l \in tLines[o] : \E q : m = ReceiptMove(l, tTo[o], q) /\ q <= l.qty
      <4>1. CASE tStatus[o] = "RECEIVED"
        BY <3>0, <4>1 DEF TransferInv, TransferReceived
      <4>2. CASE tStatus[o] = "DISPATCHED"
        <5>1. Counted(posting[ReceiptSlot(o)], tLines[o], tTo[o])
          BY <3>0, <4>2 DEF TransferInv, TransferOnItsWay
        <5>2. PICK f : /\ posting[ReceiptSlot(o)]
                            = {ReceiptMove(l, tTo[o], f[l.no]) : l \in tLines[o]}
                       /\ \A l \in tLines[o] : f[l.no] <= l.sent
          BY <5>1 DEF Counted
        <5>3. \A l \in tLines[o] : l.sent = l.qty
          BY <3>0, <4>2 DEF TransferInv, TransferOnItsWay
        <5> QED BY <5>2, <5>3
      <4> QED BY <3>1, <4>1, <4>2
    <3>4. DispatchMove(l, tFrom[o], l.lot) \in posting[DispatchSlot(o)] BY <3>2
    <3> QED BY <3>3, <3>4 DEF DispatchMove, ReceiptMove
  <2>2. ASSUME NEW b \in ReturnBatches, NEW m \in posting[ReturnReceiptSlot(b)]
        PROVE  \E k \in posting[ReturnSlot(b)] : k.line = m.line /\ m.qty = k.qty
    <3>0. ReturnInv(b) BY DEF HqInv, ReturnHistory
    <3>1. rStatus[b] \in {"DISPATCHED", "RECEIVED_DISPOSED"}
      BY <3>0 DEF ReturnInv, ReturnUnreceived, Untouched
    <3>2. posting[ReturnSlot(b)] = ReturnPlan(b) BY <3>0, <3>1 DEF ReturnInv, ReturnSent
    <3>3. \E reason : posting[ReturnReceiptSlot(b)] = ReturnReceiptPlan(b, reason)
      BY <3>0, <3>1 DEF ReturnInv, ReturnOnItsWay, ReturnReceived, Disposed
    <3>4. PICK l \in rLines[b] : m.line = l.no /\ m.qty = l.qty
      BY <3>3 DEF ReturnReceiptPlan, QuarantineIn, WriteOff
    <3> DEFINE k == [line |-> l.no, way |-> "OUT", wh |-> l.wh, lot |-> l.lot,
                     qty |-> l.qty, policy |-> "CUSTODY_MOVE"]
    <3>5. k \in posting[ReturnSlot(b)] BY <3>2 DEF ReturnPlan
    <3>6. k.line = l.no /\ k.qty = l.qty OBVIOUS
    <3> HIDE DEF k
    <3> QED BY <3>4, <3>5, <3>6
  <2> QED BY <2>1, <2>2 DEF ReceivedWithinDispatched
<1> QED BY <1>1, HqInductive, PTL

\* A retry replays: after the stock of a return, a release or a transfer with
\* pinned lots has left, every request prepared for it asks for the very plan
\* that was posted, so its key is never refused as reused for another plan.
THEOREM RetriesReplay == HqSpec => []RetryReplays
<1>1. HqInv => RetryReplays
  <2> SUFFICES ASSUME HqInv, NEW c \in Callers, call[c].phase = "prepared",
                      posting[call[c].slot] # {},
                      \/ call[c].slot[2] \in {"STOCK_RETURN_DISPATCH", "QA_RELEASE"}
                      \/ /\ call[c].slot[2] = "TRANSFER_ORDER_DISPATCH"
                         /\ tStatus[call[c].slot[1]] = "APPROVED"
                         /\ \A l \in tLines[call[c].slot[1]] : l.lot # None
               PROVE  call[c].plan = posting[call[c].slot]
    BY DEF RetryReplays
  <2>1. call[c].slot \in HqSlots BY DEF HqInv, HqLedger, LedgerInv, CallShape
  <2>2. CASE \E b \in ReturnBatches : call[c].slot = ReturnSlot(b)
    <3> PICK b \in ReturnBatches : call[c].slot = ReturnSlot(b) BY <2>2
    <3>1. ReturnInv(b) BY DEF HqInv, ReturnHistory
    <3>2. rStatus[b] \in {"APPROVED", "DISPATCHED", "RECEIVED_DISPOSED"}
      BY <3>1 DEF ReturnInv, ReturnRows, ReturnStatuses, ReturnEarly, Untouched
    <3> QED BY <3>1, <3>2 DEF ReturnInv, ReturnLater
  <2>3. CASE \E q \in Releases : call[c].slot = ReleaseSlot(q)
    <3> PICK q \in Releases : call[c].slot = ReleaseSlot(q) BY <2>3
    <3>1. ReleaseInv(q) BY DEF HqInv, ReleaseHistory
    <3> QED BY <3>1 DEF ReleaseInv, ReleaseEarly, ReleaseLater, Untouched
  <2>4. CASE \E o \in TransferOrders : call[c].slot = DispatchSlot(o)
    <3> PICK o \in TransferOrders : call[c].slot = DispatchSlot(o) BY <2>4
    <3>1. TransferInv(o) BY DEF HqInv, TransferHistory
    <3>2. tStatus[o] = "APPROVED" /\ \A l \in tLines[o] : l.lot # None
      BY DEF DispatchSlot
    <3>3. /\ Chosen(call[c].plan, tLines[o], tFrom[o])
          /\ Chosen(posting[DispatchSlot(o)], tLines[o], tFrom[o])
      BY <3>1, <3>2 DEF TransferInv, TransferApproved
    <3>4. ASSUME NEW P, Chosen(P, tLines[o], tFrom[o])
          PROVE  P = {DispatchMove(l, tFrom[o], l.lot) : l \in tLines[o]}
      <4>1. PICK f : /\ P = {DispatchMove(l, tFrom[o], f[l]) : l \in tLines[o]}
                     /\ \A l \in tLines[o] : l.lot # None => f[l] = l.lot
        BY <3>4 DEF Chosen
      <4>2. \A l \in tLines[o] : f[l] = l.lot BY <3>2, <4>1
      <4> QED BY <4>1, <4>2
    <3> QED BY <3>3, <3>4
  <2>5. call[c].slot \notin {ReceiptSlot(o) : o \in TransferOrders}
                              \cup {ReturnReceiptSlot(b) : b \in ReturnBatches}
    BY DEF ReceiptSlot, ReturnReceiptSlot
  <2> QED BY <2>1, <2>2, <2>3, <2>4, <2>5 DEF HqSlots, TransferSlots, ReturnSlots
<1> QED BY <1>1, HqInductive, PTL

-----------------------------------------------------------------------------
(* The types of the HQ documents.  A plan is typed and finite because the  *)
(* lines it is made of are: they are those of a draft, with the lots and   *)
(* quantities of what was posted filled in.                                *)

TransferTyped ==
    /\ TransferTypeOK
    /\ \A o \in TransferOrders :
         /\ IsFiniteSet(tLines[o])
         /\ tStatus[o] # "ABSENT" => tFrom[o] \in Warehouses /\ tTo[o] \in Warehouses

ReturnTyped ==
    /\ ReturnTypeOK
    /\ \A b \in ReturnBatches : rLines[b] = {} \/ \E d \in ReturnDrafts : rLines[b] = d.lines

ReleaseTyped ==
    /\ ReleaseTypeOK
    /\ \A q \in Releases : qLines[q] = {} \/ qLines[q] \in ReleaseDrafts

\* First expiring, first out: there is a first.
LEMMA SoonestIn == ASSUME NEW S \in SUBSET Lots, S # {} PROVE Soonest(S) \in S
<1> DEFINE D == {Expiry[l] : l \in S}
<1>1. D \subseteq Nat /\ D # {}
  BY StockAssumptions
<1> HIDE DEF D
<1>2. PICK n \in D : \A m \in D : ~ (m < n)
  BY <1>1, NatLeast
<1>3. PICK l \in S : Expiry[l] = n
  BY DEF D
<1>4. \A k \in S : Expiry[k] \in D /\ Expiry[k] \in Nat
  BY StockAssumptions DEF D
<1>5. \A k \in S : Expiry[l] <= Expiry[k]
  BY <1>2, <1>3, <1>4
<1> QED BY <1>5 DEF Soonest

LEMMA DispatchPlanTyped ==
    ASSUME TransferTyped, NEW o \in TransferOrders, tStatus[o] # "ABSENT",
           \A l \in tLines[o] : l.lot # None \/ CoveringLots(l, tFrom[o]) # {}
    PROVE  DispatchPlan(o) \in Plans
<1> DEFINE f == [l \in tLines[o] |-> DispatchMove(l, tFrom[o], LotFor(l, tFrom[o]))]
<1>1. tFrom[o] \in Warehouses /\ IsFiniteSet(tLines[o]) /\ tLines[o] \subseteq TransferLine
  BY DEF TransferTyped, TransferTypeOK
<1>2. ASSUME NEW l \in tLines[o] PROVE f[l] \in Move
  <2>1. l \in TransferLine
    BY <1>1
  <2>2. LotFor(l, tFrom[o]) \in Lots
    <3>1. CASE l.lot # None
      BY <2>1, <3>1 DEF LotFor, TransferLine
    <3>2. CASE l.lot = None
      <4>1. CoveringLots(l, tFrom[o]) \in SUBSET Lots
        BY DEF CoveringLots, Plannable
      <4>2. CoveringLots(l, tFrom[o]) # {}
        BY <3>2
      <4>3. Soonest(CoveringLots(l, tFrom[o])) \in CoveringLots(l, tFrom[o])
        BY <4>1, <4>2, SoonestIn
      <4> QED BY <3>2, <4>1, <4>3 DEF LotFor
    <3> QED BY <3>1, <3>2
  <2>3. l.no \in Nat /\ l.qty \in Quantity
    BY <2>1 DEF TransferLine
  <2>4. f[l] = DispatchMove(l, tFrom[o], LotFor(l, tFrom[o]))
    OBVIOUS
  <2> HIDE DEF f
  <2> QED BY <1>1, <2>2, <2>3, <2>4 DEF DispatchMove, Move, Policies
<1>3. DispatchPlan(o) = {f[l] : l \in tLines[o]}
  BY DEF DispatchPlan
<1>4. f = [l \in tLines[o] |-> f[l]]
  OBVIOUS
<1> HIDE DEF f
<1> QED BY <1>1, <1>2, <1>3, <1>4, PlanOfLines

LEMMA ReceiptPlanTyped ==
    ASSUME TransferTyped, posting \in [Slots -> Plans], NEW o \in TransferOrders, TransferInv(o),
           tStatus[o] \in {"DISPATCHED", "RECEIVED"}, NEW got \in Receipts(tLines[o])
    PROVE  ReceiptPlan(o, got) \in Plans
<1> DEFINE f == [l \in tLines[o] |-> ReceiptMove(l, tTo[o], got[l.no])]
<1>1. tTo[o] \in Warehouses /\ IsFiniteSet(tLines[o]) /\ tLines[o] \subseteq TransferLine
  BY DEF TransferTyped, TransferTypeOK
<1>2. ASSUME NEW l \in tLines[o] PROVE f[l] \in Move
  <2>1. l.no \in Nat /\ got[l.no] \in Quantity
    BY <1>1 DEF TransferLine, Receipts
  <2>2. DispatchMove(l, tFrom[o], l.lot) \in posting[DispatchSlot(o)]
    BY DEF TransferInv, TransferSent
  <2>3. DispatchSlot(o) \in Slots
    BY TransferAssumptions DEF DispatchSlot
  <2>4. DispatchMove(l, tFrom[o], l.lot) \in Move
    BY <2>2, <2>3 DEF Plans
  <2>5. DispatchMove(l, tFrom[o], l.lot).lot = l.lot
    BY DEF DispatchMove
  <2>6. l.lot \in Lots
    BY <2>4, <2>5 DEF Move
  <2>7. f[l] = ReceiptMove(l, tTo[o], got[l.no])
    OBVIOUS
  <2> HIDE DEF f
  <2> QED BY <1>1, <2>1, <2>6, <2>7 DEF ReceiptMove, Move, Policies
<1>3. ReceiptPlan(o, got) = {f[l] : l \in tLines[o]}
  BY DEF ReceiptPlan
<1>4. f = [l \in tLines[o] |-> f[l]]
  OBVIOUS
<1> HIDE DEF f
<1> QED BY <1>1, <1>2, <1>3, <1>4, PlanOfLines

\* The lines of a dispatched or received order, with what the posting says.
LEMMA SentLinesTyped ==
    ASSUME NEW lines \in SUBSET TransferLine, IsFiniteSet(lines), NEW P \in SUBSET Move,
           NEW w, Chosen(P, lines, w)
    PROVE  AsSent(lines, P) \in SUBSET TransferLine /\ IsFiniteSet(AsSent(lines, P))
<1> DEFINE f == [l \in lines |->
                  IF l.sent = 0 THEN [l EXCEPT !.lot = LotOfLine(P, l.no), !.sent = l.qty]
                  ELSE l]
<1>1. AsSent(lines, P) = {f[l] : l \in lines}
  BY DEF AsSent
<1>2. ASSUME NEW l \in lines PROVE f[l] \in TransferLine
  <2>1. PICK g : P = {DispatchMove(k, w, g[k]) : k \in lines}
    BY DEF Chosen
  <2>2. DispatchMove(l, w, g[l]) \in P /\ DispatchMove(l, w, g[l]).line = l.no
    BY <2>1 DEF DispatchMove
  <2>3. LotOfLine(P, l.no) \in Lots
    BY <2>2 DEF LotOfLine, Move
  <2>4. l.qty \in 0..MaxQty
    BY StockAssumptions DEF TransferLine, Quantity
  <2> QED BY <2>3, <2>4 DEF TransferLine
<1>3. f = [l \in lines |-> f[l]] /\ DOMAIN f = lines
  OBVIOUS
<1> HIDE DEF f
<1>4. IsFiniteSet({f[l] : l \in lines})
  BY <1>3, FiniteImage
<1> QED BY <1>1, <1>2, <1>4

LEMMA GotLinesTyped ==
    ASSUME NEW lines \in SUBSET TransferLine, IsFiniteSet(lines), NEW P \in SUBSET Move,
           NEW w, Counted(P, lines, w)
    PROVE  AsGot(lines, P) \in SUBSET TransferLine /\ IsFiniteSet(AsGot(lines, P))
<1> DEFINE f == [l \in lines |->
                  IF l.got = 0 THEN [l EXCEPT !.got = (CHOOSE m \in P : m.line = l.no).qty]
                  ELSE l]
<1>1. AsGot(lines, P) = {f[l] : l \in lines}
  BY DEF AsGot
<1>2. ASSUME NEW l \in lines PROVE f[l] \in TransferLine
  <2>1. PICK g : P = {ReceiptMove(k, w, g[k.no]) : k \in lines}
    BY DEF Counted
  <2>2. ReceiptMove(l, w, g[l.no]) \in P /\ ReceiptMove(l, w, g[l.no]).line = l.no
    BY <2>1 DEF ReceiptMove
  <2>3. (CHOOSE m \in P : m.line = l.no) \in P
    BY <2>2
  <2>4. (CHOOSE m \in P : m.line = l.no).qty \in 0..MaxQty
    BY <2>3, StockAssumptions DEF Move, Quantity
  <2> QED BY <2>4 DEF TransferLine
<1>3. f = [l \in lines |-> f[l]] /\ DOMAIN f = lines
  OBVIOUS
<1> HIDE DEF f
<1>4. IsFiniteSet({f[l] : l \in lines})
  BY <1>3, FiniteImage
<1> QED BY <1>1, <1>2, <1>4

LEMMA TransferDeskTyped ==
    ASSUME TransferTyped, NEW o \in TransferOrders, NEW u \in Users,
           TransferDesk(o, u) \/ CancelTransferOrder(o, u)
    PROVE  TransferTyped'
<1>1. ASSUME NEW d \in TransferDrafts
      PROVE  /\ d.from \in Warehouses /\ d.to \in Warehouses /\ d.lines \in SUBSET TransferLine
             /\ IsFiniteSet(d.lines)
  BY TransferAssumptions DEF TransferDraft
<1>2. ASSUME NEW d \in TransferDrafts, CreateTransferOrderDraft(o, u, d)
      PROVE  TransferTyped'
  BY <1>1, <1>2 DEF CreateTransferOrderDraft, TransferAdvances, TransferTyped,
     TransferTypeOK, TransferStatuses
<1>3. ASSUME NEW d \in TransferDrafts, UpdateTransferOrderDraft(o, u, d.lines)
      PROVE  TransferTyped'
  BY <1>1, <1>3 DEF UpdateTransferOrderDraft, TransferTyped, TransferTypeOK
<1>4. ASSUME SubmitTransferOrder(o, u) PROVE TransferTyped'
  BY <1>4 DEF SubmitTransferOrder, TransferAdvances, TransferTyped, TransferTypeOK,
     TransferStatuses
<1>5. ASSUME ApproveTransferOrder(o, u) \/ CancelTransferOrder(o, u) PROVE TransferTyped'
  BY <1>5 DEF ApproveTransferOrder, CancelTransferOrder, TransferAdvances, TransferTyped,
     TransferTypeOK, TransferStatuses
<1> QED BY <1>2, <1>3, <1>4, <1>5 DEF TransferDesk

LEMMA DispatchEndTyped ==
    ASSUME StockTyped, HqLedger, TransferTyped, NEW o \in TransferOrders, TransferInv(o),
           NEW c \in Callers, DispatchTransferFinalize(c, o)
    PROVE  TransferTyped'
<1>0. tMaker' = tMaker /\ tFrom' = tFrom /\ tTo' = tTo
  BY DEF DispatchTransferFinalize
<1>1. CASE UNCHANGED <<tStatus, tVersion, tLines>>
  BY <1>0, <1>1 DEF TransferTyped, TransferTypeOK
<1>2. CASE /\ TransferAdvances(o, {"APPROVED"}, "DISPATCHED")
           /\ tLines' = [tLines EXCEPT ![o] =
                {IF l.sent = 0
                 THEN [l EXCEPT !.lot = LotOfLine(call[c].plan, l.no), !.sent = l.qty]
                 ELSE l : l \in @}]
  <2>0. TransferAdvances(o, {"APPROVED"}, "DISPATCHED")
    BY <1>2
  <2>1. tStatus[o] = "APPROVED" /\ call[c].slot = DispatchSlot(o)
    BY <1>2 DEF TransferAdvances, DispatchTransferFinalize
  <2>2. Chosen(call[c].plan, tLines[o], tFrom[o])
    BY <2>1 DEF TransferInv, TransferApproved
  <2>3. call[c].plan \in SUBSET Move
    BY SoundPlan DEF StockTyped, Plans
  <2>4. tLines[o] \in SUBSET TransferLine /\ IsFiniteSet(tLines[o])
    BY DEF TransferTyped, TransferTypeOK
  <2> DEFINE L == AsSent(tLines[o], call[c].plan)
  <2>5. L \in SUBSET TransferLine /\ IsFiniteSet(L)
    BY <2>2, <2>3, <2>4, SentLinesTyped
  <2>6. tLines' = [tLines EXCEPT ![o] = L]
    BY <1>2 DEF AsSent
  <2>7. tStatus' \in [TransferOrders -> TransferStatuses] /\ tVersion' \in [TransferOrders -> Nat]
    BY <2>0 DEF TransferAdvances, TransferTyped, TransferTypeOK, TransferStatuses
  <2> HIDE DEF L
  <2>8. tLines' \in [TransferOrders -> SUBSET TransferLine]
    BY <2>5, <2>6 DEF TransferTyped, TransferTypeOK
  <2>9. \A p \in TransferOrders : IsFiniteSet(tLines'[p]) /\ (tStatus'[p] # "ABSENT" => tStatus[p] # "ABSENT")
    BY <2>0, <2>1, <2>5, <2>6 DEF TransferAdvances, TransferTyped, TransferTypeOK
  <2> QED BY <1>0, <2>7, <2>8, <2>9 DEF TransferTyped, TransferTypeOK
<1> QED BY <1>1, <1>2 DEF DispatchTransferFinalize

LEMMA ReceiptEndTyped ==
    ASSUME StockTyped, HqLedger, TransferTyped, NEW o \in TransferOrders, TransferInv(o),
           NEW c \in Callers, ReceiveTransferFinalize(c, o)
    PROVE  TransferTyped'
<1>0. tMaker' = tMaker /\ tFrom' = tFrom /\ tTo' = tTo
  BY DEF ReceiveTransferFinalize
<1>1. CASE UNCHANGED <<tStatus, tVersion, tLines>>
  BY <1>0, <1>1 DEF TransferTyped, TransferTypeOK
<1>2. CASE /\ TransferAdvances(o, {"DISPATCHED"}, "RECEIVED")
           /\ tLines' = [tLines EXCEPT ![o] =
                {IF l.got = 0
                 THEN [l EXCEPT !.got = (CHOOSE m \in call[c].plan : m.line = l.no).qty]
                 ELSE l : l \in @}]
  <2>0. TransferAdvances(o, {"DISPATCHED"}, "RECEIVED")
    BY <1>2
  <2>1. tStatus[o] = "DISPATCHED" /\ call[c].slot = ReceiptSlot(o)
    BY <1>2 DEF TransferAdvances, ReceiveTransferFinalize
  <2>2. Counted(call[c].plan, tLines[o], tTo[o])
    BY <2>1 DEF TransferInv, TransferOnItsWay
  <2>3. call[c].plan \in SUBSET Move
    BY SoundPlan DEF StockTyped, Plans
  <2>4. tLines[o] \in SUBSET TransferLine /\ IsFiniteSet(tLines[o])
    BY DEF TransferTyped, TransferTypeOK
  <2> DEFINE L == AsGot(tLines[o], call[c].plan)
  <2>5. L \in SUBSET TransferLine /\ IsFiniteSet(L)
    BY <2>2, <2>3, <2>4, GotLinesTyped
  <2>6. tLines' = [tLines EXCEPT ![o] = L]
    BY <1>2 DEF AsGot
  <2>7. tStatus' \in [TransferOrders -> TransferStatuses] /\ tVersion' \in [TransferOrders -> Nat]
    BY <2>0 DEF TransferAdvances, TransferTyped, TransferTypeOK, TransferStatuses
  <2> HIDE DEF L
  <2>8. tLines' \in [TransferOrders -> SUBSET TransferLine]
    BY <2>5, <2>6 DEF TransferTyped, TransferTypeOK
  <2>9. \A p \in TransferOrders : IsFiniteSet(tLines'[p]) /\ (tStatus'[p] # "ABSENT" => tStatus[p] # "ABSENT")
    BY <2>0, <2>1, <2>5, <2>6 DEF TransferAdvances, TransferTyped, TransferTypeOK
  <2> QED BY <1>0, <2>7, <2>8, <2>9 DEF TransferTyped, TransferTypeOK
<1> QED BY <1>1, <1>2 DEF ReceiveTransferFinalize

LEMMA TransferStepTyped ==
    ASSUME StockTyped, HqLedger, TransferTyped, NEW o \in TransferOrders, TransferInv(o),
           TransferStep(o)
    PROVE  TransferTyped' /\ StockTyped'
<1>0. DispatchSlot(o) \in Slots /\ ReceiptSlot(o) \in Slots /\ tVersion[o] \in Nat
  BY TransferAssumptions DEF DispatchSlot, ReceiptSlot, TransferTyped, TransferTypeOK
<1>1. ASSUME NEW u \in Users, TransferDesk(o, u) \/ CancelTransferOrder(o, u)
      PROVE  TransferTyped' /\ StockTyped'
  <2>1. UNCHANGED stockVars
    BY <1>1 DEF TransferDesk, CreateTransferOrderDraft, UpdateTransferOrderDraft,
       SubmitTransferOrder, ApproveTransferOrder, CancelTransferOrder
  <2> QED BY <1>1, <2>1, TransferDeskTyped DEF stockVars, StockTyped
<1>2. ASSUME UNCHANGED transferVars PROVE TransferTyped'
  BY <1>2 DEF transferVars, TransferTyped, TransferTypeOK
<1>3. ASSUME NEW c \in Callers, NEW u \in Users, DispatchTransferPrepare(c, o, u)
      PROVE  TransferTyped' /\ StockTyped'
  <2>1. DispatchPlan(o) \in Plans
    BY <1>3, DispatchPlanTyped DEF DispatchTransferPrepare
  <2>2. Prepared(c, DispatchSlot(o), DispatchPlan(o), {}, tVersion[o])
    BY <1>3 DEF DispatchTransferPrepare
  <2>3. call' \in [Callers -> Sound] /\ doc' \in [Slots -> DocRow]
    BY <1>0, <2>1, <2>2, PreparedTyped DEF StockTyped
  <2> QED BY <1>2, <1>3, <2>3 DEF DispatchTransferPrepare, StockTyped
<1>4. ASSUME NEW c \in Callers, NEW u \in Users, NEW got \in Receipts(tLines[o]),
             ReceiveTransferPrepare(c, o, u, got)
      PROVE  TransferTyped' /\ StockTyped'
  <2>1. ReceiptPlan(o, got) \in Plans
    BY <1>4, ReceiptPlanTyped DEF ReceiveTransferPrepare, StockTyped
  <2>2. Prepared(c, ReceiptSlot(o), ReceiptPlan(o, got), {}, tVersion[o])
    BY <1>4 DEF ReceiveTransferPrepare
  <2>3. call' \in [Callers -> Sound] /\ doc' \in [Slots -> DocRow]
    BY <1>0, <2>1, <2>2, PreparedTyped DEF StockTyped
  <2> QED BY <1>2, <1>4, <2>3 DEF ReceiveTransferPrepare, StockTyped
<1>5. ASSUME NEW c \in Callers, DispatchTransferFinalize(c, o) \/ ReceiveTransferFinalize(c, o)
      PROVE  TransferTyped' /\ StockTyped'
  <2>1. Finished(c) /\ UNCHANGED <<onHand, lotState, today, doc, posting>>
    BY <1>5 DEF DispatchTransferFinalize, ReceiveTransferFinalize
  <2>2. StockTyped'
    BY <2>1, FinishedSound DEF StockTyped
  <2> QED BY <1>5, <2>2, DispatchEndTyped, ReceiptEndTyped
<1> QED BY <1>1, <1>3, <1>4, <1>5 DEF TransferStep

\* The two warehouses of HQ that a return and a release name are there.
LEMMA HqWarehouses == HqMain \in Warehouses /\ Quarantine \in Warehouses
BY ReturnAssumptions DEF HqMain, Quarantine

LEMMA ReturnLinesDrafted ==
    ASSUME ReturnTyped, NEW b \in ReturnBatches
    PROVE  /\ rLines[b] \in SUBSET ReturnLine /\ IsFiniteSet(rLines[b]) /\ Numbered(rLines[b])
           /\ \A l \in rLines[b] : QuarantineLot(b, l.no) \in Lots \ OpeningLots
<1>1. CASE rLines[b] = {}
  BY <1>1, FS_EmptySet DEF Numbered
<1>2. CASE \E d \in ReturnDrafts : rLines[b] = d.lines
  <2>1. PICK d \in ReturnDrafts : rLines[b] = d.lines
    BY <1>2
  <2>2. d \in ReturnDraft
    BY ReturnAssumptions
  <2>3. d.lines \in SUBSET ReturnLine
    BY <2>2 DEF ReturnDraft
  <2>4. \A l \in d.lines : QuarantineLot(b, l.no) \in Lots \ OpeningLots
    BY ReturnAssumptions
  <2>5. IsFiniteSet(d.lines) /\ Numbered(d.lines)
    BY ReturnAssumptions DEF Numbered
  <2> QED BY <2>1, <2>3, <2>4, <2>5
<1> QED BY <1>1, <1>2 DEF ReturnTyped

LEMMA ReturnPlanTyped ==
    ASSUME ReturnTyped, NEW b \in ReturnBatches PROVE ReturnPlan(b) \in Plans
<1> DEFINE f == [l \in rLines[b] |->
                  [line |-> l.no, way |-> "OUT", wh |-> l.wh, lot |-> l.lot, qty |-> l.qty,
                   policy |-> "CUSTODY_MOVE"]]
<1>1. IsFiniteSet(rLines[b]) /\ rLines[b] \in SUBSET ReturnLine
  BY ReturnLinesDrafted
<1>2. \A l \in rLines[b] : f[l] \in Move
  BY <1>1 DEF ReturnLine, Move, Policies
<1>3. ReturnPlan(b) = {f[l] : l \in rLines[b]} /\ f = [l \in rLines[b] |-> f[l]]
  BY DEF ReturnPlan
<1> HIDE DEF f
<1> QED BY <1>1, <1>2, <1>3, PlanOfLines

\* The union of two plans is a plan.
LEMMA ReturnReceiptPlanTyped ==
    ASSUME ReturnTyped, NEW b \in ReturnBatches, NEW reason \in Dispositions(b)
    PROVE  ReturnReceiptPlan(b, reason) \in Plans
<1> DEFINE lines == rLines[b]
           gone == {k \in lines : reason[k.no] \notin Reusable}
           f == [l \in lines |-> QuarantineIn(b, l, reason[l.no])]
           g == [l \in gone |-> WriteOff(b, l)]
<1>1. IsFiniteSet(lines) /\ lines \in SUBSET ReturnLine
  BY ReturnLinesDrafted
<1>2. IsFiniteSet(gone) /\ gone \in SUBSET ReturnLine
  BY <1>1, FS_Subset
<1>3. \A l \in lines : /\ QuarantineLot(b, l.no) \in Lots /\ l.no \in Nat /\ l.qty \in Quantity
                       /\ Quarantine \in Warehouses
  BY <1>1, HqWarehouses, ReturnLinesDrafted DEF ReturnLine
<1>4. \A l \in lines : f[l] \in Move
  <2> SUFFICES ASSUME NEW l \in lines PROVE f[l] \in Move
    OBVIOUS
  <2>1. f[l] = QuarantineIn(b, l, reason[l.no])
    OBVIOUS
  <2> HIDE DEF f, lines
  <2> QED BY <1>3, <2>1 DEF QuarantineIn, Move, Policies
<1>5. \A l \in gone : g[l] \in Move
  <2> SUFFICES ASSUME NEW l \in gone PROVE g[l] \in Move
    OBVIOUS
  <2>1. g[l] = WriteOff(b, l) /\ l \in lines
    OBVIOUS
  <2> HIDE DEF g, gone, lines
  <2> QED BY <1>3, <2>1 DEF WriteOff, Move, Policies
<1>6. /\ ReturnReceiptPlan(b, reason) = {f[l] : l \in lines} \cup {g[l] : l \in gone}
      /\ f = [l \in lines |-> f[l]] /\ g = [l \in gone |-> g[l]]
  BY DEF ReturnReceiptPlan
<1> HIDE DEF f, g, gone, lines
<1>7. {f[l] : l \in lines} \in Plans
  BY <1>1, <1>4, <1>6, PlanOfLines
<1>8. {g[l] : l \in gone} \in Plans
  BY <1>2, <1>5, <1>6, PlanOfLines
<1> QED BY <1>6, <1>7, <1>8, PlansJoin

\* The rows a receipt writes.
LEMMA ReceiptRowsTyped ==
    ASSUME ReturnTyped, NEW b \in ReturnBatches, NEW P
    PROVE  ReceiptRows(b, P) \in SUBSET ReceiptLine
<1> SUFFICES ASSUME NEW l \in rLines[b]
             PROVE  [no |-> l.no, lot |-> QuarantineLot(b, l.no), qty |-> l.qty,
                     reason |-> ReasonOf(P, l.no)] \in ReceiptLine
  BY DEF ReceiptRows
<1>1. QuarantineLot(b, l.no) \in Lots /\ l.no \in Nat /\ l.qty \in Quantity
  BY ReturnLinesDrafted DEF ReturnLine
<1>2. ReasonOf(P, l.no) \in Reasons
  BY DEF ReasonOf, Reasons
<1> QED BY <1>1, <1>2 DEF ReceiptLine

LEMMA ReturnDeskTyped ==
    ASSUME ReturnTyped, NEW b \in ReturnBatches, NEW u \in Users, ReturnDesk(b, u)
    PROVE  ReturnTyped'
<1>1. \A d \in ReturnDrafts : d.lines \in SUBSET ReturnLine
  BY ReturnAssumptions DEF ReturnDraft
<1>2. ASSUME NEW d \in ReturnDrafts, CreateStockReturnDraft(b, u, d) PROVE ReturnTyped'
  BY <1>1, <1>2 DEF CreateStockReturnDraft, ReturnAdvances, ReturnTyped, ReturnTypeOK,
     ReturnStatuses
<1>3. ASSUME NEW d \in ReturnDrafts, UpdateStockReturnDraft(b, u, d.lines)
      PROVE  ReturnTyped'
  BY <1>1, <1>3 DEF UpdateStockReturnDraft, ReturnTyped, ReturnTypeOK
<1>4. ASSUME SubmitStockReturnBatch(b, u) PROVE ReturnTyped'
  BY <1>4 DEF SubmitStockReturnBatch, ReturnAdvances, ReturnTyped, ReturnTypeOK,
     ReturnStatuses
<1>5. ASSUME ApproveStockReturnBatch(b, u) \/ CancelStockReturnBatch(b, u)
      PROVE  ReturnTyped'
  BY <1>5 DEF ApproveStockReturnBatch, CancelStockReturnBatch, ReturnAdvances, ReturnTyped,
     ReturnTypeOK, ReturnStatuses
<1> QED BY <1>2, <1>3, <1>4, <1>5 DEF ReturnDesk

LEMMA ReturnStepTyped ==
    ASSUME StockTyped, ReturnTyped, NEW b \in ReturnBatches, ReturnStep(b)
    PROVE  ReturnTyped' /\ StockTyped'
<1>0. ReturnSlot(b) \in Slots /\ ReturnReceiptSlot(b) \in Slots /\ rVersion[b] \in Nat
  BY ReturnAssumptions DEF ReturnSlot, ReturnReceiptSlot, ReturnTyped, ReturnTypeOK
<1>1. ASSUME NEW u \in Users, ReturnDesk(b, u) PROVE ReturnTyped' /\ StockTyped'
  <2>1. UNCHANGED stockVars
    BY <1>1 DEF ReturnDesk, CreateStockReturnDraft, UpdateStockReturnDraft,
       SubmitStockReturnBatch, ApproveStockReturnBatch, CancelStockReturnBatch
  <2> QED BY <1>1, <2>1, ReturnDeskTyped DEF stockVars, StockTyped
<1>2. ASSUME UNCHANGED returnVars PROVE ReturnTyped'
  BY <1>2 DEF returnVars, ReturnTyped, ReturnTypeOK
<1>3. ASSUME NEW c \in Callers, NEW u \in Users, DispatchReturnPrepare(c, b, u)
      PROVE  ReturnTyped' /\ StockTyped'
  <2>1. Prepared(c, ReturnSlot(b), ReturnPlan(b), {}, rVersion[b])
    BY <1>3 DEF DispatchReturnPrepare
  <2>2. call' \in [Callers -> Sound] /\ doc' \in [Slots -> DocRow]
    BY <1>0, <2>1, ReturnPlanTyped, PreparedTyped DEF StockTyped
  <2> QED BY <1>2, <1>3, <2>2 DEF DispatchReturnPrepare, StockTyped
<1>4. ASSUME NEW c \in Callers, NEW u \in Users, NEW reason \in Dispositions(b),
             ReceiveReturnPrepare(c, b, u, reason)
      PROVE  ReturnTyped' /\ StockTyped'
  <2>1. Prepared(c, ReturnReceiptSlot(b), ReturnReceiptPlan(b, reason), {}, rVersion[b])
    BY <1>4 DEF ReceiveReturnPrepare
  <2>2. call' \in [Callers -> Sound] /\ doc' \in [Slots -> DocRow]
    BY <1>0, <2>1, ReturnReceiptPlanTyped, PreparedTyped DEF StockTyped
  <2>3. lotState' \in [Lots -> LotStates]
    BY <1>4 DEF ReceiveReturnPrepare, QuarantineLotsMinted, StockTyped, LotStates
  <2> QED BY <1>2, <1>4, <2>2, <2>3 DEF ReceiveReturnPrepare, StockTyped
<1>5. ASSUME NEW c \in Callers, DispatchReturnFinalize(c, b) \/ ReceiveReturnFinalize(c, b)
      PROVE  StockTyped'
  <2>1. Finished(c) /\ UNCHANGED <<onHand, lotState, today, doc, posting>>
    BY <1>5 DEF DispatchReturnFinalize, ReceiveReturnFinalize
  <2> QED BY <2>1, FinishedSound DEF StockTyped
<1>6. ASSUME NEW c \in Callers, DispatchReturnFinalize(c, b) PROVE ReturnTyped'
  BY <1>6 DEF DispatchReturnFinalize, ReturnAdvances, ReturnTyped, ReturnTypeOK,
     ReturnStatuses
<1>7. ASSUME NEW c \in Callers, ReceiveReturnFinalize(c, b) PROVE ReturnTyped'
  <2> DEFINE rows == {x \in ReceiptRows(b, call[c].plan) : \A y \in rReceipt[b] : y.no # x.no}
  <2>1. rows \in SUBSET ReceiptLine
    BY ReceiptRowsTyped
  <2>2. /\ rMaker' = rMaker /\ rSite' = rSite /\ rLines' = rLines
        /\ \/ UNCHANGED <<rStatus, rVersion, rReceipt>>
           \/ /\ ReturnAdvances(b, {"DISPATCHED"}, "RECEIVED_DISPOSED")
              /\ rReceipt' = [rReceipt EXCEPT ![b] = rReceipt[b] \cup rows]
    BY <1>7 DEF ReceiveReturnFinalize
  <2> HIDE DEF rows
  <2> QED BY <2>1, <2>2 DEF ReturnAdvances, ReturnTyped, ReturnTypeOK, ReturnStatuses
<1> QED BY <1>1, <1>3, <1>4, <1>5, <1>6, <1>7 DEF ReturnStep

-----------------------------------------------------------------------------

LEMMA ReleaseLinesDrafted ==
    ASSUME ReleaseTyped, NEW q \in Releases
    PROVE  /\ qLines[q] \in SUBSET ReleaseLine /\ IsFiniteSet(qLines[q])
           /\ \A l \in qLines[q] : /\ ReleasedLot(q, l.no) \in Lots \ OpeningLots
                                   /\ QuarantineLot(l.batch, l.of) \in Lots
<1>1. CASE qLines[q] = {}
  BY <1>1, FS_EmptySet
<1>2. CASE qLines[q] \in ReleaseDrafts
  BY <1>2, ReleaseAssumptions DEF ReleaseDraft
<1> QED BY <1>1, <1>2 DEF ReleaseTyped

LEMMA ReleasePlanTyped ==
    ASSUME ReleaseTyped, NEW q \in Releases PROVE ReleasePlan(q) \in Plans
<1> DEFINE lines == qLines[q]
           f == [l \in lines |-> ReleaseMove(l, "OUT", Quarantine,
                                             QuarantineLot(l.batch, l.of), "QUARANTINE_RELEASE")]
           g == [l \in lines |-> ReleaseMove(l, "IN", HqMain, ReleasedLot(q, l.no),
                                             "ALLOCATABLE")]
<1>1. IsFiniteSet(lines)
  BY ReleaseLinesDrafted
<1>2. \A l \in lines : /\ QuarantineLot(l.batch, l.of) \in Lots /\ ReleasedLot(q, l.no) \in Lots
                       /\ l.no \in Nat /\ l.qty \in Quantity
  BY ReleaseLinesDrafted DEF ReleaseLine
<1>3. ASSUME NEW l \in lines PROVE f[l] \in Move /\ g[l] \in Move
  <2>1. /\ f[l] = ReleaseMove(l, "OUT", Quarantine, QuarantineLot(l.batch, l.of),
                              "QUARANTINE_RELEASE")
        /\ g[l] = ReleaseMove(l, "IN", HqMain, ReleasedLot(q, l.no), "ALLOCATABLE")
    OBVIOUS
  <2> HIDE DEF f, g, lines
  <2> QED BY <1>2, <2>1, HqWarehouses DEF ReleaseMove, Move, Policies
<1>4. /\ ReleasePlan(q) = {f[l] : l \in lines} \cup {g[l] : l \in lines}
      /\ f = [l \in lines |-> f[l]] /\ g = [l \in lines |-> g[l]]
  BY DEF ReleasePlan
<1> HIDE DEF f, g, lines
<1>5. {f[l] : l \in lines} \in Plans /\ {g[l] : l \in lines} \in Plans
  BY <1>1, <1>3, <1>4, PlanOfLines
<1> QED BY <1>4, <1>5, PlansJoin

LEMMA ReleaseStepTyped ==
    ASSUME StockTyped, ReleaseTyped, NEW q \in Releases, ReleaseStep(q)
    PROVE  ReleaseTyped' /\ StockTyped'
<1>0. ReleaseSlot(q) \in Slots /\ qVersion[q] \in Nat
  BY ReleaseAssumptions DEF ReleaseSlot, ReleaseTyped, ReleaseTypeOK
<1>1. \A d \in ReleaseDrafts : d \in SUBSET ReleaseLine
  BY ReleaseAssumptions DEF ReleaseDraft
<1>2. ASSUME NEW u \in Users, NEW lines \in ReleaseDrafts,
             CreateQaReleaseDraft(q, u, lines) \/ UpdateQaReleaseDraft(q, u, lines)
      PROVE  ReleaseTyped' /\ StockTyped'
  <2>1. UNCHANGED stockVars
    BY <1>2 DEF CreateQaReleaseDraft, UpdateQaReleaseDraft
  <2>2. ReleaseTyped'
    BY <1>1, <1>2 DEF CreateQaReleaseDraft, UpdateQaReleaseDraft, ReleaseAdvances,
       ReleaseTyped, ReleaseTypeOK, ReleaseStatuses
  <2> QED BY <2>1, <2>2 DEF stockVars, StockTyped
<1>3. ASSUME NEW u \in Users,
             SubmitQaRelease(q, u) \/ ApproveQaRelease(q, u) \/ CancelQaRelease(q, u)
      PROVE  ReleaseTyped' /\ StockTyped'
  <2>1. UNCHANGED stockVars
    BY <1>3 DEF SubmitQaRelease, ApproveQaRelease, CancelQaRelease
  <2>2. ReleaseTyped'
    BY <1>3 DEF SubmitQaRelease, ApproveQaRelease, CancelQaRelease, ReleaseAdvances,
       ReleaseTyped, ReleaseTypeOK, ReleaseStatuses
  <2> QED BY <2>1, <2>2 DEF stockVars, StockTyped
<1>4. ASSUME NEW c \in Callers, NEW u \in Users, ReleasePrepare(c, q, u)
      PROVE  ReleaseTyped' /\ StockTyped'
  <2>1. Prepared(c, ReleaseSlot(q), ReleasePlan(q), {}, qVersion[q])
    BY <1>4 DEF ReleasePrepare
  <2>2. call' \in [Callers -> Sound] /\ doc' \in [Slots -> DocRow]
    BY <1>0, <2>1, ReleasePlanTyped, PreparedTyped DEF StockTyped
  <2>3. lotState' \in [Lots -> LotStates]
    BY <1>4 DEF ReleasePrepare, ReleasedLotsMinted, StockTyped, LotStates
  <2>4. ReleaseTyped'
    BY <1>4 DEF ReleasePrepare, releaseVars, ReleaseTyped, ReleaseTypeOK
  <2> QED BY <1>4, <2>2, <2>3, <2>4 DEF ReleasePrepare, StockTyped
<1>5. ASSUME NEW c \in Callers, ReleaseFinalize(c, q)
      PROVE  ReleaseTyped' /\ StockTyped'
  <2>1. Finished(c) /\ UNCHANGED <<onHand, lotState, today, doc, posting>>
    BY <1>5 DEF ReleaseFinalize
  <2>2. StockTyped'
    BY <2>1, FinishedSound DEF StockTyped
  <2>3. ReleaseTyped'
    BY <1>5 DEF ReleaseFinalize, ReleaseAdvances, ReleaseTyped, ReleaseTypeOK,
       ReleaseStatuses
  <2> QED BY <2>2, <2>3
<1> QED BY <1>2, <1>3, <1>4, <1>5 DEF ReleaseStep

-----------------------------------------------------------------------------

HqTyped == StockTyped /\ TransferTyped /\ ReturnTyped /\ ReleaseTyped

LEMMA HqTypedAtFirst == ASSUME HqInit PROVE HqTyped
<1>1. StockTyped
  BY StockTypedAtFirst DEF HqInit
<1>2. TransferTyped
  BY FS_EmptySet DEF HqInit, TransferInit, TransferTyped, TransferTypeOK, TransferStatuses
<1>3. ReturnTyped
  BY DEF HqInit, ReturnInit, ReturnTyped, ReturnTypeOK, ReturnStatuses
<1>4. ReleaseTyped
  BY DEF HqInit, ReleaseInit, ReleaseTyped, ReleaseTypeOK, ReleaseStatuses
<1> QED BY <1>1, <1>2, <1>3, <1>4 DEF HqTyped

LEMMA HqTypedKept == ASSUME HqInv, HqTyped, [HqNext]_hqVars PROVE HqTyped'
<1>0. StockTyped /\ TransferTyped /\ ReturnTyped /\ ReleaseTyped
  BY DEF HqTyped
<1>1. ASSUME UNCHANGED transferVars PROVE TransferTyped'
  BY <1>0, <1>1 DEF transferVars, TransferTyped, TransferTypeOK
<1>2. ASSUME UNCHANGED returnVars PROVE ReturnTyped'
  BY <1>0, <1>2 DEF returnVars, ReturnTyped, ReturnTypeOK
<1>3. ASSUME UNCHANGED releaseVars PROVE ReleaseTyped'
  BY <1>0, <1>3 DEF releaseVars, ReleaseTyped, ReleaseTypeOK
<1>4. ASSUME PostingNext \/ \E c \in Callers : Compensate(c),
             UNCHANGED <<transferVars, returnVars, releaseVars>>
      PROVE  HqTyped'
  BY <1>0, <1>1, <1>2, <1>3, <1>4, PostingTyped DEF HqTyped
<1>5. ASSUME TransferNext, UNCHANGED <<returnVars, releaseVars>> PROVE HqTyped'
  <2>1. PICK o \in TransferOrders : TransferStep(o)
    BY <1>5 DEF TransferNext
  <2>2. HqLedger /\ TransferInv(o)
    BY DEF HqInv, TransferHistory
  <2> QED BY <1>0, <1>2, <1>3, <1>5, <2>1, <2>2, TransferStepTyped DEF HqTyped
<1>6. ASSUME ReturnNext, UNCHANGED <<transferVars, releaseVars>> PROVE HqTyped'
  <2>1. PICK b \in ReturnBatches : ReturnStep(b)
    BY <1>6 DEF ReturnNext
  <2> QED BY <1>0, <1>1, <1>3, <1>6, <2>1, ReturnStepTyped DEF HqTyped
<1>7. ASSUME ReleaseNext, UNCHANGED transferVars PROVE HqTyped'
  <2>1. PICK q \in Releases : ReleaseStep(q)
    BY <1>7 DEF ReleaseNext
  <2>2. UNCHANGED returnVars
    BY <2>1 DEF ReleaseStep, CreateQaReleaseDraft, UpdateQaReleaseDraft, SubmitQaRelease,
       ApproveQaRelease, CancelQaRelease, ReleasePrepare, ReleaseFinalize
  <2> QED BY <1>0, <1>1, <1>2, <1>7, <2>1, <2>2, ReleaseStepTyped DEF HqTyped
<1>8. ASSUME UNCHANGED hqVars PROVE HqTyped'
  BY <1>0, <1>1, <1>2, <1>3, <1>8 DEF hqVars, stockVars, HqTyped, StockTyped
<1> QED BY <1>4, <1>5, <1>6, <1>7, <1>8 DEF HqNext

LEMMA HqTypedAlways == HqSpec => []HqTyped
<1>1. HqInit => HqTyped
  BY HqTypedAtFirst
<1>2. HqInv /\ HqTyped /\ [HqNext]_hqVars => HqTyped'
  BY HqTypedKept
<1> QED BY <1>1, <1>2, HqInductive, PTL DEF HqSpec

\* The HQ documents and the ledger keep their types: no balance becomes
\* negative however many plans are made against it before one is posted
\* (lockMovementKeys, the sum of the movements of a balance), no plan names a
\* lot or a warehouse that is not there, and a new document always finds a row id.
THEOREM HqTypeCorrect == HqSpec => []HqTypeOK
<1>1. HqTyped => HqTypeOK
  BY TypedStock DEF HqTyped, HqTypeOK, TransferTyped, ReturnTyped, ReleaseTyped
<1> QED BY <1>1, HqTypedAlways, PTL

-----------------------------------------------------------------------------
(* Quarantine custody.  The lots of returns are a kind of their own: they  *)
(* are never AVAILABLE, so no allocatable plan can take them, and what may *)
(* move them is known from the slot of the plan.                           *)

ReturnLots ==
    {QuarantineLot(b, l.no) : b \in ReturnBatches, l \in UNION {d.lines : d \in ReturnDrafts}}

LotsTold ==
    /\ \A l \in Lots :
         /\ lotState[l] = "QUARANTINED" => l \in ReturnLots
         /\ lotState[l] = "AVAILABLE" => l \notin ReturnLots
         /\ lotState[l] = "ABSENT" => \A w \in Warehouses : onHand[w][l] = 0
    /\ \A s \in Slots : \A m \in posting[s] : lotState[m.lot] # "ABSENT"

\* What is known of a plan, made or posted, under a slot.
PlanFits(s, P) ==
    /\ s[2] = "TRANSFER_ORDER_DISPATCH" =>
         \A m \in P : m.way = "OUT" /\ m.policy = "ALLOCATABLE"
    /\ s[2] = "TRANSFER_ORDER_RECEIPT" => \A m \in P : m.lot \notin ReturnLots
    /\ s[2] = "STOCK_RETURN_RECEIPT" =>
         /\ \A m \in P : m.wh = Quarantine
         /\ \A l \in Lots : Moved(P, "IN", Quarantine, l) - Moved(P, "OUT", Quarantine, l)
                              = HeldIn(P, l)
    /\ s[2] = "QA_RELEASE" =>
         \A m \in P : /\ m.way = "OUT" => m.wh = Quarantine
                      /\ m.way = "IN" => m.lot \notin ReturnLots
Fitting == \A c \in Callers : PlanFits(call[c].slot, call[c].plan)

\* No transfer takes the lot of a return.
SentLots == \A o \in TransferOrders : \A m \in posting[DispatchSlot(o)] : m.lot \notin ReturnLots

Custody == LotsTold /\ Fitting /\ SentLots /\ ReleasedWithinHeld

\* The lots of returns are none of the opening ones, and no release mints one.
LEMMA ReturnLotsApart ==
    /\ ReturnLots \cap OpeningLots = {}
    /\ \A q, n : ReleasedLot(q, n) \notin ReturnLots
<1>1. ReturnLots \cap OpeningLots = {}
  BY ReturnAssumptions DEF ReturnLots
<1>2. \A b, n, q, k : QuarantineLot(b, n) # ReleasedLot(q, k)
  BY DEF QuarantineLot, ReleasedLot
<1> QED BY <1>1, <1>2 DEF ReturnLots

LEMMA LinesOfReturn ==
    ASSUME ReturnTyped, NEW b \in ReturnBatches, NEW l \in rLines[b]
    PROVE  QuarantineLot(b, l.no) \in ReturnLots
<1>1. PICK d \in ReturnDrafts : rLines[b] = d.lines
  BY DEF ReturnTyped
<1> QED BY <1>1 DEF ReturnLots

-----------------------------------------------------------------------------
(* Sums of quantities.                                                     *)

LEMMA QtyOfNone == QtyOf({}) = 0
BY SumUnfold, FS_EmptySet DEF QtyOf

LEMMA QtyOfOne == ASSUME NEW m \in Move PROVE QtyOf({m}) = m.qty
<1> DEFINE f == [x \in {m} |-> x.qty]
<1>1. f[m] = m.qty /\ m.qty \in Int
  BY StockAssumptions DEF Move, Quantity
<1>2. SumFunctionOnSet(f, {}) = 0
  BY SumUnfold, FS_EmptySet
<1> HIDE DEF f
<1>3. SumFunctionOnSet(f, {} \cup {m}) = f[m] + SumFunctionOnSet(f, {})
  <2>1. IsFiniteSet({}) /\ m \notin {} /\ \A y \in {} \cup {m} : f[y] \in Int
    BY <1>1, FS_EmptySet
  <2> QED BY <2>1, SumAdd
<1>4. {} \cup {m} = {m}
  OBVIOUS
<1> QED BY <1>1, <1>2, <1>3, <1>4 DEF QtyOf, f

LEMMA QtyAtLeast ==
    ASSUME NEW P \in Plans, NEW S \in SUBSET P, NEW m \in S PROVE QtyOf(S) >= 1
<1> DEFINE f == [x \in S |-> x.qty]
<1>1. IsFiniteSet(S)
  BY FS_Subset DEF Plans
<1>2. \A x \in S : f[x] \in Nat /\ f[x] >= 1
  BY StockAssumptions DEF Plans, Move, Quantity
<1> HIDE DEF f
<1>3. SumFunctionOnSet(f, S) = f[m] + SumFunctionOnSet(f, S \ {m})
  BY <1>1, <1>2, SumRemove
<1>4. SumFunctionOnSet(f, S \ {m}) \in Nat
  <2> DEFINE R == S \ {m}
  <2>1. IsFiniteSet(R) /\ \A x \in R : f[x] \in Nat
    BY <1>1, <1>2, FS_Subset
  <2> HIDE DEF R
  <2>2. SumFunctionOnSet(f, R) \in Nat
    BY <2>1, SumNat
  <2> QED BY <2>2 DEF R
<1> QED BY <1>2, <1>3, <1>4 DEF QtyOf, f

\* A plan without a lot moves none of it.
LEMMA NoneMoved ==
    ASSUME NEW P, NEW way, NEW w, NEW l,
           \A m \in P : ~ (m.way = way /\ m.wh = w /\ m.lot = l)
    PROVE  Moved(P, way, w, l) = 0
<1>1. {m \in P : m.way = way /\ m.wh = w /\ m.lot = l} = {}
  OBVIOUS
<1> QED BY <1>1, QtyOfNone DEF Moved

LEMMA LotAlone ==
    ASSUME onHand \in Balances, NEW P, NEW w \in Warehouses, NEW l \in Lots,
           \A m \in P : m.lot # l
    PROVE  After(P)[w][l] = onHand[w][l]
<1>1. Moved(P, "IN", w, l) = 0 /\ Moved(P, "OUT", w, l) = 0
  BY NoneMoved
<1>2. onHand[w][l] \in Nat
  BY DEF Balances
<1> QED BY <1>1, <1>2 DEF After


LEMMA ReturnsAndReleases ==
    /\ IsFiniteSet(ReturnBatches) /\ \A b \in ReturnBatches : ReturnReceiptSlot(b) \in Slots
    /\ IsFiniteSet(Releases) /\ \A q \in Releases : ReleaseSlot(q) \in Slots
    /\ \A b, q : ReturnReceiptSlot(b) # ReleaseSlot(q)
    /\ \A a, b : ReturnReceiptSlot(a) = ReturnReceiptSlot(b) => a = b
    /\ \A p, q : ReleaseSlot(p) = ReleaseSlot(q) => p = q
BY ReturnAssumptions, ReleaseAssumptions DEF ReturnReceiptSlot, ReleaseSlot

LEMMA HeldInNat == ASSUME NEW P \in Plans, NEW l PROVE HeldIn(P, l) \in Nat /\ TakenIn(P, l) \in Nat
<1> DEFINE S == {m \in P : m.lot = l /\ m.policy = "QUARANTINE_HOLD"}
           T == {m \in P : m.lot = l /\ m.way = "OUT"}
<1>1. S \in SUBSET P /\ T \in SUBSET P
  OBVIOUS
<1> HIDE DEF S, T
<1>2. QtyOf(S) \in Nat /\ QtyOf(T) \in Nat
  BY <1>1, QtyNat
<1> QED BY <1>2 DEF HeldIn, TakenIn, S, T

LEMMA NoneHeld ==
    ASSUME NEW P, NEW l, \A m \in P : m.lot # l PROVE HeldIn(P, l) = 0 /\ TakenIn(P, l) = 0
<1>1. /\ {m \in P : m.lot = l /\ m.policy = "QUARANTINE_HOLD"} = {}
      /\ {m \in P : m.lot = l /\ m.way = "OUT"} = {}
  OBVIOUS
<1> QED BY <1>1, QtyOfNone DEF HeldIn, TakenIn

\* Nothing was posted of a lot: nothing is held and nothing was taken.
LEMMA NothingOf ==
    ASSUME NEW l, \A s \in Slots : \A m \in posting[s] : m.lot # l
    PROVE  HeldOf(l) = 0 /\ ReleasedOf(l) = 0
<1> DEFINE f == [b \in ReturnBatches |-> HeldIn(posting[ReturnReceiptSlot(b)], l)]
           g == [q \in Releases |-> TakenIn(posting[ReleaseSlot(q)], l)]
<1>1. DOMAIN f = ReturnBatches /\ DOMAIN g = Releases
  OBVIOUS
<1>2. \A b \in ReturnBatches : f[b] = 0
  BY NoneHeld, ReturnsAndReleases
<1>3. \A q \in Releases : g[q] = 0
  BY NoneHeld, ReturnsAndReleases
<1> HIDE DEF f, g
<1>4. SumFunctionOnSet(f, ReturnBatches) = 0
  BY <1>2, ReturnsAndReleases, SumZero
<1>5. SumFunctionOnSet(g, Releases) = 0
  BY <1>3, ReturnsAndReleases, SumZero
<1> QED BY <1>1, <1>4, <1>5 DEF HeldOf, ReleasedOf, SumFunction, f, g

LEMMA SumsTyped ==
    ASSUME posting \in [Slots -> Plans], NEW l
    PROVE  HeldOf(l) \in Nat /\ ReleasedOf(l) \in Nat
<1> DEFINE f == [b \in ReturnBatches |-> HeldIn(posting[ReturnReceiptSlot(b)], l)]
           g == [q \in Releases |-> TakenIn(posting[ReleaseSlot(q)], l)]
<1>1. DOMAIN f = ReturnBatches /\ DOMAIN g = Releases
  OBVIOUS
<1>2. \A b \in ReturnBatches : f[b] \in Nat
  BY HeldInNat, ReturnsAndReleases
<1>3. \A q \in Releases : g[q] \in Nat
  BY HeldInNat, ReturnsAndReleases
<1> HIDE DEF f, g
<1>4. SumFunctionOnSet(f, ReturnBatches) \in Nat
  BY <1>2, ReturnsAndReleases, SumNat
<1>5. SumFunctionOnSet(g, Releases) \in Nat
  BY <1>3, ReturnsAndReleases, SumNat
<1> QED BY <1>1, <1>4, <1>5 DEF HeldOf, ReleasedOf, SumFunction, f, g

\* A posting under a slot of neither kind changes neither sum.
LEMMA SumsAlone ==
    ASSUME posting \in [Slots -> Plans], NEW s \in Slots, NEW P, NEW l,
           posting' = [posting EXCEPT ![s] = P]
    PROVE  /\ (\A b \in ReturnBatches : s # ReturnReceiptSlot(b)) => HeldOf(l)' = HeldOf(l)
           /\ (\A q \in Releases : s # ReleaseSlot(q)) => ReleasedOf(l)' = ReleasedOf(l)
<1>1. ASSUME \A b \in ReturnBatches : s # ReturnReceiptSlot(b) PROVE HeldOf(l)' = HeldOf(l)
  <2>1. \A b \in ReturnBatches : posting'[ReturnReceiptSlot(b)] = posting[ReturnReceiptSlot(b)]
    BY <1>1, ReturnsAndReleases
  <2>2. [b \in ReturnBatches |-> HeldIn(posting'[ReturnReceiptSlot(b)], l)]
          = [b \in ReturnBatches |-> HeldIn(posting[ReturnReceiptSlot(b)], l)]
    BY <2>1
  <2> QED BY <2>2 DEF HeldOf, HeldIn
<1>2. ASSUME \A q \in Releases : s # ReleaseSlot(q) PROVE ReleasedOf(l)' = ReleasedOf(l)
  <2>1. \A q \in Releases : posting'[ReleaseSlot(q)] = posting[ReleaseSlot(q)]
    BY <1>2, ReturnsAndReleases
  <2>2. [q \in Releases |-> TakenIn(posting'[ReleaseSlot(q)], l)]
          = [q \in Releases |-> TakenIn(posting[ReleaseSlot(q)], l)]
    BY <2>1
  <2> QED BY <2>2 DEF ReleasedOf, TakenIn
<1> QED BY <1>1, <1>2

LEMMA HeldGrows ==
    ASSUME posting \in [Slots -> Plans], NEW b \in ReturnBatches, NEW P \in Plans, NEW l,
           posting[ReturnReceiptSlot(b)] = {},
           posting' = [posting EXCEPT ![ReturnReceiptSlot(b)] = P]
    PROVE  HeldOf(l)' = HeldOf(l) + HeldIn(P, l)
<1> DEFINE f == [a \in ReturnBatches |-> HeldIn(posting[ReturnReceiptSlot(a)], l)]
           g == [a \in ReturnBatches |-> HeldIn(posting'[ReturnReceiptSlot(a)], l)]
<1>1. DOMAIN f = ReturnBatches /\ DOMAIN g = ReturnBatches
  OBVIOUS
<1>2. ASSUME NEW a \in ReturnBatches
      PROVE  f[a] \in Int /\ g[a] \in Int /\ (a # b => g[a] = f[a])
  <2>1. posting'[ReturnReceiptSlot(a)] \in Plans /\ posting[ReturnReceiptSlot(a)] \in Plans
    BY ReturnsAndReleases
  <2>2. a # b => posting'[ReturnReceiptSlot(a)] = posting[ReturnReceiptSlot(a)]
    BY ReturnsAndReleases
  <2>3. f[a] \in Nat /\ g[a] \in Nat
    BY <2>1, HeldInNat
  <2> QED BY <2>2, <2>3
<1>3. f[b] = 0 /\ g[b] = HeldIn(P, l)
  BY NoneHeld, ReturnsAndReleases
<1> HIDE DEF f, g
<1>4. SumFunctionOnSet(g, ReturnBatches) = SumFunctionOnSet(f, ReturnBatches) - f[b] + g[b]
  BY <1>2, ReturnsAndReleases, SumChange
<1>5. SumFunctionOnSet(f, ReturnBatches) \in Int
  BY <1>2, ReturnsAndReleases, SumInt
<1>6. HeldOf(l) = SumFunctionOnSet(f, ReturnBatches)
  BY <1>1 DEF HeldOf, SumFunction, f
<1>7. HeldOf(l)' = SumFunctionOnSet(g, ReturnBatches)
  BY <1>1 DEF HeldOf, HeldIn, SumFunction, g
<1>8. g[b] \in Int
  BY <1>2
<1> QED BY <1>3, <1>4, <1>5, <1>6, <1>7, <1>8

LEMMA TakenGrows ==
    ASSUME posting \in [Slots -> Plans], NEW q \in Releases, NEW P \in Plans, NEW l,
           posting[ReleaseSlot(q)] = {},
           posting' = [posting EXCEPT ![ReleaseSlot(q)] = P]
    PROVE  ReleasedOf(l)' = ReleasedOf(l) + TakenIn(P, l)
<1> DEFINE f == [a \in Releases |-> TakenIn(posting[ReleaseSlot(a)], l)]
           g == [a \in Releases |-> TakenIn(posting'[ReleaseSlot(a)], l)]
<1>1. DOMAIN f = Releases /\ DOMAIN g = Releases
  OBVIOUS
<1>2. ASSUME NEW a \in Releases
      PROVE  f[a] \in Int /\ g[a] \in Int /\ (a # q => g[a] = f[a])
  <2>1. posting'[ReleaseSlot(a)] \in Plans /\ posting[ReleaseSlot(a)] \in Plans
    BY ReturnsAndReleases
  <2>2. a # q => posting'[ReleaseSlot(a)] = posting[ReleaseSlot(a)]
    BY ReturnsAndReleases
  <2>3. f[a] \in Nat /\ g[a] \in Nat
    BY <2>1, HeldInNat
  <2> QED BY <2>2, <2>3
<1>3. f[q] = 0 /\ g[q] = TakenIn(P, l)
  BY NoneHeld, ReturnsAndReleases
<1> HIDE DEF f, g
<1>4. SumFunctionOnSet(g, Releases) = SumFunctionOnSet(f, Releases) - f[q] + g[q]
  BY <1>2, ReturnsAndReleases, SumChange
<1>5. SumFunctionOnSet(f, Releases) \in Int
  BY <1>2, ReturnsAndReleases, SumInt
<1>6. ReleasedOf(l) = SumFunctionOnSet(f, Releases)
  BY <1>1 DEF ReleasedOf, SumFunction, f
<1>7. ReleasedOf(l)' = SumFunctionOnSet(g, Releases)
  BY <1>1 DEF ReleasedOf, TakenIn, SumFunction, g
<1>8. g[q] \in Int
  BY <1>2
<1> QED BY <1>3, <1>4, <1>5, <1>6, <1>7, <1>8

-----------------------------------------------------------------------------
(* The plans fit when they are made.                                       *)

\* A disposal brings a lot to quarantine and, unless it is held there, writes
\* it off in the same posting.
LEMMA DisposalBalanced ==
    ASSUME ReturnTyped, NEW b \in ReturnBatches, NEW reason \in Dispositions(b),
           NEW P, P = ReturnReceiptPlan(b, reason), NEW lot
    PROVE  Moved(P, "IN", Quarantine, lot) - Moved(P, "OUT", Quarantine, lot) = HeldIn(P, lot)
<1> DEFINE ins == {m \in P : m.way = "IN" /\ m.wh = Quarantine /\ m.lot = lot}
           outs == {m \in P : m.way = "OUT" /\ m.wh = Quarantine /\ m.lot = lot}
           holds == {m \in P : m.lot = lot /\ m.policy = "QUARANTINE_HOLD"}
<1>0. P \in Plans
  BY ReturnReceiptPlanTyped
<1>1. ASSUME NEW l \in rLines[b]
      PROVE  /\ QuarantineIn(b, l, reason[l.no]) \in P
             /\ reason[l.no] \notin Reusable => WriteOff(b, l) \in P
  BY DEF ReturnReceiptPlan
<1>2. ASSUME NEW m \in P
      PROVE  \E l \in rLines[b] :
               \/ m = QuarantineIn(b, l, reason[l.no])
               \/ reason[l.no] \notin Reusable /\ m = WriteOff(b, l)
  BY DEF ReturnReceiptPlan
<1>3. ASSUME NEW l \in rLines[b]
      PROVE  /\ QuarantineIn(b, l, reason[l.no]).way = "IN"
             /\ QuarantineIn(b, l, reason[l.no]).wh = Quarantine
             /\ QuarantineIn(b, l, reason[l.no]).lot = QuarantineLot(b, l.no)
             /\ QuarantineIn(b, l, reason[l.no]).qty = l.qty
             /\ QuarantineIn(b, l, reason[l.no]).policy = "QUARANTINE_HOLD"
                  <=> reason[l.no] \in Reusable
             /\ WriteOff(b, l).way = "OUT" /\ WriteOff(b, l).wh = Quarantine
             /\ WriteOff(b, l).lot = QuarantineLot(b, l.no) /\ WriteOff(b, l).qty = l.qty
             /\ WriteOff(b, l).policy # "QUARANTINE_HOLD"
  BY DEF QuarantineIn, WriteOff
<1>4. CASE \A l \in rLines[b] : QuarantineLot(b, l.no) # lot
  <2>1. \A m \in P : m.lot # lot
    BY <1>2, <1>3, <1>4
  <2> HIDE DEF ins, outs, holds
  <2>2. Moved(P, "IN", Quarantine, lot) = 0 /\ Moved(P, "OUT", Quarantine, lot) = 0
    BY <2>1, NoneMoved
  <2>3. HeldIn(P, lot) = 0
    BY <2>1, NoneHeld
  <2> QED BY <2>2, <2>3
<1>5. CASE \E l \in rLines[b] : QuarantineLot(b, l.no) = lot
  <2>1. PICK k \in rLines[b] : QuarantineLot(b, k.no) = lot
    BY <1>5
  <2>2. \A l \in rLines[b] : QuarantineLot(b, l.no) = lot => l = k
    BY <2>1, ReturnLinesDrafted DEF QuarantineLot, Numbered
  <2> DEFINE in == QuarantineIn(b, k, reason[k.no])
             out == WriteOff(b, k)
  <2>3. ASSUME NEW m \in P, m.lot = lot
        PROVE  m = in \/ (reason[k.no] \notin Reusable /\ m = out)
    BY <1>2, <1>3, <2>2, <2>3
  <2>4. /\ in \in P /\ in.way = "IN" /\ in.wh = Quarantine /\ in.lot = lot /\ in.qty = k.qty
        /\ in.policy = "QUARANTINE_HOLD" <=> reason[k.no] \in Reusable
    BY <1>1, <1>3, <2>1
  <2>5. /\ reason[k.no] \notin Reusable => out \in P
        /\ out.way = "OUT" /\ out.wh = Quarantine /\ out.lot = lot /\ out.qty = k.qty
        /\ out.policy # "QUARANTINE_HOLD"
    BY <1>1, <1>3, <2>1
  <2> HIDE DEF in, out
  <2>6. ins = {in}
    BY <2>3, <2>4, <2>5
  <2>7. k.qty \in Int
    BY ReturnLinesDrafted, StockAssumptions DEF ReturnLine, Quantity
  <2>8. CASE reason[k.no] \in Reusable
    <3>1. outs = {} /\ holds = {in}
      BY <2>3, <2>4, <2>5, <2>8
    <3> HIDE DEF ins, outs, holds
    <3>2. in \in Move
      BY <1>0, <2>4 DEF Plans
    <3>3. QtyOf(ins) = k.qty /\ QtyOf(outs) = 0 /\ QtyOf(holds) = k.qty
      BY <2>4, <2>6, <3>1, <3>2, QtyOfNone, QtyOfOne
    <3> QED BY <2>7, <3>3 DEF Moved, HeldIn, ins, outs, holds
  <2>9. CASE reason[k.no] \notin Reusable
    <3>1. outs = {out} /\ holds = {}
      BY <2>3, <2>4, <2>5, <2>9
    <3> HIDE DEF ins, outs, holds
    <3>2. in \in Move /\ out \in Move
      BY <1>0, <2>4, <2>5, <2>9 DEF Plans
    <3>3. QtyOf(ins) = k.qty /\ QtyOf(outs) = k.qty /\ QtyOf(holds) = 0
      BY <2>4, <2>5, <2>6, <3>1, <3>2, QtyOfNone, QtyOfOne
    <3> QED BY <2>7, <3>3 DEF Moved, HeldIn, ins, outs, holds
  <2> QED BY <2>8, <2>9
<1> QED BY <1>4, <1>5

LEMMA DispatchFits ==
    ASSUME NEW o \in TransferOrders PROVE PlanFits(DispatchSlot(o), DispatchPlan(o))
<1>1. \A l, w, k : DispatchMove(l, w, k).way = "OUT" /\ DispatchMove(l, w, k).policy = "ALLOCATABLE"
  BY DEF DispatchMove
<1>2. \A m \in DispatchPlan(o) : m.way = "OUT" /\ m.policy = "ALLOCATABLE"
  BY <1>1 DEF DispatchPlan
<1>3. DispatchSlot(o)[2] = "TRANSFER_ORDER_DISPATCH"
  BY DEF DispatchSlot
<1> QED BY <1>2, <1>3 DEF PlanFits

LEMMA ReceiptFits ==
    ASSUME SentLots, NEW o \in TransferOrders, TransferInv(o),
           tStatus[o] \in {"DISPATCHED", "RECEIVED"}, NEW got
    PROVE  PlanFits(ReceiptSlot(o), ReceiptPlan(o, got))
<1>1. ASSUME NEW m \in ReceiptPlan(o, got) PROVE m.lot \notin ReturnLots
  <2>1. PICK l \in tLines[o] : m = ReceiptMove(l, tTo[o], got[l.no])
    BY DEF ReceiptPlan
  <2>2. DispatchMove(l, tFrom[o], l.lot) \in posting[DispatchSlot(o)]
    BY DEF TransferInv, TransferSent
  <2>3. DispatchMove(l, tFrom[o], l.lot).lot = l.lot
    BY DEF DispatchMove
  <2>4. l.lot \notin ReturnLots
    BY <2>2, <2>3 DEF SentLots
  <2> QED BY <2>1, <2>4 DEF ReceiptMove
<1>2. ReceiptSlot(o)[2] = "TRANSFER_ORDER_RECEIPT"
  BY DEF ReceiptSlot
<1> QED BY <1>1, <1>2 DEF PlanFits

LEMMA ReturnFits == ASSUME NEW b, NEW P PROVE PlanFits(ReturnSlot(b), P)
<1>1. ReturnSlot(b)[2] = "STOCK_RETURN_DISPATCH"
  BY DEF ReturnSlot
<1> QED BY <1>1 DEF PlanFits

LEMMA DisposalFits ==
    ASSUME ReturnTyped, NEW b \in ReturnBatches, NEW reason \in Dispositions(b)
    PROVE  PlanFits(ReturnReceiptSlot(b), ReturnReceiptPlan(b, reason))
<1> DEFINE P == ReturnReceiptPlan(b, reason)
<1>1. \A l, r : QuarantineIn(b, l, r).wh = Quarantine /\ WriteOff(b, l).wh = Quarantine
  BY DEF QuarantineIn, WriteOff
<1>2. \A m \in P : m.wh = Quarantine
  BY <1>1 DEF ReturnReceiptPlan
<1> HIDE DEF P
<1>3. \A l \in Lots : Moved(P, "IN", Quarantine, l) - Moved(P, "OUT", Quarantine, l) = HeldIn(P, l)
  BY DisposalBalanced DEF P
<1>4. ReturnReceiptSlot(b)[2] = "STOCK_RETURN_RECEIPT"
  BY DEF ReturnReceiptSlot
<1>5. PlanFits(ReturnReceiptSlot(b), P)
  BY <1>2, <1>3, <1>4 DEF PlanFits
<1> QED BY <1>5 DEF P

LEMMA ReleaseFits == ASSUME NEW q \in Releases PROVE PlanFits(ReleaseSlot(q), ReleasePlan(q))
<1>1. ASSUME NEW m \in ReleasePlan(q)
      PROVE  /\ m.way = "OUT" => m.wh = Quarantine
             /\ m.way = "IN" => m.lot \notin ReturnLots
  <2>1. PICK l \in qLines[q] :
          \/ m = ReleaseMove(l, "OUT", Quarantine, QuarantineLot(l.batch, l.of), "QUARANTINE_RELEASE")
          \/ m = ReleaseMove(l, "IN", HqMain, ReleasedLot(q, l.no), "ALLOCATABLE")
    BY DEF ReleasePlan
  <2> QED BY <2>1, ReturnLotsApart DEF ReleaseMove
<1>2. ReleaseSlot(q)[2] = "QA_RELEASE"
  BY DEF ReleaseSlot
<1> QED BY <1>1, <1>2 DEF PlanFits

LEMMA IdleFits == PlanFits(Idle.slot, Idle.plan)
<1>1. NoSlot[2] = "none"
  BY DEF NoSlot
<1> QED BY <1>1 DEF PlanFits, Idle

-----------------------------------------------------------------------------
(* The commit of a plan, by its slot.                                      *)

\* A quarantined lot and a plan about to be posted that does not name it.
LEMMA Bypassed ==
    ASSUME StockTyped, ReleasedWithinHeld, NEW s \in Slots, NEW P \in Plans, NEW l \in Lots,
           lotState[l] = "QUARANTINED", posting[s] = {}, \A m \in P : m.lot # l,
           posting' = [posting EXCEPT ![s] = P], onHand' = After(P)
    PROVE  /\ \A w \in Warehouses : onHand'[w][l] = onHand[w][l]
           /\ ReleasedOf(l)' = ReleasedOf(l) /\ HeldOf(l)' = HeldOf(l)
<1>0. onHand \in Balances /\ posting \in [Slots -> Plans]
  BY DEF StockTyped
<1>1. \A w \in Warehouses : onHand'[w][l] = onHand[w][l]
  BY <1>0, LotAlone
<1>2. HeldIn(P, l) = 0 /\ TakenIn(P, l) = 0
  BY NoneHeld
<1>3. HeldOf(l) \in Nat /\ ReleasedOf(l) \in Nat
  BY <1>0, SumsTyped
<1>4. HeldOf(l)' = HeldOf(l)
  <2>1. CASE \E b \in ReturnBatches : s = ReturnReceiptSlot(b)
    <3>1. PICK b \in ReturnBatches : s = ReturnReceiptSlot(b)
      BY <2>1
    <3>2. HeldOf(l)' = HeldOf(l) + HeldIn(P, l)
      BY <1>0, <3>1, HeldGrows
    <3> QED BY <1>2, <1>3, <3>2
  <2>2. CASE \A b \in ReturnBatches : s # ReturnReceiptSlot(b)
    BY <1>0, <2>2, SumsAlone
  <2> QED BY <2>1, <2>2
<1>5. ReleasedOf(l)' = ReleasedOf(l)
  <2>1. CASE \E q \in Releases : s = ReleaseSlot(q)
    <3>1. PICK q \in Releases : s = ReleaseSlot(q)
      BY <2>1
    <3>2. ReleasedOf(l)' = ReleasedOf(l) + TakenIn(P, l)
      BY <1>0, <3>1, TakenGrows
    <3> QED BY <1>2, <1>3, <3>2
  <2>2. CASE \A q \in Releases : s # ReleaseSlot(q)
    BY <1>0, <2>2, SumsAlone
  <2> QED BY <2>1, <2>2
<1> QED BY <1>1, <1>4, <1>5

\* No transfer and no return dispatch names a quarantined lot: it is not
\* AVAILABLE, was never sent, and none of it is at an outlet.
LEMMA ReturnLotStays ==
    ASSUME StockTyped, LotsTold, ReleasedWithinHeld, NEW P \in Plans, NEW s \in HqSlots,
           PlanFits(s, P), RouteAllowed(RouteClass[s[2]], P), LotsAllowed(P), Sufficient(P),
           s[2] \in {"TRANSFER_ORDER_DISPATCH", "TRANSFER_ORDER_RECEIPT",
                     "STOCK_RETURN_DISPATCH"},
           NEW l \in Lots, lotState[l] = "QUARANTINED"
    PROVE  \A m \in P : m.lot # l
<1>0. l \in ReturnLots
  BY DEF LotsTold
<1> SUFFICES ASSUME NEW m \in P, m.lot = l PROVE FALSE
  OBVIOUS
<1>1. CASE s[2] = "TRANSFER_ORDER_DISPATCH"
  <2>1. m.way = "OUT" /\ m.policy = "ALLOCATABLE"
    BY <1>1 DEF PlanFits
  <2>2. lotState[l] = "AVAILABLE"
    BY <2>1 DEF LotsAllowed, OutEligible
  <2> QED BY <2>2
<1>2. CASE s[2] = "TRANSFER_ORDER_RECEIPT"
  BY <1>0, <1>2 DEF PlanFits
<1>3. CASE s[2] = "STOCK_RETURN_DISPATCH"
  <2>1. RouteClass[s[2]] = "OUTLET_RETURN_DISPATCH"
    BY <1>3 DEF RouteClass
  <2>2. \A k \in P : k.way = "OUT" /\ Purpose[k.wh] \in {"OUTLET_STORAGE", "KITCHEN"}
    BY <2>1 DEF RouteAllowed, At
  <2>3. m.wh \in Warehouses /\ m.wh # Quarantine
    <3>1. Purpose[Quarantine] = "QUARANTINE"
      BY ReturnAssumptions DEF Quarantine
    <3> QED BY <2>2, <3>1 DEF Plans, Move
  <2>4. onHand[m.wh][l] = 0
    BY <2>3 DEF ReleasedWithinHeld
  <2>5. Moved(P, "IN", m.wh, l) = 0
    <3>1. \A k \in P : ~ (k.way = "IN" /\ k.wh = m.wh /\ k.lot = l)
      BY <2>2
    <3> QED BY <3>1, NoneMoved
  <2>6. Moved(P, "OUT", m.wh, l) >= 1
    <3> DEFINE S == {k \in P : k.way = "OUT" /\ k.wh = m.wh /\ k.lot = l}
    <3>1. S \in SUBSET P /\ m \in S
      BY <2>2
    <3> HIDE DEF S
    <3>2. QtyOf(S) >= 1
      BY <3>1, QtyAtLeast
    <3> QED BY <3>2 DEF Moved, S
  <2>7. Moved(P, "OUT", m.wh, l) \in Nat
    BY MovedNat
  <2>8. After(P)[m.wh][l] >= 0
    BY <2>3 DEF Sufficient
  <2>9. After(P)[m.wh][l] = 0 + 0 - Moved(P, "OUT", m.wh, l)
    BY <2>3, <2>4, <2>5 DEF After
  <2> QED BY <2>6, <2>7, <2>8, <2>9
<1> QED BY <1>1, <1>2, <1>3

\* A return's receipt and a QA release name a quarantined lot in quarantine only,
\* and what they change of its balance there is what they hold or take.
LEMMA DisposalPosts ==
    ASSUME StockTyped, NEW b \in ReturnBatches, NEW P \in Plans, PlanFits(ReturnReceiptSlot(b), P),
           posting[ReturnReceiptSlot(b)] = {}, NEW l \in Lots,
           posting' = [posting EXCEPT ![ReturnReceiptSlot(b)] = P], onHand' = After(P)
    PROVE  /\ \A w \in Warehouses \ {Quarantine} : onHand'[w][l] = onHand[w][l]
           /\ onHand'[Quarantine][l] = onHand[Quarantine][l] + HeldIn(P, l)
           /\ HeldOf(l)' = HeldOf(l) + HeldIn(P, l) /\ ReleasedOf(l)' = ReleasedOf(l)
<1>0. onHand \in Balances /\ posting \in [Slots -> Plans] /\ Quarantine \in Warehouses
  BY HqWarehouses DEF StockTyped
<1>1. ReturnReceiptSlot(b)[2] = "STOCK_RETURN_RECEIPT"
  BY DEF ReturnReceiptSlot
<1>2. /\ \A m \in P : m.wh = Quarantine
      /\ Moved(P, "IN", Quarantine, l) - Moved(P, "OUT", Quarantine, l) = HeldIn(P, l)
  BY <1>1 DEF PlanFits
<1>3. ASSUME NEW w \in Warehouses \ {Quarantine} PROVE onHand'[w][l] = onHand[w][l]
  <2>1. Moved(P, "IN", w, l) = 0 /\ Moved(P, "OUT", w, l) = 0
    BY <1>2, NoneMoved
  <2>2. onHand[w][l] \in Nat
    BY <1>0 DEF Balances
  <2> QED BY <2>1, <2>2 DEF After
<1>4. onHand'[Quarantine][l] = onHand[Quarantine][l] + HeldIn(P, l)
  <2>1. onHand[Quarantine][l] \in Nat
    BY <1>0 DEF Balances
  <2>2. Moved(P, "IN", Quarantine, l) \in Nat /\ Moved(P, "OUT", Quarantine, l) \in Nat
    BY MovedNat
  <2>3. onHand'[Quarantine][l] = onHand[Quarantine][l] + Moved(P, "IN", Quarantine, l)
                                   - Moved(P, "OUT", Quarantine, l)
    BY <1>0 DEF After
  <2> QED BY <1>2, <2>1, <2>2, <2>3
<1>5. HeldOf(l)' = HeldOf(l) + HeldIn(P, l)
  BY <1>0, HeldGrows
<1>6. ReleasedOf(l)' = ReleasedOf(l)
  <2>1. /\ ReturnReceiptSlot(b) \in Slots
        /\ \A q \in Releases : ReturnReceiptSlot(b) # ReleaseSlot(q)
    BY ReturnsAndReleases
  <2> QED BY <1>0, <2>1, SumsAlone
<1> QED BY <1>3, <1>4, <1>5, <1>6

LEMMA ReleasePosts ==
    ASSUME StockTyped, NEW q \in Releases, NEW P \in Plans, PlanFits(ReleaseSlot(q), P),
           posting[ReleaseSlot(q)] = {}, NEW l \in Lots, l \in ReturnLots,
           posting' = [posting EXCEPT ![ReleaseSlot(q)] = P], onHand' = After(P)
    PROVE  /\ \A w \in Warehouses \ {Quarantine} : onHand'[w][l] = onHand[w][l]
           /\ onHand'[Quarantine][l] = onHand[Quarantine][l] - TakenIn(P, l)
           /\ HeldOf(l)' = HeldOf(l) /\ ReleasedOf(l)' = ReleasedOf(l) + TakenIn(P, l)
<1>0. onHand \in Balances /\ posting \in [Slots -> Plans] /\ Quarantine \in Warehouses
  BY HqWarehouses DEF StockTyped
<1>1. ReleaseSlot(q)[2] = "QA_RELEASE"
  BY DEF ReleaseSlot
<1>2. \A m \in P : /\ m.way = "OUT" => m.wh = Quarantine
                   /\ m.way = "IN" => m.lot # l
  BY <1>1 DEF PlanFits
<1>3. ASSUME NEW w \in Warehouses PROVE Moved(P, "IN", w, l) = 0
  BY <1>2, NoneMoved
<1>4. ASSUME NEW w \in Warehouses \ {Quarantine} PROVE onHand'[w][l] = onHand[w][l]
  <2>1. Moved(P, "OUT", w, l) = 0
    BY <1>2, NoneMoved
  <2>2. onHand[w][l] \in Nat
    BY <1>0 DEF Balances
  <2> QED BY <1>3, <2>1, <2>2 DEF After
<1>5. onHand'[Quarantine][l] = onHand[Quarantine][l] - TakenIn(P, l)
  <2> DEFINE S == {m \in P : m.way = "OUT" /\ m.wh = Quarantine /\ m.lot = l}
             T == {m \in P : m.lot = l /\ m.way = "OUT"}
  <2>1. S = T
    BY <1>2
  <2>2. Moved(P, "OUT", Quarantine, l) = TakenIn(P, l)
    BY <2>1 DEF Moved, TakenIn
  <2>3. onHand[Quarantine][l] \in Nat /\ TakenIn(P, l) \in Nat
    BY <1>0, HeldInNat DEF Balances
  <2>4. onHand'[Quarantine][l] = onHand[Quarantine][l] + Moved(P, "IN", Quarantine, l)
                                   - Moved(P, "OUT", Quarantine, l)
    BY <1>0 DEF After
  <2> QED BY <1>0, <1>3, <2>2, <2>3, <2>4
<1>6. ReleasedOf(l)' = ReleasedOf(l) + TakenIn(P, l)
  BY <1>0, TakenGrows
<1>7. HeldOf(l)' = HeldOf(l)
  <2>1. /\ ReleaseSlot(q) \in Slots
        /\ \A b \in ReturnBatches : ReleaseSlot(q) # ReturnReceiptSlot(b)
    BY ReturnsAndReleases
  <2> QED BY <1>0, <2>1, SumsAlone
<1> QED BY <1>4, <1>5, <1>6, <1>7

LEMMA CommitHeld ==
    ASSUME StockTyped, HqLedger, LotsTold, Fitting, ReleasedWithinHeld, NEW c \in Callers,
           Commit(c), lotState' = lotState
    PROVE  ReleasedWithinHeld'
<1> DEFINE s == call[c].slot
           P == call[c].plan
<1>0. onHand \in Balances /\ posting \in [Slots -> Plans] /\ Quarantine \in Warehouses
  BY HqWarehouses DEF StockTyped
<1>1. /\ P \in Plans /\ s \in HqSlots /\ s \in Slots /\ PlanFits(s, P)
  <2>1. P \in Plans
    BY SoundPlan DEF StockTyped
  <2>2. s \in HqSlots
    BY DEF Commit, HqLedger, LedgerInv, CallShape
  <2> QED BY <2>1, <2>2, SlotsKnown DEF Fitting
<1>2. /\ posting[s] = {} /\ RouteAllowed(RouteClass[s[2]], P) /\ LotsAllowed(P) /\ Sufficient(P)
      /\ onHand' = After(P) /\ posting' = [posting EXCEPT ![s] = P]
  BY DEF Commit
<1> SUFFICES ASSUME NEW l \in Lots, lotState[l] = "QUARANTINED"
             PROVE  /\ \A w \in Warehouses \ {Quarantine} : onHand'[w][l] = 0
                    /\ ReleasedOf(l)' + onHand'[Quarantine][l] = HeldOf(l)'
  BY DEF ReleasedWithinHeld
<1> HIDE DEF s, P
<1>3. /\ \A w \in Warehouses \ {Quarantine} : onHand[w][l] = 0
      /\ ReleasedOf(l) + onHand[Quarantine][l] = HeldOf(l)
      /\ onHand[Quarantine][l] \in Nat /\ ReleasedOf(l) \in Nat /\ HeldOf(l) \in Nat
      /\ HeldIn(P, l) \in Nat /\ TakenIn(P, l) \in Nat
  BY <1>0, <1>1, SumsTyped, HeldInNat DEF ReleasedWithinHeld, Balances
<1>4. CASE s[2] \in {"TRANSFER_ORDER_DISPATCH", "TRANSFER_ORDER_RECEIPT", "STOCK_RETURN_DISPATCH"}
  <2>1. \A m \in P : m.lot # l
    BY <1>1, <1>2, <1>4, ReturnLotStays
  <2>2. /\ \A w \in Warehouses : onHand'[w][l] = onHand[w][l]
        /\ ReleasedOf(l)' = ReleasedOf(l) /\ HeldOf(l)' = HeldOf(l)
    BY <1>1, <1>2, <2>1, Bypassed
  <2> QED BY <1>0, <1>3, <2>2
<1>5. CASE \E b \in ReturnBatches : s = ReturnReceiptSlot(b)
  <2>1. PICK b \in ReturnBatches : s = ReturnReceiptSlot(b)
    BY <1>5
  <2>2. /\ \A w \in Warehouses \ {Quarantine} : onHand'[w][l] = onHand[w][l]
        /\ onHand'[Quarantine][l] = onHand[Quarantine][l] + HeldIn(P, l)
        /\ HeldOf(l)' = HeldOf(l) + HeldIn(P, l) /\ ReleasedOf(l)' = ReleasedOf(l)
    BY <1>1, <1>2, <2>1, DisposalPosts
  <2> QED BY <1>3, <2>2
<1>6. CASE \E q \in Releases : s = ReleaseSlot(q)
  <2>1. PICK q \in Releases : s = ReleaseSlot(q)
    BY <1>6
  <2>2. l \in ReturnLots
    BY DEF LotsTold
  <2>3. /\ \A w \in Warehouses \ {Quarantine} : onHand'[w][l] = onHand[w][l]
        /\ onHand'[Quarantine][l] = onHand[Quarantine][l] - TakenIn(P, l)
        /\ HeldOf(l)' = HeldOf(l) /\ ReleasedOf(l)' = ReleasedOf(l) + TakenIn(P, l)
    BY <1>1, <1>2, <2>1, <2>2, ReleasePosts
  <2> QED BY <1>3, <2>3
<1> QED BY <1>1, <1>4, <1>5, <1>6 DEF HqSlots, TransferSlots, ReturnSlots, DispatchSlot,
           ReceiptSlot, ReturnSlot

LEMMA CommitTold ==
    ASSUME StockTyped, HqLedger, LotsTold, Fitting, SentLots, NEW c \in Callers,
           Commit(c), lotState' = lotState
    PROVE  LotsTold' /\ SentLots'
<1> DEFINE s == call[c].slot
           P == call[c].plan
<1>0. onHand \in Balances /\ posting \in [Slots -> Plans]
  BY DEF StockTyped
<1>1. P \in Plans /\ s \in HqSlots /\ s \in Slots /\ PlanFits(s, P)
  <2>1. P \in Plans
    BY SoundPlan DEF StockTyped
  <2>2. s \in HqSlots
    BY DEF Commit, HqLedger, LedgerInv, CallShape
  <2> QED BY <2>1, <2>2, SlotsKnown DEF Fitting
<1>2. LotsAllowed(P) /\ onHand' = After(P) /\ posting' = [posting EXCEPT ![s] = P]
  BY DEF Commit
<1> HIDE DEF s, P
<1>3. \A m \in P : lotState[m.lot] # "ABSENT" /\ m.lot \in Lots
  BY <1>1, <1>2 DEF LotsAllowed, Plans, Move
<1>4. ASSUME NEW l \in Lots, lotState[l] = "ABSENT", NEW w \in Warehouses
      PROVE  onHand'[w][l] = 0
  <2>1. \A m \in P : m.lot # l
    BY <1>3, <1>4
  <2>2. onHand'[w][l] = onHand[w][l]
    BY <1>0, <1>2, <2>1, LotAlone
  <2> QED BY <1>4, <2>2 DEF LotsTold
<1>5. LotsTold'
  <2>1. \A t \in Slots : posting'[t] = posting[t] \/ posting'[t] = P
    BY <1>0, <1>2
  <2>2. \A t \in Slots : \A m \in posting'[t] : lotState[m.lot] # "ABSENT"
    BY <1>3, <2>1 DEF LotsTold
  <2> QED BY <1>4, <2>2 DEF LotsTold
<1>6. ASSUME NEW o \in TransferOrders, NEW m \in posting'[DispatchSlot(o)]
      PROVE  m.lot \notin ReturnLots
  <2>0. DispatchSlot(o) \in Slots /\ DispatchSlot(o)[2] = "TRANSFER_ORDER_DISPATCH"
    BY TransferAssumptions DEF DispatchSlot
  <2>1. CASE s # DispatchSlot(o)
    <3>1. posting'[DispatchSlot(o)] = posting[DispatchSlot(o)]
      BY <1>0, <1>2, <2>0, <2>1
    <3> QED BY <1>6, <3>1 DEF SentLots
  <2>2. CASE s = DispatchSlot(o)
    <3>1. m \in P
      BY <1>0, <1>2, <1>6, <2>0, <2>2
    <3>2. m.way = "OUT" /\ m.policy = "ALLOCATABLE"
      BY <1>1, <2>0, <2>2, <3>1 DEF PlanFits
    <3>3. lotState[m.lot] = "AVAILABLE"
      BY <1>2, <3>1, <3>2 DEF LotsAllowed, OutEligible
    <3> QED BY <1>3, <3>1, <3>3 DEF LotsTold
  <2> QED BY <2>1, <2>2
<1>7. SentLots'
  BY <1>6 DEF SentLots
<1> QED BY <1>5, <1>7

-----------------------------------------------------------------------------
(* The other steps.                                                        *)

\* Nothing is posted and no lot changes its state.
LEMMA Unmoved ==
    ASSUME UNCHANGED <<onHand, lotState, posting>>
    PROVE  /\ LotsTold => LotsTold'
           /\ SentLots => SentLots'
           /\ ReleasedWithinHeld => ReleasedWithinHeld'
<1>1. onHand' = onHand /\ lotState' = lotState /\ posting' = posting
  OBVIOUS
<1>2. LotsTold => LotsTold'
  BY <1>1 DEF LotsTold
<1>3. SentLots => SentLots'
  BY <1>1 DEF SentLots
<1>4. \A l : HeldOf(l)' = HeldOf(l) /\ ReleasedOf(l)' = ReleasedOf(l)
  BY <1>1 DEF HeldOf, ReleasedOf, HeldIn, TakenIn
<1>5. ReleasedWithinHeld => ReleasedWithinHeld'
  BY <1>1, <1>4 DEF ReleasedWithinHeld
<1> QED BY <1>2, <1>3, <1>5

\* Lots are minted: those of returns in quarantine, no others; there is nothing of
\* a lot before it is minted, and a lot minted before stays as it is.
LEMMA MintedTold ==
    ASSUME StockTyped, LotsTold, SentLots, ReleasedWithinHeld, NEW S, NEW st,
           \/ st = "QUARANTINED" /\ S \subseteq ReturnLots
           \/ st = "AVAILABLE" /\ S \cap ReturnLots = {},
           onHand' = onHand, posting' = posting,
           lotState' = [k \in Lots |-> IF k \in S THEN st ELSE lotState[k]]
    PROVE  LotsTold' /\ SentLots' /\ ReleasedWithinHeld'
<1>0. lotState \in [Lots -> LotStates] /\ posting \in [Slots -> Plans] /\ Quarantine \in Warehouses
      /\ onHand \in Balances
  BY HqWarehouses DEF StockTyped
<1>1. \A l \in Lots : lotState'[l] = IF l \in S THEN st ELSE lotState[l]
  OBVIOUS
<1>2. LotsTold'
  <2>1. \A s \in Slots : \A m \in posting[s] : m.lot \in Lots
    BY <1>0 DEF Plans, Move
  <2>2. \A s \in Slots : \A m \in posting[s] : lotState'[m.lot] # "ABSENT"
    BY <1>1, <2>1 DEF LotsTold
  <2> QED BY <1>1, <2>2 DEF LotsTold
<1>3. SentLots'
  BY DEF SentLots
<1>4. \A l : HeldOf(l)' = HeldOf(l) /\ ReleasedOf(l)' = ReleasedOf(l)
  <2>1. posting' = posting
    OBVIOUS
  <2> QED BY <2>1 DEF HeldOf, ReleasedOf, HeldIn, TakenIn
<1>5. ASSUME NEW l \in Lots, lotState'[l] = "QUARANTINED"
      PROVE  /\ \A w \in Warehouses \ {Quarantine} : onHand[w][l] = 0
             /\ ReleasedOf(l) + onHand[Quarantine][l] = HeldOf(l)
  <2>1. CASE lotState[l] = "QUARANTINED"
    BY <2>1 DEF ReleasedWithinHeld
  <2>2. CASE lotState[l] # "QUARANTINED"
    <3>1. l \in S /\ st = "QUARANTINED"
      BY <1>1, <1>5, <2>2
    <3>2. l \in ReturnLots
      BY <3>1
    <3>3. lotState[l] = "ABSENT"
      BY <1>0, <2>2, <3>2 DEF LotsTold, LotStates
    <3>4. \A w \in Warehouses : onHand[w][l] = 0
      BY <3>3 DEF LotsTold
    <3>5. \A s \in Slots : \A m \in posting[s] : m.lot # l
      BY <3>3 DEF LotsTold
    <3>6. HeldOf(l) = 0 /\ ReleasedOf(l) = 0
      BY <3>5, NothingOf
    <3> QED BY <1>0, <3>4, <3>6
  <2> QED BY <2>1, <2>2
<1>6. ReleasedWithinHeld'
  BY <1>4, <1>5 DEF ReleasedWithinHeld
<1> QED BY <1>2, <1>3, <1>6

\* The plans in flight: a request keeps its plan, starts with one that fits or ends.
LEMMA AnsweredFits ==
    ASSUME Fitting, CallShape(HqSlots), NEW c \in Callers, NEW p, Answered(c, p)
    PROVE  Fitting'
<1>1. /\ call'[c].slot = call[c].slot /\ call'[c].plan = call[c].plan
      /\ \A k \in Callers \ {c} : call'[k] = call[k]
  BY DEF Answered, CallShape, CallFields
<1>2. \A k \in Callers : PlanFits(call'[k].slot, call'[k].plan)
  BY <1>1 DEF Fitting
<1> QED BY <1>2 DEF Fitting, PlanFits

LEMMA FinishedFits ==
    ASSUME Fitting, CallShape(HqSlots), NEW c \in Callers, Finished(c)
    PROVE  Fitting'
<1>1. \A k \in Callers : PlanFits(call'[k].slot, call'[k].plan)
  BY EndedCall, IdleFits DEF Fitting
<1> QED BY <1>1 DEF Fitting, PlanFits

LEMMA PreparedFits ==
    ASSUME Fitting, CallShape(HqSlots), NEW c \in Callers, NEW s, NEW P, PlanFits(s, P),
           NEW v, Prepared(c, s, P, {}, v)
    PROVE  Fitting'
<1>1. \A k \in Callers : PlanFits(call'[k].slot, call'[k].plan)
  BY StartsWith DEF Fitting
<1> QED BY <1>1 DEF Fitting, PlanFits

LEMMA CallsAlone == ASSUME Fitting, call' = call PROVE Fitting'
<1>1. \A k \in Callers : PlanFits(call'[k].slot, call'[k].plan)
  BY DEF Fitting
<1> QED BY <1>1 DEF Fitting, PlanFits

-----------------------------------------------------------------------------
(* Custody as an invariant.                                                *)

LEMMA CustodyAtFirst == ASSUME HqInit PROVE Custody
<1>1. /\ onHand = InitStock /\ posting = [s \in Slots |-> {}]
      /\ call = [c \in Callers |-> Idle]
      /\ lotState = [l \in Lots |-> IF l \in OpeningLots THEN "AVAILABLE" ELSE "ABSENT"]
  BY DEF HqInit, StockInit
<1>2. LotsTold
  <2>1. \A l \in Lots : /\ lotState[l] # "QUARANTINED"
                        /\ lotState[l] = "AVAILABLE" => l \in OpeningLots
                        /\ lotState[l] = "ABSENT" => l \notin OpeningLots
    BY <1>1
  <2>2. ASSUME NEW l \in Lots, lotState[l] = "ABSENT", NEW w \in Warehouses
        PROVE  onHand[w][l] = 0
    BY <1>1, <2>1, <2>2, StockAssumptions
  <2>3. \A s \in Slots : posting[s] = {}
    BY <1>1
  <2> QED BY <2>1, <2>2, <2>3, ReturnLotsApart DEF LotsTold
<1>3. Fitting
  BY <1>1, IdleFits DEF Fitting
<1>4. SentLots
  BY <1>1, TransferAssumptions DEF SentLots, DispatchSlot
<1>5. ReleasedWithinHeld
  BY <1>1 DEF ReleasedWithinHeld
<1> QED BY <1>2, <1>3, <1>4, <1>5 DEF Custody

LEMMA PostingCustody ==
    ASSUME StockTyped, HqLedger, Custody, PostingNext \/ \E c \in Callers : Compensate(c)
    PROVE  Custody'
<1>0. LotsTold /\ Fitting /\ SentLots /\ ReleasedWithinHeld /\ CallShape(HqSlots)
  BY DEF Custody, HqLedger, LedgerInv
<1>1. ASSUME NEW c \in Callers, Post(c) \/ PostLost(c) PROVE Custody'
  <2>1. Commit(c) /\ lotState' = lotState /\ \E p : Answered(c, p)
    BY <1>1 DEF Post, PostLost
  <2>2. LotsTold' /\ SentLots'
    BY <1>0, <2>1, CommitTold
  <2>3. ReleasedWithinHeld'
    BY <1>0, <2>1, CommitHeld
  <2>4. Fitting'
    BY <1>0, <2>1, AnsweredFits
  <2> QED BY <2>2, <2>3, <2>4 DEF Custody
<1>2. ASSUME NEW c \in Callers, PostReplay(c) \/ PostRefused(c) PROVE Custody'
  <2>1. UNCHANGED <<onHand, lotState, posting>> /\ \E p : Answered(c, p)
    BY <1>2 DEF PostReplay, PostRefused
  <2>2. Fitting'
    BY <1>0, <2>1, AnsweredFits
  <2>3. LotsTold' /\ SentLots' /\ ReleasedWithinHeld'
    BY <1>0, <2>1, Unmoved
  <2> QED BY <2>2, <2>3 DEF Custody
<1>3. ASSUME NEW c \in Callers, Crash(c) \/ Compensate(c) PROVE Custody'
  <2>1. UNCHANGED <<onHand, lotState, posting>> /\ Finished(c)
    BY <1>3 DEF Crash, Compensate
  <2>2. Fitting'
    BY <1>0, <2>1, FinishedFits
  <2>3. LotsTold' /\ SentLots' /\ ReleasedWithinHeld'
    BY <1>0, <2>1, Unmoved
  <2> QED BY <2>2, <2>3 DEF Custody
<1>4. ASSUME NextDay PROVE Custody'
  <2>1. UNCHANGED <<onHand, lotState, posting>> /\ call' = call
    BY <1>4 DEF NextDay
  <2>2. Fitting'
    BY <1>0, <2>1, CallsAlone
  <2>3. LotsTold' /\ SentLots' /\ ReleasedWithinHeld'
    BY <1>0, <2>1, Unmoved
  <2> QED BY <2>2, <2>3 DEF Custody
<1> QED BY <1>1, <1>2, <1>3, <1>4 DEF PostingNext

\* Steps that leave the balances, the lots and the postings as they are.
LEMMA QuietCustody ==
    ASSUME Custody, CallShape(HqSlots), UNCHANGED <<onHand, lotState, posting>>,
           \/ call' = call
           \/ \E c \in Callers : Finished(c)
           \/ \E c \in Callers : \E s, P, v : PlanFits(s, P) /\ Prepared(c, s, P, {}, v)
    PROVE  Custody'
<1>0. LotsTold /\ Fitting /\ SentLots /\ ReleasedWithinHeld
  BY DEF Custody
<1>1. LotsTold' /\ SentLots' /\ ReleasedWithinHeld'
  BY <1>0, Unmoved
<1>2. Fitting'
  <2>1. CASE call' = call
    BY <1>0, <2>1, CallsAlone
  <2>2. CASE \E c \in Callers : Finished(c)
    BY <1>0, <2>2, FinishedFits
  <2>3. CASE \E c \in Callers : \E s, P, v : PlanFits(s, P) /\ Prepared(c, s, P, {}, v)
    BY <1>0, <2>3, PreparedFits
  <2> QED BY <2>1, <2>2, <2>3
<1> QED BY <1>1, <1>2 DEF Custody

LEMMA TransferCustody ==
    ASSUME Custody, HqLedger, NEW o \in TransferOrders, TransferInv(o), TransferStep(o)
    PROVE  Custody'
<1>0. CallShape(HqSlots) /\ SentLots
  BY DEF Custody, HqLedger, LedgerInv
<1>1. ASSUME NEW u \in Users, TransferDesk(o, u) \/ CancelTransferOrder(o, u) PROVE Custody'
  <2>1. UNCHANGED stockVars
    BY <1>1 DEF TransferDesk, CreateTransferOrderDraft, UpdateTransferOrderDraft,
       SubmitTransferOrder, ApproveTransferOrder, CancelTransferOrder
  <2>2. UNCHANGED <<onHand, lotState, posting>> /\ call' = call
    BY <2>1 DEF stockVars
  <2> QED BY <1>0, <2>2, QuietCustody
<1>2. ASSUME NEW c \in Callers, NEW u \in Users, DispatchTransferPrepare(c, o, u)
      PROVE  Custody'
  <2>1. /\ Prepared(c, DispatchSlot(o), DispatchPlan(o), {}, tVersion[o])
        /\ UNCHANGED <<onHand, lotState, posting>>
    BY <1>2 DEF DispatchTransferPrepare
  <2>2. PlanFits(DispatchSlot(o), DispatchPlan(o))
    BY DispatchFits
  <2> QED BY <1>0, <2>1, <2>2, QuietCustody
<1>3. ASSUME NEW c \in Callers, NEW u \in Users, NEW got,
             ReceiveTransferPrepare(c, o, u, got)
      PROVE  Custody'
  <2>1. /\ Prepared(c, ReceiptSlot(o), ReceiptPlan(o, got), {}, tVersion[o])
        /\ UNCHANGED <<onHand, lotState, posting>>
        /\ tStatus[o] \in {"DISPATCHED", "RECEIVED"}
    BY <1>3 DEF ReceiveTransferPrepare
  <2>2. PlanFits(ReceiptSlot(o), ReceiptPlan(o, got))
    BY <1>0, <2>1, ReceiptFits
  <2> QED BY <1>0, <2>1, <2>2, QuietCustody
<1>4. ASSUME NEW c \in Callers, DispatchTransferFinalize(c, o) \/ ReceiveTransferFinalize(c, o)
      PROVE  Custody'
  <2>1. Finished(c) /\ UNCHANGED <<onHand, lotState, posting>>
    BY <1>4 DEF DispatchTransferFinalize, ReceiveTransferFinalize
  <2> QED BY <1>0, <2>1, QuietCustody
<1> QED BY <1>1, <1>2, <1>3, <1>4 DEF TransferStep

LEMMA ReturnCustody ==
    ASSUME Custody, HqLedger, StockTyped, ReturnTyped, NEW b \in ReturnBatches, ReturnStep(b)
    PROVE  Custody'
<1>0. CallShape(HqSlots) /\ LotsTold /\ Fitting /\ SentLots /\ ReleasedWithinHeld
  BY DEF Custody, HqLedger, LedgerInv
<1>1. ASSUME NEW u \in Users, ReturnDesk(b, u) PROVE Custody'
  <2>1. UNCHANGED stockVars
    BY <1>1 DEF ReturnDesk, CreateStockReturnDraft, UpdateStockReturnDraft,
       SubmitStockReturnBatch, ApproveStockReturnBatch, CancelStockReturnBatch
  <2>2. UNCHANGED <<onHand, lotState, posting>> /\ call' = call
    BY <2>1 DEF stockVars
  <2> QED BY <1>0, <2>2, QuietCustody
<1>2. ASSUME NEW c \in Callers, NEW u \in Users, DispatchReturnPrepare(c, b, u)
      PROVE  Custody'
  <2>1. /\ Prepared(c, ReturnSlot(b), ReturnPlan(b), {}, rVersion[b])
        /\ UNCHANGED <<onHand, lotState, posting>>
    BY <1>2 DEF DispatchReturnPrepare
  <2>2. PlanFits(ReturnSlot(b), ReturnPlan(b))
    BY ReturnFits
  <2> QED BY <1>0, <2>1, <2>2, QuietCustody
<1>3. ASSUME NEW c \in Callers, NEW u \in Users, NEW reason \in Dispositions(b),
             ReceiveReturnPrepare(c, b, u, reason)
      PROVE  Custody'
  <2> DEFINE S == {QuarantineLot(b, l.no) : l \in rLines[b]}
  <2>1. /\ Prepared(c, ReturnReceiptSlot(b), ReturnReceiptPlan(b, reason), {}, rVersion[b])
        /\ lotState' = [k \in Lots |-> IF k \in S THEN "QUARANTINED" ELSE lotState[k]]
        /\ onHand' = onHand /\ posting' = posting
    BY <1>3 DEF ReceiveReturnPrepare, QuarantineLotsMinted
  <2>2. S \subseteq ReturnLots
    BY LinesOfReturn
  <2> HIDE DEF S
  <2>3. LotsTold' /\ SentLots' /\ ReleasedWithinHeld'
    BY <1>0, <2>1, <2>2, MintedTold
  <2>4. PlanFits(ReturnReceiptSlot(b), ReturnReceiptPlan(b, reason))
    BY DisposalFits
  <2>5. Fitting'
    BY <1>0, <2>1, <2>4, PreparedFits
  <2> QED BY <2>3, <2>5 DEF Custody
<1>4. ASSUME NEW c \in Callers, DispatchReturnFinalize(c, b) \/ ReceiveReturnFinalize(c, b)
      PROVE  Custody'
  <2>1. Finished(c) /\ UNCHANGED <<onHand, lotState, posting>>
    BY <1>4 DEF DispatchReturnFinalize, ReceiveReturnFinalize
  <2> QED BY <1>0, <2>1, QuietCustody
<1> QED BY <1>1, <1>2, <1>3, <1>4 DEF ReturnStep

LEMMA ReleaseCustody ==
    ASSUME Custody, HqLedger, StockTyped, NEW q \in Releases, ReleaseStep(q)
    PROVE  Custody'
<1>0. CallShape(HqSlots) /\ LotsTold /\ Fitting /\ SentLots /\ ReleasedWithinHeld
  BY DEF Custody, HqLedger, LedgerInv
<1>1. ASSUME NEW u \in Users,
             \/ \E lines \in ReleaseDrafts :
                  CreateQaReleaseDraft(q, u, lines) \/ UpdateQaReleaseDraft(q, u, lines)
             \/ SubmitQaRelease(q, u) \/ ApproveQaRelease(q, u) \/ CancelQaRelease(q, u)
      PROVE  Custody'
  <2>1. UNCHANGED stockVars
    BY <1>1 DEF CreateQaReleaseDraft, UpdateQaReleaseDraft, SubmitQaRelease,
       ApproveQaRelease, CancelQaRelease
  <2>2. UNCHANGED <<onHand, lotState, posting>> /\ call' = call
    BY <2>1 DEF stockVars
  <2> QED BY <1>0, <2>2, QuietCustody
<1>2. ASSUME NEW c \in Callers, NEW u \in Users, ReleasePrepare(c, q, u) PROVE Custody'
  <2> DEFINE S == {ReleasedLot(q, l.no) : l \in qLines[q]}
  <2>1. /\ Prepared(c, ReleaseSlot(q), ReleasePlan(q), {}, qVersion[q])
        /\ lotState' = [k \in Lots |-> IF k \in S THEN "AVAILABLE" ELSE lotState[k]]
        /\ onHand' = onHand /\ posting' = posting
    BY <1>2 DEF ReleasePrepare, ReleasedLotsMinted
  <2>2. S \cap ReturnLots = {}
    BY ReturnLotsApart
  <2> HIDE DEF S
  <2>3. LotsTold' /\ SentLots' /\ ReleasedWithinHeld'
    BY <1>0, <2>1, <2>2, MintedTold
  <2>4. PlanFits(ReleaseSlot(q), ReleasePlan(q))
    BY ReleaseFits
  <2>5. Fitting'
    BY <1>0, <2>1, <2>4, PreparedFits
  <2> QED BY <2>3, <2>5 DEF Custody
<1>3. ASSUME NEW c \in Callers, ReleaseFinalize(c, q) PROVE Custody'
  <2>1. Finished(c) /\ UNCHANGED <<onHand, lotState, posting>>
    BY <1>3 DEF ReleaseFinalize
  <2> QED BY <1>0, <2>1, QuietCustody
<1> QED BY <1>1, <1>2, <1>3 DEF ReleaseStep

LEMMA CustodyKept == ASSUME HqInv, HqTyped, Custody, [HqNext]_hqVars PROVE Custody'
<1>0. HqLedger /\ StockTyped /\ ReturnTyped
  BY DEF HqInv, HqTyped
<1>1. CASE PostingNext \/ \E c \in Callers : Compensate(c)
  BY <1>0, <1>1, PostingCustody
<1>2. CASE TransferNext
  <2>1. PICK o \in TransferOrders : TransferStep(o)
    BY <1>2 DEF TransferNext
  <2>2. TransferInv(o)
    BY DEF HqInv, TransferHistory
  <2> QED BY <1>0, <2>1, <2>2, TransferCustody
<1>3. CASE ReturnNext
  <2>1. PICK b \in ReturnBatches : ReturnStep(b)
    BY <1>3 DEF ReturnNext
  <2> QED BY <1>0, <2>1, ReturnCustody
<1>4. CASE ReleaseNext
  <2>1. PICK q \in Releases : ReleaseStep(q)
    BY <1>4 DEF ReleaseNext
  <2> QED BY <1>0, <2>1, ReleaseCustody
<1>5. CASE UNCHANGED hqVars
  <2>1. UNCHANGED <<onHand, lotState, posting>> /\ call' = call
    BY <1>5 DEF hqVars, stockVars
  <2>2. CallShape(HqSlots)
    BY <1>0 DEF HqLedger, LedgerInv
  <2> QED BY <2>1, <2>2, QuietCustody
<1> QED BY <1>1, <1>2, <1>3, <1>4, <1>5 DEF HqNext

\* Quarantine custody: a quarantined lot lies nowhere but in quarantine, and what
\* all releases took of it together with what is left is what returns held of
\* it, whatever requests, retries, cancellations and crashes there were
\* (qa-releases/service.ts frees the booking of a release it may still post).
THEOREM CustodyHolds == HqSpec => []ReleasedWithinHeld
<1>1. HqInit => Custody
  BY CustodyAtFirst
<1>2. HqInv /\ HqTyped /\ Custody /\ [HqNext]_hqVars => Custody'
  BY CustodyKept
<1>3. Custody => ReleasedWithinHeld
  BY DEF Custody
<1> QED BY <1>1, <1>2, <1>3, HqInductive, HqTypedAlways, PTL DEF HqSpec
=============================================================================
