------------------------ MODULE ProviderEventsProofs ------------------------
(***************************************************************************)
(* Proofs about ProviderEvents, for any events, orders, concurrent calls,  *)
(* reprocess requests and restarts: type correctness, what PROCESSED       *)
(* means, and the retry budget.                                            *)
(***************************************************************************)
EXTENDS ProviderEvents, FiniteSetTheorems, TLAPS

Places == {"idle", "load", "gate", "create", "lookup", "cancel", "done",
           "unmapped", "failing", "waiting", "follow"}
OrderStages == {"ABSENT", "OPEN", "COMPLETED", "CANCELLED"}

-----------------------------------------------------------------------------
(* Type correctness, with the event a call is on                           *)

\* A call under way is on an event, of the kind its place is about.
CallTypes ==
    /\ pc \in [Processors -> Places]
    /\ event \in [Processors -> Events \cup {NoEvent}]
    /\ base \in [Processors -> Nat]
    /\ cool \in [Processors -> BOOLEAN]
    /\ force \in [Processors -> BOOLEAN]
    /\ parent \in [Processors -> [event : Creates \cup {NoEvent}, base : Nat]]
    /\ \A p \in Processors :
          /\ pc[p] # "idle" => event[p] \in Events
          /\ pc[p] \in {"create", "follow"} => event[p] \in Creates
          /\ pc[p] \in {"lookup", "cancel", "waiting"} => event[p] \in Cancels

RowTypes ==
    /\ state \in [Events -> EventStates]
    /\ attempts \in [Events -> Nat]
    /\ cooling \in [Events -> BOOLEAN]
    /\ linked \in [Events -> BOOLEAN]
    /\ arrival \in [Events -> Nat]

WorldTypes ==
    /\ enabled \in BOOLEAN /\ mapped \in BOOLEAN /\ due \subseteq Events
    /\ stage \in [Orders -> OrderStages]
    /\ reprocessed \in 0..MaxReprocess /\ restarts \in 0..MaxRestarts

TypeInv == CallTypes /\ RowTypes /\ WorldTypes

\* The types used here contain TypeOK.
LEMMA TypeInvImplies == TypeInv => TypeOK
BY DEF TypeInv, CallTypes, RowTypes, WorldTypes, TypeOK, Places, OrderStages

\* Where a call may go next.
LEMMA CallMoves ==
    ASSUME CallTypes, NEW p \in Processors,
           \/ \E e \in Events, forced \in BOOLEAN,
                 inside \in [event : Creates \cup {NoEvent}, base : Nat] : Calls(p, e, forced, inside)
           \/ Returns(p)
           \/ Throws(p)
           \/ pc[p] # "idle" /\ \E place \in {"done", "unmapped", "failing"} : Goes(p, place)
           \/ event[p] \in Creates /\ \E place \in {"create", "follow"} : Goes(p, place)
           \/ event[p] \in Cancels /\ \E place \in {"lookup", "cancel", "waiting"} : Goes(p, place)
    PROVE  CallTypes'
<1>0. NoParent \in [event : Creates \cup {NoEvent}, base : Nat]
  BY DEF NoParent
<1>1. ASSUME NEW e \in Events, NEW forced \in BOOLEAN,
             NEW inside \in [event : Creates \cup {NoEvent}, base : Nat], Calls(p, e, forced, inside)
      PROVE  CallTypes'
  BY <1>1 DEF Calls, CallTypes, Places
<1>2. CASE Returns(p)
  BY <1>0, <1>2 DEF Returns, CallTypes, Places
<1>3. CASE Throws(p) /\ parent[p].event # NoEvent
  <2>1. parent[p].event \in Creates /\ parent[p].base \in Nat
    BY <1>3 DEF CallTypes
  <2>2. /\ pc' = [pc EXCEPT ![p] = "failing"]
        /\ event' = [event EXCEPT ![p] = parent[p].event]
        /\ base' = [base EXCEPT ![p] = parent[p].base]
        /\ parent' = [parent EXCEPT ![p] = NoParent]
        /\ cool' = [cool EXCEPT ![p] = FALSE]
        /\ force' = force
    BY <1>3 DEF Throws
  <2>3. pc' \in [Processors -> Places] /\ event' \in [Processors -> Events \cup {NoEvent}]
    BY <2>1, <2>2 DEF CallTypes, Places, Events
  <2>4. base' \in [Processors -> Nat] /\ cool' \in [Processors -> BOOLEAN]
    BY <2>1, <2>2 DEF CallTypes
  <2>5. parent' \in [Processors -> [event : Creates \cup {NoEvent}, base : Nat]]
    BY <1>0, <2>2 DEF CallTypes
  <2>6. \A q \in Processors :
          /\ pc'[q] # "idle" => event'[q] \in Events
          /\ pc'[q] \in {"create", "follow"} => event'[q] \in Creates
          /\ pc'[q] \in {"lookup", "cancel", "waiting"} => event'[q] \in Cancels
    BY <2>1, <2>2 DEF CallTypes, Events
  <2> QED BY <2>2, <2>3, <2>4, <2>5, <2>6 DEF CallTypes
<1>4. ASSUME NEW place \in {"done", "unmapped", "failing"}, pc[p] # "idle", Goes(p, place)
      PROVE  CallTypes'
  BY <1>4 DEF Goes, CallTypes, Places
<1>5. ASSUME NEW place \in {"create", "follow"}, event[p] \in Creates, Goes(p, place) PROVE CallTypes'
  BY <1>5 DEF Goes, CallTypes, Places, Events
<1>6. ASSUME NEW place \in {"lookup", "cancel", "waiting"}, event[p] \in Cancels, Goes(p, place)
      PROVE  CallTypes'
  BY <1>6 DEF Goes, CallTypes, Places, Events
<1> QED BY <1>1, <1>2, <1>3, <1>4, <1>5, <1>6 DEF Throws

\* The steps of a call keep the types.
LEMMA CallKeepsTypes == ASSUME TypeInv, NEW p \in Processors, CallStep(p) PROVE TypeInv'
<1>0. CallTypes /\ RowTypes /\ WorldTypes
  BY DEF TypeInv
<1>1. CASE LoadEvent(p)
  <2>1. CASE Throws(p) \/ Returns(p)
    BY <1>0, <1>1, <2>1, CallMoves DEF LoadEvent, TypeInv, RowTypes, WorldTypes, rowVars, worldVars
  <2>2. CASE /\ pc' = [pc EXCEPT ![p] = "gate"]
             /\ base' = [base EXCEPT ![p] = attempts[event[p]]]
             /\ cool' = [cool EXCEPT ![p] = cooling[event[p]]]
             /\ UNCHANGED <<event, force, parent>>
    <3>1. event[p] \in Events /\ attempts[event[p]] \in Nat /\ cooling[event[p]] \in BOOLEAN
      BY <1>0, <1>1 DEF LoadEvent, CallTypes, RowTypes
    <3>2. CallTypes'
      BY <1>0, <2>2, <3>1 DEF CallTypes, Places
    <3> QED BY <1>0, <1>1, <3>2 DEF LoadEvent, TypeInv, RowTypes, WorldTypes, rowVars, worldVars
  <2> QED BY <1>1, <2>1, <2>2 DEF LoadEvent
<1>2. CASE PassGates(p)
  <2>1. event[p] \in Events /\ pc[p] # "idle"
    BY <1>0, <1>2 DEF PassGates, CallTypes
  <2>2. CallTypes'
    BY <1>0, <1>2, <2>1, CallMoves DEF PassGates, Events
  <2> QED BY <1>0, <1>2, <2>2 DEF PassGates, TypeInv, RowTypes, WorldTypes, rowVars, worldVars
<1>3. CASE IngestOrder(p)
  <2>1. event[p] \in Events /\ pc[p] # "idle" /\ RefOf[event[p]] \in Orders
    BY <1>0, <1>3, ProviderAssumptions DEF IngestOrder, CallTypes
  <2>2. CallTypes'
    BY <1>0, <1>3, <2>1, CallMoves DEF IngestOrder
  <2>3. stage' \in [Orders -> OrderStages]
    BY <1>0, <1>3, <2>1 DEF IngestOrder, WorldTypes, OrderStages
  <2> QED BY <1>0, <1>3, <2>2, <2>3 DEF IngestOrder, TypeInv, RowTypes, WorldTypes, rowVars, worldVars
<1>4. CASE LookUpOrder(p)
  <2>1. event[p] \in Cancels /\ pc[p] # "idle"
    BY <1>0, <1>4 DEF LookUpOrder, CallTypes
  <2>2. AfterLookup(stage[RefOf[event[p]]]) \in {"waiting", "done", "cancel"}
    BY DEF AfterLookup
  <2>3. CallTypes'
    BY <1>0, <1>4, <2>1, <2>2, CallMoves DEF LookUpOrder
  <2> QED BY <1>0, <1>4, <2>3 DEF LookUpOrder, TypeInv, RowTypes, WorldTypes, rowVars, worldVars
<1>5. CASE CancelOrder(p)
  <2>1. event[p] \in Events /\ pc[p] # "idle" /\ RefOf[event[p]] \in Orders
    BY <1>0, <1>5, ProviderAssumptions DEF CancelOrder, CallTypes
  <2>2. CallTypes'
    BY <1>0, <1>5, <2>1, CallMoves DEF CancelOrder
  <2>3. stage' \in [Orders -> OrderStages]
    BY <1>0, <1>5, <2>1 DEF CancelOrder, WorldTypes, OrderStages
  <2> QED BY <1>0, <1>5, <2>2, <2>3 DEF CancelOrder, TypeInv, RowTypes, WorldTypes, rowVars, worldVars
<1>6. CASE MarkProcessed(p)
  <2>1. CallTypes'
    BY <1>0, <1>6, CallMoves DEF MarkProcessed
  <2>2. state' \in [Events -> EventStates] /\ linked' \in [Events -> BOOLEAN]
    BY <1>0, <1>6 DEF MarkProcessed, RowTypes, EventStates
  <2> QED BY <1>0, <1>6, <2>1, <2>2 DEF MarkProcessed, TypeInv, RowTypes, WorldTypes, worldVars
<1>7. CASE FollowUp(p)
  <2>1. event[p] \in Creates /\ base[p] \in Nat
    BY <1>0, <1>7 DEF FollowUp, CallTypes
  <2>2. [event |-> event[p], base |-> base[p]] \in [event : Creates \cup {NoEvent}, base : Nat]
    BY <2>1
  <2>3. WaitingCancels(RefOf[event[p]]) \subseteq Events
    BY DEF WaitingCancels, Events
  <2>4. CallTypes'
    BY <1>0, <1>7, <2>2, <2>3, CallMoves DEF FollowUp
  <2> QED BY <1>0, <1>7, <2>4 DEF FollowUp, TypeInv, RowTypes, WorldTypes, rowVars, worldVars
<1>8. CASE MarkMappingRequired(p) \/ MarkWaitingDependency(p)
  <2>1. CallTypes'
    BY <1>0, <1>8, CallMoves DEF MarkMappingRequired, MarkWaitingDependency
  <2>2. state' \in [Events -> EventStates]
    BY <1>0, <1>8 DEF MarkMappingRequired, MarkWaitingDependency, RowTypes, EventStates
  <2> QED BY <1>0, <1>8, <2>1, <2>2 DEF MarkMappingRequired, MarkWaitingDependency, TypeInv, RowTypes,
            WorldTypes, worldVars
<1>9. CASE MarkRetryOrFailed(p)
  <2>1. CallTypes'
    BY <1>0, <1>9, CallMoves DEF MarkRetryOrFailed
  <2>2. base[p] + 1 \in Nat /\ RetryState(base[p] + 1) \in EventStates
    BY <1>0 DEF CallTypes, RetryState, EventStates
  <2>3. state' \in [Events -> EventStates] /\ attempts' \in [Events -> Nat]
    BY <1>0, <1>9, <2>2 DEF MarkRetryOrFailed, RowTypes
  <2>4. cooling' \in [Events -> BOOLEAN]
    BY <1>0, <1>9 DEF MarkRetryOrFailed, RowTypes
  <2> QED BY <1>0, <1>9, <2>1, <2>3, <2>4 DEF MarkRetryOrFailed, TypeInv, RowTypes, WorldTypes, worldVars
<1> QED BY <1>1, <1>2, <1>3, <1>4, <1>5, <1>6, <1>7, <1>8, <1>9 DEF CallStep

\* The types are inductive.
LEMMA TypeStep == TypeInv /\ [Next]_vars => TypeInv'
<1> SUFFICES ASSUME TypeInv, [Next]_vars PROVE TypeInv'
  OBVIOUS
<1>0. CallTypes /\ RowTypes /\ WorldTypes
  BY DEF TypeInv
<1>1. ASSUME NEW e \in Events, NEW sameHash \in BOOLEAN, IntakeEvent(e, sameHash) PROVE TypeInv'
  <2>1. Cardinality(Known) \in Nat
    BY FS_Subset, FS_CardinalityType, ProviderAssumptions DEF Known
  <2>2. RowTypes'
    BY <1>0, <1>1, <2>1 DEF IntakeEvent, RowTypes, EventStates
  <2>3. due' \subseteq Events
    BY <1>0, <1>1 DEF IntakeEvent, WorldTypes
  <2> QED BY <1>0, <1>1, <2>2, <2>3 DEF IntakeEvent, TypeInv, CallTypes, WorldTypes, callVars, worldVars
<1>2. ASSUME NEW p \in Processors, NEW e \in Events, StartProcessing(p, e) PROVE TypeInv'
  <2>1. NoParent \in [event : Creates \cup {NoEvent}, base : Nat]
    BY DEF NoParent
  <2>2. CallTypes'
    BY <1>0, <1>2, <2>1, CallMoves DEF StartProcessing
  <2> QED BY <1>0, <1>2, <2>2 DEF StartProcessing, TypeInv, RowTypes, WorldTypes, rowVars, worldVars
<1>3. ASSUME NEW p \in Processors, NEW e \in Events, Reprocess(p, e) PROVE TypeInv'
  <2>1. NoParent \in [event : Creates \cup {NoEvent}, base : Nat]
    BY DEF NoParent
  <2>2. CallTypes'
    BY <1>0, <1>3, <2>1, CallMoves DEF Reprocess
  <2>3. reprocessed' \in 0..MaxReprocess
    BY <1>0, <1>3, ProviderAssumptions DEF Reprocess, WorldTypes
  <2> QED BY <1>0, <1>3, <2>2, <2>3 DEF Reprocess, TypeInv, RowTypes, WorldTypes, rowVars
<1>4. ASSUME NEW o \in Orders, NEW s \in {"COMPLETED", "CANCELLED"}, CloseOrder(o, s) PROVE TypeInv'
  <2>1. stage' \in [Orders -> OrderStages]
    BY <1>0, <1>4 DEF CloseOrder, WorldTypes, OrderStages
  <2> QED BY <1>0, <1>4, <2>1 DEF CloseOrder, TypeInv, CallTypes, RowTypes, WorldTypes, rowVars, callVars,
            worldVars
<1>5. ASSUME NEW e \in Events, CoolingElapses(e) PROVE TypeInv'
  BY <1>0, <1>5 DEF CoolingElapses, TypeInv, CallTypes, RowTypes, WorldTypes, callVars, worldVars
<1>6. ASSUME NEW p \in Processors, ReadElapses(p) PROVE TypeInv'
  BY <1>0, <1>6 DEF ReadElapses, TypeInv, CallTypes, RowTypes, WorldTypes, rowVars, worldVars
<1>7. CASE ChangeFlag \/ ChangeMapping
  BY <1>0, <1>7 DEF ChangeFlag, ChangeMapping, TypeInv, CallTypes, RowTypes, WorldTypes, rowVars,
        callVars, worldVars
<1>8. CASE Restart
  <2>1. CallTypes'
    BY <1>8 DEF Restart, CallTypes, Places, NoParent
  <2>2. restarts' \in 0..MaxRestarts
    BY <1>0, <1>8, ProviderAssumptions DEF Restart, WorldTypes
  <2> QED BY <1>0, <1>8, <2>1, <2>2 DEF Restart, TypeInv, RowTypes, WorldTypes, rowVars
<1>9. CASE UNCHANGED vars
  BY <1>0, <1>9 DEF vars, TypeInv, CallTypes, RowTypes, WorldTypes, rowVars, callVars, worldVars
<1> QED BY <1>1, <1>2, <1>3, <1>4, <1>5, <1>6, <1>7, <1>8, <1>9, CallKeepsTypes DEF Next

\* The types hold in every reachable state.
LEMMA TypeInductive == Spec => []TypeInv
<1>1. Init => TypeInv
  BY ProviderAssumptions DEF Init, TypeInv, CallTypes, RowTypes, WorldTypes, Places, OrderStages,
        EventStates, NoParent
<1> QED BY <1>1, TypeStep, PTL DEF Spec

\* Every reachable state is well typed.
THEOREM TypeCorrect == Spec => []TypeOK
BY TypeInductive, TypeInvImplies, PTL

-----------------------------------------------------------------------------
(* What PROCESSED means.  A call that is about to mark its event carries   *)
(* the truth with it, and the truth about an order does not go away: an    *)
(* order is never deleted and a cancelled one stays cancelled.             *)

Truth(e) ==
    /\ stage[RefOf[e]] # "ABSENT"
    /\ e \in Cancels => stage[RefOf[e]] = "CANCELLED"

DoneIsTrue == \A p \in Processors : pc[p] = "done" => Truth(event[p])

ProcessedInv == TypeInv /\ ProcessedIsTrue /\ DoneIsTrue

\* What is true of the order of an event stays true.
LEMMA TruthStays ==
    ASSUME TypeInv, [Next]_vars, NEW e \in Events, Truth(e) PROVE Truth(e)'
<1>1. RefOf[e] \in Orders /\ stage \in [Orders -> OrderStages]
  BY ProviderAssumptions DEF TypeInv, WorldTypes
<1>2. CASE UNCHANGED stage
  BY <1>2 DEF Truth
<1>3. ASSUME NEW p \in Processors, IngestOrder(p) PROVE Truth(e)'
  BY <1>1, <1>3 DEF IngestOrder, Truth
<1>4. ASSUME NEW p \in Processors, CancelOrder(p) PROVE Truth(e)'
  BY <1>1, <1>4 DEF CancelOrder, Truth
<1>5. ASSUME NEW o \in Orders, NEW s \in {"COMPLETED", "CANCELLED"}, CloseOrder(o, s) PROVE Truth(e)'
  BY <1>1, <1>5 DEF CloseOrder, Truth
<1>6. ASSUME NEW p \in Processors, CallStep(p), ~IngestOrder(p), ~CancelOrder(p) PROVE UNCHANGED stage
  BY <1>6 DEF CallStep, LoadEvent, PassGates, LookUpOrder, MarkProcessed, FollowUp,
              MarkMappingRequired, MarkWaitingDependency, MarkRetryOrFailed
<1>7. ASSUME \/ \E f \in Events, sameHash \in BOOLEAN : IntakeEvent(f, sameHash)
             \/ \E p \in Processors, f \in Events : StartProcessing(p, f) \/ Reprocess(p, f)
             \/ \E f \in Events : CoolingElapses(f)
             \/ \E p \in Processors : ReadElapses(p)
             \/ ChangeFlag \/ ChangeMapping \/ Restart \/ UNCHANGED vars
      PROVE  UNCHANGED stage
  BY <1>7 DEF IntakeEvent, StartProcessing, Reprocess, CoolingElapses, ReadElapses, ChangeFlag, ChangeMapping,
              Restart, vars
<1> QED BY <1>2, <1>3, <1>4, <1>5, <1>6, <1>7 DEF Next

\* A step that marks no event PROCESSED and brings no call to "done".
LEMMA ProcessedQuiet ==
    ASSUME ProcessedInv, [Next]_vars,
           \A e \in Events : state'[e] = "PROCESSED" => state[e] = "PROCESSED" /\ linked'[e] = linked[e],
           \A p \in Processors : pc'[p] = "done" => pc[p] = "done" /\ event'[p] = event[p]
    PROVE  ProcessedInv'
<1>1. TypeInv /\ TypeInv'
  BY TypeStep DEF ProcessedInv
<1>2. ProcessedIsTrue'
  <2> SUFFICES ASSUME NEW e \in Events, state'[e] = "PROCESSED" PROVE linked'[e] /\ Truth(e)'
    BY DEF ProcessedIsTrue, Truth
  <2>1. linked[e] /\ linked'[e] = linked[e] /\ Truth(e)
    BY DEF ProcessedInv, ProcessedIsTrue, Truth
  <2>2. Truth(e)'
    BY <1>1, <2>1, TruthStays
  <2> QED BY <2>1, <2>2
<1>3. \A p \in Processors : pc[p] = "done" => event[p] \in Events
  BY <1>1 DEF TypeInv, CallTypes
<1>4. DoneIsTrue'
  <2>1. ASSUME NEW e \in Events, Truth(e)
        PROVE  /\ stage'[RefOf[e]] # "ABSENT"
               /\ e \in Cancels => stage'[RefOf[e]] = "CANCELLED"
    BY <1>1, <2>1, TruthStays DEF Truth
  <2>2. ASSUME NEW p \in Processors, pc'[p] = "done"
        PROVE  /\ stage'[RefOf[event'[p]]] # "ABSENT"
               /\ event'[p] \in Cancels => stage'[RefOf[event'[p]]] = "CANCELLED"
    <3>1. event'[p] = event[p] /\ event[p] \in Events /\ Truth(event[p])
      BY <1>3, <2>2 DEF ProcessedInv, DoneIsTrue
    <3> QED BY <2>1, <3>1
  <2> QED BY <2>2 DEF DoneIsTrue, Truth
<1> QED BY <1>1, <1>2, <1>4 DEF ProcessedInv

\* A step that brings one call to "done" with the truth about its event.
LEMMA ReachesDone ==
    ASSUME ProcessedInv, [Next]_vars, NEW p \in Processors, UNCHANGED <<state, linked, event>>,
           \A q \in Processors \ {p} : pc'[q] = pc[q],
           pc'[p] = "done" => /\ stage'[RefOf[event[p]]] # "ABSENT"
                              /\ event[p] \in Cancels => stage'[RefOf[event[p]]] = "CANCELLED"
    PROVE  ProcessedInv'
<1>1. TypeInv /\ TypeInv'
  BY TypeStep DEF ProcessedInv
<1>2. ASSUME NEW e \in Events, Truth(e)
      PROVE  /\ stage'[RefOf[e]] # "ABSENT"
             /\ e \in Cancels => stage'[RefOf[e]] = "CANCELLED"
  BY <1>1, <1>2, TruthStays DEF Truth
<1>3. ProcessedIsTrue'
  BY <1>2 DEF ProcessedInv, ProcessedIsTrue, Truth
<1>4. DoneIsTrue'
  <2>1. \A q \in Processors : pc[q] = "done" => event[q] \in Events /\ Truth(event[q])
    BY <1>1 DEF TypeInv, CallTypes, ProcessedInv, DoneIsTrue
  <2>2. ASSUME NEW q \in Processors, pc'[q] = "done"
        PROVE  /\ stage'[RefOf[event[q]]] # "ABSENT"
               /\ event[q] \in Cancels => stage'[RefOf[event[q]]] = "CANCELLED"
    <3>1. CASE q = p
      BY <2>2, <3>1
    <3>2. CASE q # p
      BY <1>2, <2>1, <2>2, <3>2
    <3> QED BY <3>1, <3>2
  <2> QED BY <2>2 DEF DoneIsTrue, Truth
<1> QED BY <1>1, <1>3, <1>4 DEF ProcessedInv

\* The invariant about PROCESSED is inductive.
LEMMA ProcessedStep == ProcessedInv /\ [Next]_vars => ProcessedInv'
<1> SUFFICES ASSUME ProcessedInv, [Next]_vars PROVE ProcessedInv'
  OBVIOUS
<1>1. TypeInv /\ TypeInv' /\ Creates \cap Cancels = {}
  BY TypeStep, ProviderAssumptions DEF ProcessedInv
<1>2. /\ pc \in [Processors -> Places] /\ event \in [Processors -> Events \cup {NoEvent}]
      /\ state \in [Events -> EventStates] /\ linked \in [Events -> BOOLEAN]
      /\ stage \in [Orders -> OrderStages] /\ RefOf \in [Events -> Orders]
      /\ \A p \in Processors :
            /\ pc[p] # "idle" => event[p] \in Events
            /\ pc[p] \in {"create", "follow"} => event[p] \in Creates
            /\ pc[p] \in {"lookup", "cancel", "waiting"} => event[p] \in Cancels
  BY <1>1, ProviderAssumptions DEF TypeInv, CallTypes, RowTypes, WorldTypes
<1>3. ASSUME NEW p \in Processors, IngestOrder(p) PROVE ProcessedInv'
  <2>1. event[p] \in Creates /\ event[p] \in Events /\ RefOf[event[p]] \in Orders
    BY <1>2, <1>3 DEF IngestOrder
  <2>2. pc'[p] = "done" => stage'[RefOf[event[p]]] # "ABSENT"
    BY <1>2, <1>3, <2>1 DEF IngestOrder, Goes
  <2>3. UNCHANGED <<state, linked, event>> /\ \A q \in Processors \ {p} : pc'[q] = pc[q]
    BY <1>2, <1>3 DEF IngestOrder, Goes, rowVars
  <2> QED BY <1>1, <2>1, <2>2, <2>3, ReachesDone
<1>4. ASSUME NEW p \in Processors, LookUpOrder(p) PROVE ProcessedInv'
  <2>1. pc'[p] = "done" => stage[RefOf[event[p]]] = "CANCELLED"
    BY <1>2, <1>4 DEF LookUpOrder, Goes, AfterLookup
  <2>2. UNCHANGED <<state, linked, event, stage>> /\ \A q \in Processors \ {p} : pc'[q] = pc[q]
    BY <1>2, <1>4 DEF LookUpOrder, Goes, rowVars
  <2> QED BY <2>1, <2>2, ReachesDone
<1>5. ASSUME NEW p \in Processors, CancelOrder(p) PROVE ProcessedInv'
  <2>1. RefOf[event[p]] \in Orders
    BY <1>2, <1>5 DEF CancelOrder
  <2>2. pc'[p] = "done" => stage'[RefOf[event[p]]] = "CANCELLED"
    BY <1>2, <1>5, <2>1 DEF CancelOrder, Goes
  <2>3. UNCHANGED <<state, linked, event>> /\ \A q \in Processors \ {p} : pc'[q] = pc[q]
    BY <1>2, <1>5 DEF CancelOrder, Goes, rowVars
  <2> QED BY <2>2, <2>3, ReachesDone
<1>6. ASSUME NEW p \in Processors, MarkProcessed(p) PROVE ProcessedInv'
  <2> DEFINE e == event[p]
  <2>1. e \in Events /\ Truth(e) /\ UNCHANGED stage
    BY <1>2, <1>6 DEF MarkProcessed, ProcessedInv, DoneIsTrue
  <2>2. /\ linked'[e] /\ \A f \in Events \ {e} : state'[f] = state[f] /\ linked'[f] = linked[f]
        /\ pc'[p] # "done"
        /\ \A q \in Processors \ {p} : pc'[q] = pc[q] /\ event'[q] = event[q]
    BY <1>2, <1>6, <2>1 DEF MarkProcessed, Goes, Returns
  <2> HIDE DEF e
  <2>3. ProcessedIsTrue'
    BY <2>1, <2>2 DEF ProcessedInv, ProcessedIsTrue, Truth
  <2>4. DoneIsTrue'
    BY <2>1, <2>2 DEF ProcessedInv, DoneIsTrue, Truth
  <2> QED BY <1>1, <2>3, <2>4 DEF ProcessedInv
<1>7. ASSUME NEW p \in Processors,
             \/ LoadEvent(p) \/ PassGates(p) \/ FollowUp(p) \/ MarkMappingRequired(p)
             \/ MarkWaitingDependency(p) \/ MarkRetryOrFailed(p)
      PROVE  ProcessedInv'
  <2>1. /\ pc'[p] # "done"
        /\ \A q \in Processors \ {p} : pc'[q] = pc[q] /\ event'[q] = event[q]
    BY <1>2, <1>7 DEF LoadEvent, PassGates, FollowUp, MarkMappingRequired, MarkWaitingDependency,
          MarkRetryOrFailed, Goes, Calls, Returns, Throws
  <2>2. \A e \in Events : state'[e] = "PROCESSED" => state[e] = "PROCESSED" /\ linked'[e] = linked[e]
    BY <1>2, <1>7 DEF LoadEvent, PassGates, FollowUp, MarkMappingRequired, MarkWaitingDependency,
          MarkRetryOrFailed, RetryState, rowVars
  <2> QED BY <2>1, <2>2, ProcessedQuiet
<1>8. ASSUME NEW p \in Processors, NEW e \in Events, StartProcessing(p, e) \/ Reprocess(p, e)
      PROVE  ProcessedInv'
  <2>1. /\ \A q \in Processors : pc'[q] = "done" => pc[q] = "done" /\ event'[q] = event[q]
        /\ UNCHANGED <<state, linked>>
    BY <1>2, <1>8 DEF StartProcessing, Reprocess, Calls, rowVars
  <2> QED BY <2>1, ProcessedQuiet
<1>9. ASSUME NEW e \in Events, NEW sameHash \in BOOLEAN, IntakeEvent(e, sameHash) PROVE ProcessedInv'
  <2>1. /\ \A f \in Events : state'[f] = "PROCESSED" => state[f] = "PROCESSED"
        /\ UNCHANGED <<linked, pc, event>>
    BY <1>2, <1>9 DEF IntakeEvent, callVars
  <2> QED BY <2>1, ProcessedQuiet
<1>10. CASE Restart
  <2>1. (\A q \in Processors : pc'[q] # "done") /\ UNCHANGED <<state, linked>>
    BY <1>10 DEF Restart, rowVars
  <2> QED BY <2>1, ProcessedQuiet
<1>11. ASSUME \/ \E o \in Orders, s \in {"COMPLETED", "CANCELLED"} : CloseOrder(o, s)
              \/ \E e \in Events : CoolingElapses(e)
              \/ \E p \in Processors : ReadElapses(p)
              \/ ChangeFlag \/ ChangeMapping \/ UNCHANGED vars
       PROVE  ProcessedInv'
  <2>1. UNCHANGED <<state, linked, pc, event>>
    BY <1>11 DEF CloseOrder, CoolingElapses, ReadElapses, ChangeFlag, ChangeMapping, vars, rowVars, callVars
  <2> QED BY <2>1, ProcessedQuiet
<1> QED BY <1>3, <1>4, <1>5, <1>6, <1>7, <1>8, <1>9, <1>10, <1>11 DEF Next, CallStep

\* PROCESSED tells the truth about the order, whatever calls work on the same
\* event, the order is closed by the kitchen, or the process restarts.
THEOREM ProcessedTellsTruth == Spec => []ProcessedIsTrue
<1>1. Init /\ TypeInv => ProcessedInv
  BY DEF Init, ProcessedInv, ProcessedIsTrue, DoneIsTrue
<1>2. Spec => TypeInv
  BY TypeInductive, PTL
<1>3. ProcessedInv => ProcessedIsTrue
  BY DEF ProcessedInv
<1> QED BY <1>1, <1>2, <1>3, ProcessedStep, PTL DEF Spec

-----------------------------------------------------------------------------
(* The retry budget.  A row not yet taken in has no attempts.              *)

AbsentIsFresh == \A e \in Events : state[e] = "ABSENT" => attempts[e] = 0

BudgetInv == TypeInv /\ RetryBudget /\ AbsentIsFresh

\* The retry budget is inductive.
LEMMA BudgetStep == BudgetInv /\ [Next]_vars => BudgetInv'
<1> SUFFICES ASSUME BudgetInv, [Next]_vars PROVE BudgetInv'
  OBVIOUS
<1>1. TypeInv /\ TypeInv' /\ MaxProcessingAttempts \in Nat \ {0}
  BY TypeStep, ProviderAssumptions DEF BudgetInv
<1>2. /\ state \in [Events -> EventStates] /\ attempts \in [Events -> Nat]
      /\ base \in [Processors -> Nat]
  BY <1>1 DEF TypeInv, RowTypes, CallTypes
<1>3. CASE UNCHANGED <<state, attempts>>
  BY <1>1, <1>3 DEF BudgetInv, RetryBudget, AbsentIsFresh
<1>4. ASSUME NEW e \in Events, NEW sameHash \in BOOLEAN, IntakeEvent(e, sameHash) PROVE BudgetInv'
  BY <1>1, <1>2, <1>4 DEF IntakeEvent, BudgetInv, RetryBudget, AbsentIsFresh
<1>5. ASSUME NEW p \in Processors,
             MarkProcessed(p) \/ MarkMappingRequired(p) \/ MarkWaitingDependency(p)
      PROVE  BudgetInv'
  BY <1>1, <1>2, <1>5 DEF MarkProcessed, MarkMappingRequired, MarkWaitingDependency, BudgetInv,
        RetryBudget, AbsentIsFresh
<1>6. ASSUME NEW p \in Processors, MarkRetryOrFailed(p) PROVE BudgetInv'
  <2> DEFINE n == base[p] + 1
  <2>1. /\ n \in Nat
        /\ RetryState(n) # "ABSENT"
        /\ RetryState(n) = "PENDING" => ~(n >= MaxProcessingAttempts)
        /\ RetryState(n) = "FAILED" => n >= MaxProcessingAttempts
    BY <1>2 DEF RetryState, Failed
  <2>2. \A e \in Events : \/ state'[e] = state[e] /\ attempts'[e] = attempts[e]
                          \/ state'[e] = RetryState(n) /\ attempts'[e] = n
    BY <1>2, <1>6 DEF MarkRetryOrFailed
  <2> HIDE DEF n
  <2>3. RetryBudget' /\ AbsentIsFresh'
    BY <1>1, <2>1, <2>2 DEF BudgetInv, RetryBudget, AbsentIsFresh
  <2> QED BY <1>1, <2>3 DEF BudgetInv
<1>7. ASSUME NEW p \in Processors,
             \/ LoadEvent(p) \/ PassGates(p) \/ IngestOrder(p) \/ LookUpOrder(p) \/ CancelOrder(p)
             \/ FollowUp(p)
      PROVE  UNCHANGED <<state, attempts>>
  BY <1>7 DEF LoadEvent, PassGates, IngestOrder, LookUpOrder, CancelOrder, FollowUp, rowVars
<1>8. ASSUME \/ \E p \in Processors, e \in Events : StartProcessing(p, e) \/ Reprocess(p, e)
             \/ \E o \in Orders, s \in {"COMPLETED", "CANCELLED"} : CloseOrder(o, s)
             \/ \E e \in Events : CoolingElapses(e)
             \/ \E p \in Processors : ReadElapses(p)
             \/ ChangeFlag \/ ChangeMapping \/ Restart \/ UNCHANGED vars
      PROVE  UNCHANGED <<state, attempts>>
  BY <1>8 DEF StartProcessing, Reprocess, CloseOrder, CoolingElapses, ReadElapses, ChangeFlag, ChangeMapping,
              Restart, vars, rowVars
<1> QED BY <1>3, <1>4, <1>5, <1>6, <1>7, <1>8 DEF Next, CallStep

\* A row open for retry always has an attempt left and a FAILED row has none,
\* whatever stale counts concurrent calls write over each other.
THEOREM BudgetKept == Spec => []RetryBudget
<1>1. Init /\ TypeInv => BudgetInv
  BY DEF Init, BudgetInv, RetryBudget, AbsentIsFresh
<1>2. Spec => TypeInv
  BY TypeInductive, PTL
<1>3. BudgetInv => RetryBudget
  BY DEF BudgetInv
<1> QED BY <1>1, <1>2, <1>3, BudgetStep, PTL DEF Spec
=============================================================================
