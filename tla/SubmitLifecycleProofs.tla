------------------------ MODULE SubmitLifecycleProofs ------------------------
(***************************************************************************)
(* For any operations, frames and calls: a call under way owns its frame,  *)
(* and a timer or a listener is armed only while its call has the frame.   *)
(* The first part proves it of an application that does not poll           *)
(* nextEvent(), where the loops of submit() end the calls; the second of   *)
(* one that uses submitNoWait() only, where nextEvent() and the peer       *)
(* finish the frames, and then no event is lost but a late payload.        *)
(***************************************************************************)
EXTENDS SubmitLifecycle, TLAPS

(* A call is listened for between its dispatch and its settling.           *)
Heard == {"waiting", "resolving", "rejecting", "returned"}

(* Without nextEvent() no event is being handled, so none frees a frame.   *)
LoneReader == reading = NoEvent

(* Once the session is closed nothing needs to be said of its frames.      *)
ListenersInv == \A o \in listening : call[o] \in Heard

IInv == FrameIsOwned /\ LoneReader /\ ListenersInv /\ ListensWhileBound
-----------------------------------------------------------------------------
(* A step that leaves the calls, their frames and their listeners alone.   *)
LEMMA OthersStay ==
  ASSUME IInv, TypeOK', UNCHANGED <<plan, call, operationByFrame, closed, reading>>,
         given \subseteq given', listening' \subseteq listening
  PROVE  IInv'
BY DEF IInv, FrameIsOwned, LoneReader, ListenersInv, ListensWhileBound, SessionOpen, FrameOf

(* A step that ends the wait of a call, in whatever way, without settling  *)
(* it.                                                                     *)
LEMMA WaitEnds ==
  ASSUME IInv, TypeOK', NEW o \in Operations, NEW to \in {"resolving", "rejecting"},
         call[o] = "waiting", Moves(o, to),
         UNCHANGED <<plan, operationByFrame, closed, reading>>, given \subseteq given',
         listening' \subseteq listening
  PROVE  IInv'
<1>1. call \in [Operations -> Unsettled \cup {"idle", "resolved", "returned", "rejected"}]
  BY DEF IInv, FrameIsOwned, TypeOK
<1>2. \A p \in Operations : call'[p] \in Unsettled => call[p] \in Unsettled
  BY <1>1 DEF Moves, Unsettled
<1>3. \A p \in Operations : call[p] \in Heard => call'[p] \in Heard
  BY <1>1 DEF Moves, Heard
<1>4. listening \subseteq Operations BY DEF IInv, FrameIsOwned, TypeOK
<1> QED
  BY <1>2, <1>3, <1>4 DEF IInv, FrameIsOwned, LoneReader, ListenersInv, ListensWhileBound, SessionOpen, FrameOf

(* A frame finished for its own call costs no other call anything.         *)
LEMMA SettlingKeepsIInv ==
  ASSUME IInv, TypeOK', NEW o \in Operations, NEW own \in SUBSET {o}, call[o] \in Unsettled,
         o \in own \/ call[o] = "preparing",
         NEW to \in {"resolved", "rejected"}, Moves(o, to), FinishFrame(FrameOf(o), own),
         UNCHANGED <<plan, given, closed, reading>>
  PROVE  IInv'
<1>1. /\ call \in [Operations -> Unsettled \cup {"idle", "resolved", "returned", "rejected"}]
      /\ operationByFrame \in [Frames -> Operations \cup {None}]
      /\ listening \subseteq Operations /\ plan \in [Operations -> Call]
  BY PlanAssumption DEF IInv, FrameIsOwned, TypeOK
<1>2. \A p \in Operations : FrameOf(p) \in Frames /\ FrameOf(p)' = FrameOf(p)
  BY <1>1 DEF FrameOf, Call
<1>3. \A p \in Operations : p # o => call'[p] = call[p]
  BY <1>1 DEF Moves
<1>4. call'[o] \notin Unsettled
  BY <1>1 DEF Moves, Unsettled
<1>5. o \notin listening'
  BY DEF FinishFrame, IInv, ListenersInv, Heard
<1>6. listening' \subseteq listening /\ ListenersInv'
  BY <1>1, <1>3, <1>5 DEF FinishFrame, IInv, ListenersInv
<1>7. ASSUME SessionOpen, NEW p \in Operations, p # o, operationByFrame[FrameOf(p)] = p
      PROVE  operationByFrame'[FrameOf(p)] = p
  <2>1. operationByFrame[FrameOf(o)] = o BY <1>7 DEF IInv, FrameIsOwned
  <2>2. FrameOf(p) # FrameOf(o) BY <2>1, <1>7
  <2> QED BY <1>1, <1>2, <1>7, <2>2 DEF FinishFrame
<1>8. SessionOpen' <=> SessionOpen BY DEF SessionOpen
<1>9. FrameIsOwned'
  BY <1>2, <1>3, <1>4, <1>7, <1>8 DEF IInv, FrameIsOwned
<1>10. ListensWhileBound'
  BY <1>1, <1>2, <1>5, <1>6, <1>7, <1>8 DEF IInv, ListensWhileBound
<1> QED BY <1>6, <1>9, <1>10 DEF IInv, LoneReader
-----------------------------------------------------------------------------
LEMMA InitIInv == Init => IInv
<1> SUFFICES ASSUME Init PROVE IInv
  OBVIOUS
<1>1. events \in Seq(Event \cup {CloseEvent}) /\ given = {} /\ dropped = {} /\ reading = NoEvent
  BY DEF Init
<1>2. call \in [Operations -> {"idle"}] /\ listening = {}
  BY DEF Init
<1>3. TypeOK
  BY <1>1, <1>2, HoldingAssumption DEF Init, TypeOK
<1>4. FrameIsOwned
  BY <1>2, <1>3 DEF FrameIsOwned, Unsettled
<1> QED
  BY <1>1, <1>2, <1>4 DEF IInv, LoneReader, ListenersInv, ListensWhileBound

(* The types through one step.                                             *)
LEMMA TypesStep ==
  ASSUME TypeOK, [Next]_vars
  PROVE  TypeOK'
<1>0. /\ plan \in [Operations -> Call]
      /\ \A o \in Operations : FrameOf(o) \in Frames
      /\ \A e \in Event : e \in Event \cup {CloseEvent}
  BY PlanAssumption DEF TypeOK, Call, FrameOf
<1>1. ASSUME NEW o \in Operations, Submit(o) \/ CallStep(o)
      PROVE  TypeOK'
  <2>1. CASE Submit(o)
    BY <1>0, <2>1 DEF Submit, Dispatch, Moves, Unsettled, TypeOK, readVars, frameVars
  <2>2. CASE Prepared(o)
    <3>1. /\ call' \in [Operations -> Unsettled \cup {"idle", "resolved", "returned", "rejected"}]
          /\ \A p \in Operations : call'[p] = "returned" => call[p] = "returned"
      BY <2>2 DEF Prepared, Dispatch, Moves, Unsettled, TypeOK
    <3>2. /\ operationByFrame' \in [Frames -> Operations \cup {None}]
          /\ cleanups' \in [Frames -> Operations \cup {None}]
          /\ listening' \subseteq Operations
      BY <2>2 DEF Prepared, Dispatch, FinishFrame, TypeOK
    <3>3. operation' \in [Operations -> {"none", "submitting", "running", "partial", "dropped", "ended"}]
      BY <2>2 DEF Prepared, Dispatch, TypeOK
    <3> QED BY <2>2, <3>1, <3>2, <3>3 DEF Prepared, TypeOK, readVars
  <2>3. CASE Accepted(o)
    BY <2>3 DEF Accepted, Moves, Unsettled, TypeOK, readVars, frameVars
  <2>4. CASE Refused(o)
    BY <2>4 DEF Refused, Moves, Unsettled, TypeOK, readVars, frameVars
  <2>5. CASE Settles(o)
    BY <1>0, <2>5 DEF Settles, FinishFrame, Moves, Unsettled, TypeOK, readVars, nativeVars
  <2> QED BY <1>1, <2>1, <2>2, <2>3, <2>4, <2>5 DEF CallStep
<1>2. ASSUME NEW o \in Operations, Trigger(o) \/ AppCancels(o) \/ CancelStep(o)
      PROVE  TypeOK'
  <2>1. CASE Trigger(o)
    BY <2>1 DEF Trigger, SendsCancel, Moves, Unsettled, TypeOK, readVars, nativeVars
  <2>2. CASE AppCancels(o)
    BY <2>2 DEF AppCancels, SendsCancel, TypeOK, frameVars, readVars, nativeVars
  <2>3. CASE CancelStep(o)
    BY <2>3 DEF CancelStep, CancelSent, CancelFails, Releases, TypeOK, frameVars, readVars, nativeVars
  <2> QED BY <1>2, <2>1, <2>2, <2>3
<1>3. ASSUME NEW o \in Operations, Emit(o)
      PROVE  TypeOK'
  <2>1. /\ events' \in Seq(Event \cup {CloseEvent})
        /\ operation' \in [Operations -> {"none", "submitting", "running", "partial", "dropped", "ended"}]
    <3>1. PICK kind \in {"partial", "drop", "result", "lifecycle"},
               to \in {"partial", "dropped", "ended"} :
            /\ events' = Append(events, [op |-> o, kind |-> kind])
            /\ operation' = [operation EXCEPT ![o] = to]
      BY <1>3 DEF Emit, Emits
    <3>2. [op |-> o, kind |-> kind] \in Event \cup {CloseEvent} BY DEF Event
    <3>3. events' \in Seq(Event \cup {CloseEvent}) BY <3>1, <3>2 DEF TypeOK
    <3> QED BY <3>1, <3>3 DEF TypeOK
  <2> QED BY <1>3, <2>1 DEF Emit, TypeOK, frameVars, readVars
<1>4. ASSUME EmitClose
      PROVE  TypeOK'
  <2>1. events' \in Seq(Event \cup {CloseEvent}) BY <1>4 DEF EmitClose, TypeOK
  <2> QED BY <1>4, <2>1 DEF EmitClose, TypeOK, frameVars, readVars
<1>5. ASSUME NEW o \in Operations, LoopStep(o)
      PROVE  TypeOK'
  <2>1. CASE LoopFails(o)
    BY <2>1 DEF LoopFails, Moves, Unsettled, TypeOK, frameVars, readVars
  <2>2. CASE LoopTakes(o)
    <3> DEFINE E == Event \cup {CloseEvent}
    <3>1. events \in Seq(E) /\ events # <<>> BY <2>2 DEF LoopTakes, TypeOK
    <3> HIDE DEF E
    <3>2. Head(events) \in E /\ Tail(events) \in Seq(E) BY <3>1
    <3>3. Head(events) \in Event \cup {CloseEvent} /\ events' \in Seq(Event \cup {CloseEvent})
      BY <3>2, <2>2 DEF LoopTakes, E
    <3>4. given' \subseteq Event \cup {CloseEvent} /\ dropped' \subseteq Event \cup {CloseEvent}
      BY <3>3, <2>2 DEF LoopTakes, Drops, Gives, TypeOK
    <3>5. polling' \subseteq Operations /\ call' \in {call, [call EXCEPT ![o] = "resolving"]}
      BY <2>2 DEF LoopTakes, Moves, TypeOK
    <3>6. /\ call' \in [Operations -> Unsettled \cup {"idle", "resolved", "returned", "rejected"}]
          /\ \A p \in Operations : call'[p] = "returned" => call[p] = "returned"
      BY <3>5 DEF TypeOK, Unsettled
    <3> QED BY <2>2, <3>3, <3>4, <3>5, <3>6 DEF LoopTakes, TypeOK, frameVars
  <2> QED BY <1>5, <2>1, <2>2 DEF LoopStep
<1>6. ASSUME Close
      PROVE  TypeOK'
  BY <1>6 DEF Close, TypeOK, nativeVars, readVars
<1>7. CASE UNCHANGED vars
  BY <1>7 DEF vars, frameVars, nativeVars, readVars, TypeOK
<1>8. CASE ReaderTakes
  <2> DEFINE E == Event \cup {CloseEvent}
  <2>1. events \in Seq(E) /\ events # <<>> BY <1>8 DEF ReaderTakes, TypeOK
  <2> HIDE DEF E
  <2>2. Head(events) \in E /\ Tail(events) \in Seq(E) BY <2>1
  <2>3. reading' \in Event \cup {CloseEvent, NoEvent} /\ events' \in Seq(Event \cup {CloseEvent})
    BY <2>2, <1>8 DEF ReaderTakes, E
  <2> QED BY <1>8, <2>3 DEF ReaderTakes, TypeOK, frameVars
<1>9. CASE ReaderHandles
  <2>1. reading \in Event \cup {CloseEvent}
    BY <1>9 DEF ReaderHandles, TypeOK
  <2>2. /\ given' \subseteq Event \cup {CloseEvent} /\ dropped' \subseteq Event \cup {CloseEvent}
        /\ cancelledOperations' \subseteq Operations /\ reading' = NoEvent
    BY <1>9, <2>1 DEF ReaderHandles, PeerClosed, FinishesTerminal, Drops, Gives, TypeOK
  <2>3. ASSUME NEW f \in Frames, FinishesTerminal(f, reading)
        PROVE  /\ terminalFrames' \subseteq Frames /\ listening' \subseteq Operations
               /\ operationByFrame' \in [Frames -> Operations \cup {None}]
               /\ cleanups' \in [Frames -> Operations \cup {None}]
    BY <2>3 DEF FinishesTerminal, FinishFrame, frameVars, TypeOK
  <2>4. reading.kind \in {"result", "drop"} => reading.op \in Operations
    BY <2>1 DEF Event, CloseEvent
  <2>5. /\ terminalFrames' \subseteq Frames /\ listening' \subseteq Operations
        /\ operationByFrame' \in [Frames -> Operations \cup {None}]
        /\ cleanups' \in [Frames -> Operations \cup {None}]
    BY <1>0, <1>9, <2>3, <2>4 DEF ReaderHandles, PeerClosed, frameVars, TypeOK
  <2> QED BY <1>9, <2>2, <2>5 DEF ReaderHandles, nativeVars, TypeOK
<1> QED
  BY <1>1, <1>2, <1>3, <1>4, <1>5, <1>6, <1>7, <1>8, <1>9 DEF Next

LEMMA NextKeepsIInv ==
  ASSUME ~Reads, IInv, [Next]_vars
  PROVE  IInv'
<1>0. /\ TypeOK /\ TypeOK' /\ plan \in [Operations -> Call]
      /\ \A o \in Operations : FrameOf(o) \in Frames
  BY TypesStep, PlanAssumption DEF IInv, FrameIsOwned, TypeOK, Call, FrameOf
<1>1. ASSUME NEW o \in Operations, Submit(o)
      PROVE  IInv'
  <2>1. UNCHANGED <<plan, reading, given, closed>> /\ call[o] = "idle"
    BY <1>1 DEF Submit, readVars
  <2>2. CASE ~FrameFree(o)
    <3>1. Moves(o, "rejected") /\ UNCHANGED <<operationByFrame, listening>>
      BY <1>1, <2>2 DEF Submit, frameVars
    <3>2. \A p \in Operations : /\ call'[p] \in Unsettled => call[p] \in Unsettled
                                /\ call[p] \in Heard => call'[p] \in Heard
      BY <3>1, <2>1, <1>0 DEF Moves, Unsettled, Heard, TypeOK
    <3>3. FrameIsOwned' /\ ListensWhileBound'
      BY <3>1, <3>2, <2>1, <1>0 DEF IInv, FrameIsOwned, ListensWhileBound, SessionOpen, FrameOf
    <3>4. listening' = listening /\ listening \subseteq Operations
      BY <3>1, <1>0 DEF TypeOK
    <3>5. ListenersInv'
      BY <3>2, <3>4 DEF IInv, ListenersInv
    <3> QED BY <3>3, <3>5, <2>1 DEF IInv, LoneReader
  <2>3. CASE FrameFree(o)
    <3>1. /\ operationByFrame' = [operationByFrame EXCEPT ![FrameOf(o)] = o]
          /\ listening' \in {listening, listening \cup {o}}
          /\ \/ call' = [call EXCEPT ![o] = "preparing"] /\ listening' = listening
             \/ call' = [call EXCEPT ![o] = "waiting"]
      BY <1>1, <2>3 DEF Submit, Dispatch, Moves
    <3>2. o \notin listening BY <2>1 DEF IInv, ListenersInv, Heard
    <3>3. ListenersInv'
      <4>1. listening \subseteq Operations /\ \A p \in listening : call[p] \in Heard
        BY <1>0 DEF IInv, ListenersInv, TypeOK
      <4>2. \A p \in listening : call'[p] = call[p]
        BY <4>1, <3>1, <3>2, <1>0 DEF TypeOK
      <4>3. o \in listening' => call'[o] \in Heard
        BY <3>1, <3>2, <1>0 DEF TypeOK, Heard
      <4> QED BY <4>1, <4>2, <4>3, <3>1 DEF ListenersInv
    <3>4. ASSUME NEW p \in Operations, operationByFrame[FrameOf(p)] = p
          PROVE  operationByFrame'[FrameOf(p)] = p
      <4>1. FrameOf(p) # FrameOf(o)
        BY <3>4, <2>3, NoneAssumption DEF FrameFree
      <4> QED BY <4>1, <3>1, <3>4, <1>0 DEF TypeOK
    <3>5. operationByFrame'[FrameOf(o)] = o BY <3>1, <1>0 DEF TypeOK
    <3>6. \A p \in Operations : p # o => call'[p] = call[p] BY <3>1, <1>0 DEF TypeOK
    <3>7. FrameIsOwned' /\ ListensWhileBound'
      BY <3>1, <3>4, <3>5, <3>6, <2>1, <1>0 DEF IInv, FrameIsOwned, ListensWhileBound, SessionOpen,
                                                FrameOf, TypeOK
    <3> QED BY <3>3, <3>7, <2>1 DEF IInv, LoneReader
  <2> QED BY <2>2, <2>3
<1>2. ASSUME NEW o \in Operations, Prepared(o)
      PROVE  IInv'
  <2>1. UNCHANGED <<plan, reading, given, closed>> /\ call[o] = "preparing"
    BY <1>2 DEF Prepared, readVars
  <2>2. CASE Moves(o, "rejected") /\ FinishFrame(FrameOf(o), {})
    BY <2>1, <2>2, <1>0, SettlingKeepsIInv DEF Unsettled
  <2>3. CASE Dispatch(o) /\ UNCHANGED operationByFrame
    <3>1. call' = [call EXCEPT ![o] = "waiting"] /\ listening' \subseteq listening \cup {o}
      BY <2>3 DEF Dispatch, Moves
    <3>2. \A p \in Operations : /\ call'[p] \in Unsettled => call[p] \in Unsettled
                                /\ p = o \/ call'[p] = call[p]
      BY <3>1, <2>1, <1>0 DEF Unsettled, TypeOK
    <3>3. call'[o] \in Heard /\ call[o] \in Unsettled
      BY <3>1, <2>1, <1>0 DEF Heard, Unsettled, TypeOK
    <3> QED
      BY <3>1, <3>2, <3>3, <2>1, <2>3, <1>0 DEF IInv, FrameIsOwned, LoneReader, ListenersInv,
                                       ListensWhileBound, SessionOpen, FrameOf, TypeOK
  <2> QED BY <1>2, <2>2, <2>3 DEF Prepared
<1>3. ASSUME NEW o \in Operations, Accepted(o)
      PROVE  IInv'
  <2>1. UNCHANGED <<plan, operationByFrame, listening, reading, given, closed>>
    BY <1>3 DEF Accepted, frameVars, readVars
  <2>2. call' = call \/ call' = [call EXCEPT ![o] = "returned"]
    BY <1>3 DEF Accepted, Moves
  <2>3. \A p \in Operations : /\ call'[p] \in Unsettled => call[p] \in Unsettled
                              /\ call'[p] = call[p] \/ call'[p] \in Heard
    BY <2>2, <1>0 DEF Heard, Unsettled, TypeOK
  <2> QED
    BY <2>1, <2>3, <1>0 DEF IInv, FrameIsOwned, LoneReader, ListenersInv, ListensWhileBound,
                            SessionOpen, FrameOf, TypeOK
<1>4. ASSUME NEW o \in Operations, Refused(o) \/ LoopFails(o)
      PROVE  IInv'
  <2>1. UNCHANGED <<plan, operationByFrame, listening, reading, given, closed>>
    BY <1>4 DEF Refused, LoopFails, frameVars, readVars
  <2>2. call' = call \/ (call[o] = "waiting" /\ Moves(o, "rejecting"))
    BY <1>4 DEF Refused, LoopFails
  <2> QED BY <2>1, <2>2, <1>0, OthersStay, WaitEnds
<1>5. ASSUME NEW o \in Operations, Settles(o)
      PROVE  IInv'
  <2>1. /\ FinishFrame(FrameOf(o), {o}) /\ call[o] \in Unsettled
        /\ Moves(o, "resolved") \/ Moves(o, "rejected")
        /\ UNCHANGED <<plan, reading, given, closed>>
    BY <1>5 DEF Settles, Unsettled, readVars
  <2> QED BY <2>1, <1>0, SettlingKeepsIInv
<1>6. ASSUME NEW o \in Operations, Trigger(o)
      PROVE  IInv'
  <2>1. UNCHANGED <<plan, operationByFrame, reading, given, closed>> /\ listening' \subseteq listening
    BY <1>6 DEF Trigger, readVars
  <2>2. call' = call \/ (call[o] = "waiting" /\ Moves(o, "rejecting"))
    BY <1>6 DEF Trigger
  <2> QED BY <2>1, <2>2, <1>0, OthersStay, WaitEnds
<1>7. ASSUME NEW o \in Operations, AppCancels(o) \/ CancelStep(o) \/ Emit(o)
      PROVE  IInv'
  <2>1. UNCHANGED <<plan, call, operationByFrame, listening, reading, given, closed>>
    BY <1>7 DEF AppCancels, CancelStep, CancelSent, CancelFails, Releases, Emit, frameVars, readVars
  <2> QED BY <2>1, <1>0, OthersStay
<1>8. ASSUME NEW o \in Operations, LoopTakes(o)
      PROVE  IInv'
  <2>1. /\ UNCHANGED <<plan, operationByFrame, listening, reading, closed>>
        /\ given \subseteq given'
    BY <1>8 DEF LoopTakes, Drops, Gives, frameVars
  <2>2. call' = call \/ (call[o] = "waiting" /\ Moves(o, "resolving"))
    BY <1>8 DEF LoopTakes
  <2> QED BY <2>1, <2>2, <1>0, OthersStay, WaitEnds
<1>9. CASE EmitClose
  <2>1. UNCHANGED <<plan, call, operationByFrame, listening, reading, given, closed>>
    BY <1>9 DEF EmitClose, frameVars, readVars
  <2> QED BY <2>1, <1>0, OthersStay
<1>10. CASE Close
  <2>1. closed' = TRUE /\ listening' \subseteq listening /\ UNCHANGED <<call, reading>>
    BY <1>10 DEF Close, readVars
  <2> QED
    BY <2>1, <1>0 DEF IInv, FrameIsOwned, LoneReader, ListenersInv, ListensWhileBound, SessionOpen
<1>11. CASE UNCHANGED vars
  <2>1. UNCHANGED <<plan, call, operationByFrame, listening, reading, given, closed>>
    BY <1>11 DEF vars, frameVars, readVars
  <2> QED BY <2>1, <1>0, OthersStay
<1>12. ~ReaderTakes /\ ~ReaderHandles
  BY DEF ReaderTakes, ReaderHandles, IInv, LoneReader
<1> QED
  BY <1>1, <1>2, <1>3, <1>4, <1>5, <1>6, <1>7, <1>8, <1>9, <1>10, <1>11, <1>12
     DEF Next, CallStep, LoopStep

(* When the application does not poll nextEvent(), a call keeps its frame  *)
(* until it has ended, and a timer or an abort listener is armed only      *)
(* while its call has the frame.                                           *)
THEOREM SubmitInvariance == ~Reads => (Spec => []IInv)
<1> SUFFICES ASSUME ~Reads PROVE Spec => []IInv
  OBVIOUS
<1>1. IInv /\ [Next]_vars => IInv'
  BY NextKeepsIInv
<1> QED BY <1>1, InitIInv, PTL DEF Spec

(* The state keeps its type, whoever reads and whatever is cancelled.      *)
THEOREM SubmitTypeOK == Spec => []TypeOK
<1>1. Init => TypeOK
  BY InitIInv DEF IInv, FrameIsOwned
<1>2. TypeOK /\ [Next]_vars => TypeOK'
  BY TypesStep
<1> QED BY <1>1, <1>2, PTL DEF Spec

(* A timeout, an abort or a late event of another call never frees the     *)
(* frame of a submit() under way, for any calls on any frames.             *)
THEOREM FrameIsOwnedTheorem == ~Reads => (Spec => []FrameIsOwned)
<1> SUFFICES ASSUME ~Reads PROVE Spec => []FrameIsOwned
  OBVIOUS
<1>1. IInv => FrameIsOwned
  BY DEF IInv
<1>2. Spec => []IInv
  BY SubmitInvariance
<1> QED BY <1>1, <1>2, PTL

(* A timer or a listener never outlives the frame of its call.             *)
THEOREM ListensTheorem == ~Reads => (Spec => []ListensWhileBound)
<1> SUFFICES ASSUME ~Reads PROVE Spec => []ListensWhileBound
  OBVIOUS
<1>1. IInv => ListensWhileBound
  BY DEF IInv
<1>2. Spec => []IInv
  BY SubmitInvariance
<1> QED BY <1>1, <1>2, PTL

-----------------------------------------------------------------------------
(***************************************************************************)
(* An application that uses submitNoWait() only, polls nextEvent(), and    *)
(* may cancel: no loop of submit() takes events.                           *)
(***************************************************************************)
Detached == \A p \in Plans : \A o \in Operations : p[o].how = "submitNoWait"

Ending == {"result", "drop"}
Terminal == Ending \cup {"lifecycle"}

(* Events that are still to be handled.                                    *)
Pending == {reading} \cup {events[i] : i \in DOMAIN events}

(* The library has an operation only after its call was dispatched, and    *)
(* reports events only after it has taken it.                              *)
CallsInv ==
  /\ polling = {}
  /\ \A o \in Operations :
       /\ call[o] \in {"idle", "preparing"} => operation[o] = "none"
       /\ operation[o] = "submitting" => call[o] = "waiting"
       /\ operation[o] \in {"running", "partial", "dropped"} => call[o] = "returned"
  /\ \A e \in Pending : e.op # None => call[e.op] = "returned"

(* No terminal event is pending before the operation has ended, and no     *)
(* result or drop behind a terminal event of its operation.                *)
FreshInv ==
  \A o \in Operations : operation[o] \notin {"dropped", "ended"} =>
    \A e \in Pending : e.op = o => e.kind \notin Terminal

LastInv ==
  \A j \in DOMAIN events : events[j].kind \in Ending =>
    /\ ~(reading.op = events[j].op /\ reading.kind \in Terminal)
    /\ \A i \in DOMAIN events : i < j => ~(events[i].op = events[j].op /\ events[i].kind \in Terminal)

(* A frame that reached its end is free, a call under way and a pending    *)
(* result or drop have theirs, and who listens has frame and cleanup.      *)
FramesInv ==
  SessionOpen =>
    /\ \A f \in terminalFrames : operationByFrame[f] = None
    /\ \A f \in Frames : operationByFrame[f] # None => FrameOf(operationByFrame[f]) = f
    /\ \A o \in Operations :
         call[o] \in Unsettled \/ operation[o] \in {"running", "partial"} => operationByFrame[FrameOf(o)] = o
    /\ \A e \in Pending : e.kind \in Ending => operationByFrame[FrameOf(e.op)] = e.op
    /\ \A o \in listening : operationByFrame[FrameOf(o)] = o /\ cleanups[FrameOf(o)] = o

DetachedInv == TypeOK /\ CallsInv /\ FreshInv /\ LastInv /\ FramesInv /\ OnlyLatePayloadsDropped
-----------------------------------------------------------------------------
LEMMA TypeFacts ==
  ASSUME TypeOK
  PROVE  /\ plan \in [Operations -> Call] /\ plan \in Plans
         /\ \A o \in Operations : FrameOf(o) \in Frames
         /\ call \in [Operations -> Unsettled \cup {"idle", "resolved", "returned", "rejected"}]
         /\ operation \in [Operations -> {"none", "submitting", "running", "partial", "dropped", "ended"}]
         /\ operationByFrame \in [Frames -> Operations \cup {None}]
         /\ cleanups \in [Frames -> Operations \cup {None}]
         /\ listening \subseteq Operations /\ terminalFrames \subseteq Frames
  BY PlanAssumption DEF TypeOK, Call, FrameOf

LEMMA PendingTyped ==
  ASSUME TypeOK, NEW e \in Pending
  PROVE  /\ e \in Event \cup {CloseEvent, NoEvent}
         /\ e.op # None => e \in Event /\ e.op \in Operations
         /\ e.kind \in Terminal => e \in Event /\ e.op \in Operations
<1>1. e \in Event \cup {CloseEvent, NoEvent}
  <2> DEFINE E == Event \cup {CloseEvent}
  <2>1. events \in Seq(E) BY DEF TypeOK
  <2> HIDE DEF E
  <2>2. \A i \in DOMAIN events : events[i] \in E BY <2>1
  <2> QED BY <2>2 DEF Pending, TypeOK, E
<1> QED BY <1>1 DEF Event, CloseEvent, NoEvent, Terminal, Ending

LEMMA PendingTaken ==
  ASSUME TypeOK, ReaderTakes
  PROVE  Pending' \subseteq Pending
<1> DEFINE E == Event \cup {CloseEvent}
           t == Tail(events)
<1>1. events \in Seq(E) /\ events # <<>> /\ reading' = Head(events) /\ events' = t
  BY DEF ReaderTakes, TypeOK
<1> HIDE DEF E
<1>2. Head(events) = events[1] /\ 1 \in DOMAIN events
  BY <1>1
<1>3. \A i \in DOMAIN t : t[i] = events[i + 1] /\ i + 1 \in DOMAIN events
  BY <1>1
<1> HIDE DEF t
<1> QED BY <1>1, <1>2, <1>3 DEF Pending

(* What a step does to the pending events.                                 *)
LEMMA PendingStep ==
  ASSUME TypeOK, polling = {}, [Next]_vars
  PROVE  \/ UNCHANGED <<reading, events>> /\ Pending' = Pending
         \/ \E o \in Operations : Emit(o)
         \/ EmitClose
         \/ /\ ReaderTakes /\ Pending' \subseteq Pending
         \/ /\ ReaderHandles /\ reading' = NoEvent /\ UNCHANGED events
            /\ Pending' = {NoEvent} \cup {events[i] : i \in DOMAIN events}
<1>1. CASE UNCHANGED <<reading, events>>
  BY <1>1 DEF Pending
<1>2. CASE ReaderTakes
  BY <1>2, PendingTaken
<1>3. CASE ReaderHandles
  BY <1>3 DEF ReaderHandles, Pending, nativeVars
<1>4. \A o \in Operations : ~LoopStep(o)
  BY DEF LoopStep, LoopTakes, LoopFails
<1>5. ASSUME NEW o \in Operations, Submit(o) \/ CallStep(o) \/ Trigger(o) \/ AppCancels(o) \/ CancelStep(o)
      PROVE UNCHANGED <<reading, events>>
  BY <1>5 DEF Submit, CallStep, Prepared, Accepted, Refused, Settles, Trigger, AppCancels, CancelStep,
     CancelSent, CancelFails, Releases, nativeVars, readVars
<1>6. Close => UNCHANGED <<reading, events>>
  BY DEF Close, nativeVars, readVars
<1>7. UNCHANGED vars => UNCHANGED <<reading, events>>
  BY DEF vars, nativeVars, readVars
<1> QED BY <1>1, <1>2, <1>3, <1>4, <1>5, <1>6, <1>7 DEF Next

(* An event the library reports.                                           *)
LEMMA Emitted ==
  ASSUME TypeOK, NEW o \in Operations, Emit(o)
  PROVE  \E kind \in {"partial", "drop", "result", "lifecycle"}, to \in {"partial", "dropped", "ended"} :
           /\ events' = Append(events, [op |-> o, kind |-> kind])
           /\ operation' = [operation EXCEPT ![o] = to]
           /\ UNCHANGED <<reading, call, polling>>
           /\ operation[o] \in {"running", "partial", "dropped"}
           /\ kind \in Ending => operation[o] \in {"running", "partial"}
           /\ kind \in Terminal <=> to \in {"dropped", "ended"}
           /\ Pending' = Pending \cup {[op |-> o, kind |-> kind]}
           /\ DOMAIN events = 1 .. Len(events) /\ Len(events) \in Nat
           /\ DOMAIN events' = 1 .. Len(events) + 1
           /\ \A i \in 1 .. Len(events) : events'[i] = events[i]
           /\ events'[Len(events) + 1] = [op |-> o, kind |-> kind]
<1> DEFINE E == Event \cup {CloseEvent}
<1>1. PICK kind \in {"partial", "drop", "result", "lifecycle"}, to \in {"partial", "dropped", "ended"} :
        /\ events' = Append(events, [op |-> o, kind |-> kind])
        /\ operation' = [operation EXCEPT ![o] = to]
        /\ operation[o] \in {"running", "partial", "dropped"}
        /\ kind \in Ending => operation[o] \in {"running", "partial"}
        /\ kind \in Terminal <=> to \in {"dropped", "ended"}
  BY DEF Emit, Emits, Ending, Terminal
<1>2. UNCHANGED <<reading, call, polling>>
  BY DEF Emit, readVars
<1> DEFINE e == [op |-> o, kind |-> kind]
           s == Append(events, e)
           n == Len(events)
<1>3. e \in E /\ events \in Seq(E)
  BY DEF Event, TypeOK
<1> HIDE DEF E, e
<1>4. /\ DOMAIN events = 1 .. n /\ n \in Nat
      /\ DOMAIN s = 1 .. n + 1
      /\ \A i \in 1 .. n : s[i] = events[i]
      /\ s[n + 1] = e
      /\ \A i \in 1 .. n + 1 : i \in 1 .. n \/ i = n + 1
      /\ n + 1 \in 1 .. n + 1 /\ \A i \in 1 .. n : i \in 1 .. n + 1
  BY <1>3
<1>5. events' = s
  BY <1>1 DEF e
<1> HIDE DEF s, n
<1>6. Pending' = Pending \cup {e}
  BY <1>2, <1>4, <1>5 DEF Pending
<1>7. /\ Pending' = Pending \cup {e} /\ DOMAIN events = 1 .. n /\ n \in Nat
      /\ DOMAIN events' = 1 .. n + 1
      /\ \A i \in 1 .. n : events'[i] = events[i]
      /\ events'[n + 1] = e
  BY <1>4, <1>5, <1>6
<1> QED BY <1>1, <1>2, <1>7 DEF e, n

LEMMA ClosePending ==
  ASSUME TypeOK, EmitClose
  PROVE  /\ UNCHANGED <<reading, call, polling, operation>>
         /\ Pending' = Pending \cup {CloseEvent}
         /\ DOMAIN events = 1 .. Len(events) /\ Len(events) \in Nat
         /\ DOMAIN events' = 1 .. Len(events) + 1
         /\ \A i \in 1 .. Len(events) : events'[i] = events[i]
         /\ events'[Len(events) + 1] = CloseEvent
<1> DEFINE E == Event \cup {CloseEvent}
           n == Len(events)
           s == Append(events, CloseEvent)
<1>1. UNCHANGED <<reading, call, polling, operation>> /\ events' = s
  BY DEF EmitClose, readVars
<1>2. CloseEvent \in E /\ events \in Seq(E)
  BY DEF TypeOK
<1> HIDE DEF E
<1>3. /\ DOMAIN events = 1 .. n /\ n \in Nat
      /\ DOMAIN s = 1 .. n + 1
      /\ \A i \in 1 .. n : s[i] = events[i]
      /\ s[n + 1] = CloseEvent
      /\ \A i \in 1 .. n + 1 : i \in 1 .. n \/ i = n + 1
      /\ n + 1 \in 1 .. n + 1 /\ \A i \in 1 .. n : i \in 1 .. n + 1
  BY <1>2
<1> HIDE DEF s, n
<1>4. Pending' = Pending \cup {CloseEvent}
  BY <1>1, <1>3 DEF Pending
<1> QED BY <1>1, <1>3, <1>4 DEF n

-----------------------------------------------------------------------------
(* Which calls and operations a step moves.                                *)
LEMMA DetachedStep ==
  ASSUME Detached, TypeOK, CallsInv, [Next]_vars
  PROVE  \/ UNCHANGED <<call, operation, polling>>
         \/ \E o \in Operations : Submit(o) \/ CallStep(o) \/ Emit(o)
<1>1. \A o \in Operations : ~LoopStep(o)
  BY DEF LoopStep, LoopTakes, LoopFails, CallsInv
<1>2. ASSUME NEW o \in Operations, Trigger(o) \/ AppCancels(o) \/ CancelStep(o)
      PROVE UNCHANGED <<call, operation, polling>>
  <2>1. plan[o].how = "submitNoWait"
    BY TypeFacts DEF Detached
  <2> QED BY <1>2, <2>1 DEF Trigger, AppCancels, CancelStep, CancelSent, CancelFails, Releases, nativeVars
<1>3. EmitClose \/ ReaderTakes \/ ReaderHandles \/ Close => UNCHANGED <<call, operation, polling>>
  BY DEF EmitClose, ReaderTakes, ReaderHandles, Close, nativeVars
<1>4. UNCHANGED vars => UNCHANGED <<call, operation, polling>>
  BY DEF vars, nativeVars
<1> QED BY <1>1, <1>2, <1>3, <1>4 DEF Next

LEMMA CallsStep ==
  ASSUME Detached, TypeOK, CallsInv, [Next]_vars
  PROVE  CallsInv'
<1>0. /\ call \in [Operations -> Unsettled \cup {"idle", "resolved", "returned", "rejected"}]
      /\ operation \in [Operations -> {"none", "submitting", "running", "partial", "dropped", "ended"}]
      /\ \A o \in Operations : plan[o].how = "submitNoWait"
      /\ polling = {}
  BY TypeFacts DEF Detached, CallsInv
<1> DEFINE Progress(o) == /\ call'[o] \in {"idle", "preparing"} => operation'[o] = "none"
                          /\ operation'[o] = "submitting" => call'[o] = "waiting"
                          /\ operation'[o] \in {"running", "partial", "dropped"} => call'[o] = "returned"
<1>1. /\ polling' = {}
      /\ \A o \in Operations : Progress(o)
      /\ \A o \in Operations : call[o] = "returned" => call'[o] = "returned"
  <2>1. CASE UNCHANGED <<call, operation, polling>>
    BY <1>0, <2>1 DEF CallsInv
  <2>2. ASSUME NEW o \in Operations, Submit(o) \/ CallStep(o) \/ Emit(o)
        PROVE  /\ polling' = {}
               /\ \A p \in Operations : Progress(p)
               /\ \A p \in Operations : call[p] = "returned" => call'[p] = "returned"
    <3>1. CASE Submit(o)
      <4>1. /\ polling' = {} /\ call[o] = "idle"
            /\ \/ Moves(o, "preparing") /\ UNCHANGED operation
               \/ Moves(o, "rejected") /\ UNCHANGED operation
               \/ Moves(o, "waiting") /\ operation' = [operation EXCEPT ![o] = "submitting"]
        BY <1>0, <3>1 DEF Submit, Dispatch
      <4> QED BY <1>0, <4>1 DEF Moves, CallsInv
    <3>2. CASE Prepared(o)
      <4>1. /\ polling' = {} /\ call[o] = "preparing"
            /\ \/ Moves(o, "rejected") /\ UNCHANGED operation
               \/ Moves(o, "waiting") /\ operation' = [operation EXCEPT ![o] = "submitting"]
        BY <1>0, <3>2 DEF Prepared, Dispatch
      <4> QED BY <1>0, <4>1 DEF Moves, CallsInv
    <3>3. CASE Accepted(o)
      <4>1. /\ polling' = {} /\ operation[o] = "submitting" /\ Moves(o, "returned")
            /\ operation' = [operation EXCEPT ![o] = "running"]
        BY <1>0, <3>3 DEF Accepted
      <4> QED BY <1>0, <4>1 DEF Moves, CallsInv
    <3>4. CASE Refused(o)
      <4>1. /\ polling' = {} /\ operation[o] = "submitting" /\ call[o] = "waiting" /\ Moves(o, "rejecting")
            /\ operation' = [operation EXCEPT ![o] = "ended"]
        BY <1>0, <3>4 DEF Refused, CallsInv
      <4> QED BY <1>0, <4>1 DEF Moves, CallsInv
    <3>5. CASE Settles(o)
      <4>1. /\ polling' = {} /\ UNCHANGED operation
            /\ call[o] \in {"resolving", "rejecting"} /\ (Moves(o, "resolved") \/ Moves(o, "rejected"))
        BY <1>0, <3>5 DEF Settles, nativeVars
      <4> QED BY <1>0, <4>1 DEF Moves, CallsInv
    <3>6. CASE Emit(o)
      <4>1. PICK to \in {"partial", "dropped", "ended"} :
              /\ operation' = [operation EXCEPT ![o] = to] /\ UNCHANGED <<call, polling>>
              /\ operation[o] \in {"running", "partial", "dropped"}
        BY <3>6, Emitted
      <4> QED BY <1>0, <4>1 DEF CallsInv
    <3> QED BY <2>2, <3>1, <3>2, <3>3, <3>4, <3>5, <3>6 DEF CallStep
  <2> QED BY <2>1, <2>2, DetachedStep
<1>2. ASSUME NEW e \in Pending', e.op # None PROVE call'[e.op] = "returned"
  <2>1. CASE e \in Pending
    BY <1>1, <1>2, <2>1, PendingTyped DEF CallsInv
  <2>2. CASE e \notin Pending
    <3>1. CASE \E o \in Operations : Emit(o)
      <4>1. PICK o \in Operations : Emit(o)
        BY <3>1
      <4>2. PICK kind \in {"partial", "drop", "result", "lifecycle"} :
              /\ Pending' = Pending \cup {[op |-> o, kind |-> kind]}
              /\ operation[o] \in {"running", "partial", "dropped"}
        BY <4>1, Emitted
      <4>3. e = [op |-> o, kind |-> kind]
        BY <1>2, <2>2, <4>2
      <4> QED BY <1>1, <4>2, <4>3 DEF CallsInv
    <3>2. CASE EmitClose
      BY <1>2, <2>2, <3>2, ClosePending DEF CloseEvent
    <3>3. CASE ReaderHandles /\ Pending' = {NoEvent} \cup {events[i] : i \in DOMAIN events}
      BY <1>2, <2>2, <3>3 DEF NoEvent, Pending
    <3> QED BY <1>0, <1>2, <2>2, <3>1, <3>2, <3>3, PendingStep
  <2> QED BY <2>1, <2>2
<1> QED BY <1>1, <1>2 DEF CallsInv

(* Nothing that is none, submitting, running or partial was at its end.    *)
LEMMA FreshStep ==
  ASSUME Detached, TypeOK, CallsInv, FreshInv, [Next]_vars
  PROVE  FreshInv'
<1>0. operation \in [Operations -> {"none", "submitting", "running", "partial", "dropped", "ended"}] /\ polling = {}
  BY TypeFacts DEF CallsInv
<1>1. \A o \in Operations : operation'[o] \notin {"dropped", "ended"} => operation[o] \notin {"dropped", "ended"}
  <2>1. CASE UNCHANGED operation
    BY <2>1
  <2>2. ASSUME NEW o \in Operations, Submit(o) \/ CallStep(o)
        PROVE \A p \in Operations : operation'[p] \notin {"dropped", "ended"} => operation[p] \notin {"dropped", "ended"}
    <3>1. CASE Submit(o)
      BY <1>0, <3>1 DEF Submit, Dispatch, CallsInv
    <3>2. CASE Prepared(o)
      BY <1>0, <3>2 DEF Prepared, Dispatch, CallsInv
    <3>3. CASE Accepted(o) \/ Refused(o) \/ Settles(o)
      BY <1>0, <3>3 DEF Accepted, Refused, Settles, nativeVars
    <3> QED BY <2>2, <3>1, <3>2, <3>3 DEF CallStep
  <2>3. ASSUME NEW o \in Operations, Emit(o)
        PROVE \A p \in Operations : operation'[p] \notin {"dropped", "ended"} => operation[p] \notin {"dropped", "ended"}
    BY <1>0, <2>3 DEF Emit, Emits
  <2> QED BY <2>1, <2>2, <2>3, DetachedStep
<1>2. ASSUME NEW o \in Operations, operation'[o] \notin {"dropped", "ended"}, NEW e \in Pending', e.op = o
      PROVE  e.kind \notin Terminal
  <2>1. CASE e \in Pending
    BY <1>1, <1>2, <2>1 DEF FreshInv
  <2>2. CASE e \notin Pending
    <3>1. CASE \E p \in Operations : Emit(p)
      <4>1. PICK p \in Operations : Emit(p)
        BY <3>1
      <4>2. PICK kind \in {"partial", "drop", "result", "lifecycle"}, to \in {"partial", "dropped", "ended"} :
              /\ operation' = [operation EXCEPT ![p] = to]
              /\ kind \in Terminal <=> to \in {"dropped", "ended"}
              /\ Pending' = Pending \cup {[op |-> p, kind |-> kind]}
        BY <4>1, Emitted
      <4>3. e = [op |-> p, kind |-> kind]
        BY <1>2, <2>2, <4>2
      <4> QED BY <1>0, <1>2, <4>2, <4>3
    <3>2. CASE EmitClose
      BY <1>2, <2>2, <3>2, ClosePending DEF CloseEvent, Terminal, Ending
    <3>3. CASE ReaderHandles /\ Pending' = {NoEvent} \cup {events[i] : i \in DOMAIN events}
      BY <1>2, <2>2, <3>3 DEF NoEvent, Pending, Terminal, Ending
    <3> QED BY <1>0, <1>2, <2>2, <3>1, <3>2, <3>3, PendingStep
  <2> QED BY <2>1, <2>2
<1> QED BY <1>2 DEF FreshInv

LEMMA LastStep ==
  ASSUME TypeOK, CallsInv, FreshInv, LastInv, [Next]_vars
  PROVE  LastInv'
<1>0. polling = {}
  BY DEF CallsInv
<1>1. CASE UNCHANGED <<reading, events>>
  BY <1>1 DEF LastInv
<1>2. ASSUME NEW o \in Operations, Emit(o) PROVE LastInv'
  <2> DEFINE n == Len(events)
  <2>1. PICK kind \in {"partial", "drop", "result", "lifecycle"} :
          /\ UNCHANGED reading
          /\ kind \in Ending => operation[o] \in {"running", "partial"}
          /\ DOMAIN events = 1 .. n /\ n \in Nat /\ DOMAIN events' = 1 .. n + 1
          /\ \A i \in 1 .. n : events'[i] = events[i]
          /\ events'[n + 1] = [op |-> o, kind |-> kind]
    BY <1>2, Emitted
  <2> HIDE DEF n
  <2>2. kind \in Ending => \A e \in Pending : e.op = o => e.kind \notin Terminal
    BY <2>1 DEF FreshInv
  <2>3. ASSUME NEW j \in 1 .. n + 1, events'[j].kind \in Ending
        PROVE  /\ ~(reading.op = events'[j].op /\ reading.kind \in Terminal)
               /\ \A i \in 1 .. n + 1 : i < j => ~(events'[i].op = events'[j].op /\ events'[i].kind \in Terminal)
    <3>1. CASE j \in 1 .. n
      <4>1. \A i \in 1 .. n + 1 : i < j => i \in 1 .. n BY <2>1, <3>1
      <4> QED BY <2>1, <2>3, <3>1, <4>1 DEF LastInv
    <3>2. CASE j = n + 1
      <4>1. kind \in Ending /\ events'[j].op = o BY <2>1, <2>3, <3>2
      <4>2. reading \in Pending /\ \A i \in 1 .. n : events[i] \in Pending BY <2>1 DEF Pending
      <4>3. \A i \in 1 .. n + 1 : i < j => i \in 1 .. n BY <2>1, <3>2
      <4> QED BY <2>1, <2>2, <4>1, <4>2, <4>3
    <3> QED BY <2>1, <3>1, <3>2
  <2> QED BY <2>1, <2>3 DEF LastInv
<1>3. CASE EmitClose
  <2> DEFINE n == Len(events)
  <2>1. /\ UNCHANGED reading
        /\ DOMAIN events = 1 .. n /\ n \in Nat /\ DOMAIN events' = 1 .. n + 1
        /\ \A i \in 1 .. n : events'[i] = events[i]
        /\ events'[n + 1] = CloseEvent
    BY <1>3, ClosePending
  <2> HIDE DEF n
  <2>2. ASSUME NEW j \in 1 .. n + 1, events'[j].kind \in Ending
        PROVE  /\ ~(reading.op = events'[j].op /\ reading.kind \in Terminal)
               /\ \A i \in 1 .. n + 1 : i < j => ~(events'[i].op = events'[j].op /\ events'[i].kind \in Terminal)
    <3>1. j # n + 1 BY <2>1, <2>2 DEF CloseEvent, Ending
    <3>2. j \in 1 .. n /\ \A i \in 1 .. n + 1 : i < j => i \in 1 .. n BY <2>1, <3>1
    <3> QED BY <2>1, <2>2, <3>2 DEF LastInv
  <2> QED BY <2>1, <2>2 DEF LastInv
<1>4. CASE ReaderTakes
  <2> DEFINE E == Event \cup {CloseEvent}
             t == Tail(events)
             n == Len(events)
  <2>1. events \in Seq(E) /\ events # <<>> /\ reading' = Head(events) /\ events' = t
    BY <1>4 DEF ReaderTakes, TypeOK
  <2> HIDE DEF E
  <2>2. Head(events) = events[1] /\ DOMAIN events = 1 .. n /\ n \in Nat /\ 1 \in 1 .. n
    BY <2>1
  <2>3. DOMAIN t = 1 .. n - 1 /\ \A i \in 1 .. n - 1 : t[i] = events[i + 1] /\ i + 1 \in 1 .. n /\ 1 < i + 1
    BY <2>1
  <2> HIDE DEF t, n
  <2>4. \A i, j \in 1 .. n - 1 : i < j => i + 1 < j + 1
    BY <2>2
  <2>5. ASSUME NEW j \in 1 .. n - 1, t[j].kind \in Ending
        PROVE  /\ ~(events[1].op = t[j].op /\ events[1].kind \in Terminal)
               /\ \A i \in 1 .. n - 1 : i < j => ~(t[i].op = t[j].op /\ t[i].kind \in Terminal)
    BY <2>2, <2>3, <2>4, <2>5 DEF LastInv
  <2> QED BY <2>1, <2>2, <2>3, <2>5 DEF LastInv
<1>5. CASE reading' = NoEvent /\ UNCHANGED events
  BY <1>5 DEF LastInv, NoEvent, Terminal, Ending
<1> QED BY <1>0, <1>1, <1>2, <1>3, <1>4, <1>5, PendingStep

-----------------------------------------------------------------------------
(* Steps that leave frames and cleanups as they are.                       *)
LEMMA FramesKept ==
  ASSUME TypeOK, FramesInv, SessionOpen' => SessionOpen,
         UNCHANGED <<plan, operationByFrame, terminalFrames, cleanups>>, listening' \subseteq listening,
         \A o \in Operations :
           call'[o] \in Unsettled \/ operation'[o] \in {"running", "partial"} =>
             call[o] \in Unsettled \/ operation[o] \in {"running", "partial"},
         \A e \in Pending' : e.kind \in Ending =>
           e \in Pending \/ (e.op \in Operations /\ operation[e.op] \in {"running", "partial"})
  PROVE  FramesInv'
<1> SUFFICES ASSUME SessionOpen' PROVE FramesInv'
  BY DEF FramesInv
<1>1. SessionOpen
  OBVIOUS
<1>2. \A e \in Pending' : e.kind \in Ending => operationByFrame[FrameOf(e.op)] = e.op
  BY <1>1 DEF FramesInv
<1>3. \A o \in Operations :
        call'[o] \in Unsettled \/ operation'[o] \in {"running", "partial"} => operationByFrame[FrameOf(o)] = o
  BY <1>1 DEF FramesInv
<1> QED BY <1>1, <1>2, <1>3 DEF FramesInv, FrameOf

(* The end of a frame that is in the hands of its call.                    *)
LEMMA FrameFinished ==
  ASSUME TypeOK, FramesInv, SessionOpen, UNCHANGED plan, NEW o \in Operations, NEW own \in SUBSET {o},
         operationByFrame[FrameOf(o)] = o, FinishFrame(FrameOf(o), own),
         terminalFrames' \subseteq terminalFrames \cup {FrameOf(o)},
         call'[o] \notin Unsettled, operation'[o] \notin {"running", "partial"},
         \A p \in Operations : p # o => call'[p] = call[p] /\ operation'[p] = operation[p],
         \A e \in Pending' : e.kind \in Ending => e \in Pending /\ e.op # o
  PROVE  FramesInv'
<1> DEFINE f == FrameOf(o)
<1>0. /\ \A p \in Operations : FrameOf(p) \in Frames
      /\ operationByFrame \in [Frames -> Operations \cup {None}]
      /\ cleanups \in [Frames -> Operations \cup {None}]
      /\ listening \subseteq Operations /\ terminalFrames \subseteq Frames
  BY TypeFacts
<1>1. /\ operationByFrame' = [operationByFrame EXCEPT ![f] = None]
      /\ cleanups' = [cleanups EXCEPT ![f] = None]
      /\ listening' = listening \ (own \cup {cleanups[f]})
  BY DEF FinishFrame
<1>2. \A p : FrameOf(p)' = FrameOf(p)
  BY DEF FrameOf
<1>3. f \in Frames /\ operationByFrame[f] = o
  BY <1>0
<1> HIDE DEF f
<1>4. ASSUME NEW p \in Operations, p # o, operationByFrame[FrameOf(p)] = p
      PROVE  /\ FrameOf(p) # f /\ operationByFrame'[FrameOf(p)] = p
             /\ cleanups'[FrameOf(p)] = cleanups[FrameOf(p)]
  BY <1>0, <1>1, <1>3, <1>4
<1>5. \A g \in terminalFrames' : operationByFrame'[g] = None
  BY <1>0, <1>1, <1>3 DEF FramesInv, f
<1>6. \A g \in Frames : operationByFrame'[g] # None => FrameOf(operationByFrame'[g]) = g
  BY <1>0, <1>1, <1>3 DEF FramesInv
<1>7. \A p \in Operations :
        call'[p] \in Unsettled \/ operation'[p] \in {"running", "partial"} => operationByFrame'[FrameOf(p)] = p
  BY <1>4 DEF FramesInv
<1>8. ASSUME NEW e \in Pending', e.kind \in Ending PROVE operationByFrame'[FrameOf(e.op)] = e.op
  <2>1. e \in Pending /\ e.op # o
    BY <1>8
  <2>2. e.op \in Operations /\ operationByFrame[FrameOf(e.op)] = e.op
    BY <1>8, <2>1, PendingTyped DEF FramesInv, Terminal
  <2> QED BY <1>4, <2>1, <2>2
<1>9. ASSUME NEW p \in listening'
      PROVE  operationByFrame'[FrameOf(p)] = p /\ cleanups'[FrameOf(p)] = p
  <2>1. p \in listening /\ p \in Operations
    BY <1>0, <1>1, <1>9
  <2>2. operationByFrame[FrameOf(p)] = p /\ cleanups[FrameOf(p)] = p
    BY <2>1 DEF FramesInv
  <2>3. p # o
    BY <1>1, <1>9, <2>2 DEF f
  <2> QED BY <1>4, <2>1, <2>2, <2>3
<1> QED BY <1>2, <1>5, <1>6, <1>7, <1>8, <1>9 DEF FramesInv

(* A call takes the frame, or is dispatched on the frame it has.           *)
LEMMA FrameTaken ==
  ASSUME TypeOK, FramesInv, SessionOpen, UNCHANGED plan, NEW o \in Operations,
         operationByFrame[FrameOf(o)] \in {None, o},
         operationByFrame' = [operationByFrame EXCEPT ![FrameOf(o)] = o],
         terminalFrames' = terminalFrames \ {FrameOf(o)},
         \/ UNCHANGED <<cleanups, listening>> /\ o \notin listening
         \/ cleanups' = [cleanups EXCEPT ![FrameOf(o)] = o] /\ listening' = listening \cup {o},
         \A p \in Operations : p # o => call'[p] = call[p] /\ operation'[p] = operation[p],
         Pending' = Pending
  PROVE  FramesInv'
<1> DEFINE f == FrameOf(o)
<1>0. /\ \A p \in Operations : FrameOf(p) \in Frames
      /\ operationByFrame \in [Frames -> Operations \cup {None}]
      /\ cleanups \in [Frames -> Operations \cup {None}]
      /\ listening \subseteq Operations /\ terminalFrames \subseteq Frames
  BY TypeFacts
<1>1. \A p : FrameOf(p)' = FrameOf(p)
  BY DEF FrameOf
<1>2. f \in Frames /\ f = FrameOf(o) /\ operationByFrame[f] \in {None, o}
      /\ operationByFrame' = [operationByFrame EXCEPT ![f] = o] /\ terminalFrames' = terminalFrames \ {f}
      /\ \/ UNCHANGED <<cleanups, listening>> /\ o \notin listening
         \/ cleanups' = [cleanups EXCEPT ![f] = o] /\ listening' = listening \cup {o}
  BY <1>0
<1> HIDE DEF f
<1>3. operationByFrame'[f] = o
  BY <1>0, <1>2
<1>4. ASSUME NEW p \in Operations, p # o, operationByFrame[FrameOf(p)] = p
      PROVE  /\ FrameOf(p) # f /\ operationByFrame'[FrameOf(p)] = p
             /\ cleanups'[FrameOf(p)] = cleanups[FrameOf(p)]
  <2>1. FrameOf(p) # f
    BY <1>2, <1>4, NoneAssumption
  <2> QED BY <1>0, <1>2, <1>4, <2>1
<1>5. \A g \in terminalFrames' : operationByFrame'[g] = None
  BY <1>0, <1>2 DEF FramesInv
<1>6. \A g \in Frames : operationByFrame'[g] # None => FrameOf(operationByFrame'[g]) = g
  BY <1>0, <1>2 DEF FramesInv
<1>7. \A p \in Operations :
        call'[p] \in Unsettled \/ operation'[p] \in {"running", "partial"} => operationByFrame'[FrameOf(p)] = p
  BY <1>2, <1>3, <1>4 DEF FramesInv
<1>8. ASSUME NEW e \in Pending', e.kind \in Ending PROVE operationByFrame'[FrameOf(e.op)] = e.op
  <2>1. e.op \in Operations /\ operationByFrame[FrameOf(e.op)] = e.op
    BY <1>8, PendingTyped DEF FramesInv, Terminal
  <2> QED BY <1>2, <1>3, <1>4, <2>1
<1>9. ASSUME NEW p \in listening'
      PROVE  operationByFrame'[FrameOf(p)] = p /\ cleanups'[FrameOf(p)] = p
  <2>1. CASE p = o
    <3>1. cleanups' = [cleanups EXCEPT ![f] = o]
      BY <1>2, <1>9, <2>1
    <3> QED BY <1>0, <1>2, <1>3, <2>1, <3>1
  <2>2. CASE p # o
    <3>1. p \in listening /\ p \in Operations
      BY <1>0, <1>2, <1>9, <2>2
    <3>2. operationByFrame[FrameOf(p)] = p /\ cleanups[FrameOf(p)] = p
      BY <3>1 DEF FramesInv
    <3> QED BY <1>4, <2>2, <3>1, <3>2
  <2> QED BY <2>1, <2>2
<1> QED BY <1>1, <1>5, <1>6, <1>7, <1>8, <1>9 DEF FramesInv

(* A session that is over stays over.                                      *)
LEMMA OpenBefore ==
  ASSUME [Next]_vars, SessionOpen'
  PROVE  SessionOpen
<1>1. ASSUME NEW o \in Operations,
             Submit(o) \/ CallStep(o) \/ Trigger(o) \/ AppCancels(o) \/ CancelStep(o) \/ Emit(o)
      PROVE UNCHANGED <<closed, given>>
  BY <1>1 DEF Submit, CallStep, Prepared, Accepted, Refused, Settles, Trigger, AppCancels, CancelStep,
     CancelSent, CancelFails, Releases, Emit, readVars
<1>2. ASSUME NEW o \in Operations, LoopStep(o) PROVE UNCHANGED closed /\ given \subseteq given'
  BY <1>2 DEF LoopStep, LoopTakes, LoopFails, Gives, Drops, readVars
<1>3. EmitClose \/ ReaderTakes => UNCHANGED <<closed, given>>
  BY DEF EmitClose, ReaderTakes, readVars
<1>4. ReaderHandles => UNCHANGED closed /\ given \subseteq given'
  BY DEF ReaderHandles, PeerClosed, FinishesTerminal, Gives, Drops
<1>5. ~Close
  BY DEF Close, SessionOpen
<1>6. UNCHANGED vars => UNCHANGED <<closed, given>>
  BY DEF vars, readVars
<1> QED BY <1>1, <1>2, <1>3, <1>4, <1>5, <1>6 DEF Next, SessionOpen

(* A pending terminal event has a frame that is not at its end, and its    *)
(* operation nothing to come but that.                                     *)
LEMMA ReadEnds ==
  ASSUME TypeOK, CallsInv, FreshInv, LastInv, FramesInv, SessionOpen, reading.kind \in Terminal
  PROVE  /\ reading.op \in Operations /\ call[reading.op] = "returned"
         /\ operation[reading.op] \notin {"running", "partial"}
         /\ \A i \in DOMAIN events : events[i].kind \in Ending => events[i].op # reading.op
         /\ \A f \in Frames : operationByFrame[f] = reading.op => f = FrameOf(reading.op)
         /\ reading.kind \in Ending => operationByFrame[FrameOf(reading.op)] = reading.op
         /\ operationByFrame[FrameOf(reading.op)] = reading.op => FrameOf(reading.op) \notin terminalFrames
<1>1. reading \in Pending
  BY DEF Pending
<1>2. reading.op \in Operations /\ reading.op # None
  BY <1>1, PendingTyped, NoneAssumption
<1>3. call[reading.op] = "returned"
  BY <1>1, <1>2 DEF CallsInv
<1>4. operation[reading.op] \notin {"running", "partial"}
  BY <1>1, <1>2 DEF FreshInv
<1>5. \A i \in DOMAIN events : events[i].kind \in Ending => events[i].op # reading.op
  BY DEF LastInv
<1>6. \A f \in Frames : operationByFrame[f] = reading.op => f = FrameOf(reading.op)
  BY <1>2 DEF FramesInv
<1>7. reading.kind \in Ending => operationByFrame[FrameOf(reading.op)] = reading.op
  BY <1>1 DEF FramesInv
<1>8. operationByFrame[FrameOf(reading.op)] = reading.op => FrameOf(reading.op) \notin terminalFrames
  BY <1>2 DEF FramesInv
<1> QED BY <1>2, <1>3, <1>4, <1>5, <1>6, <1>7, <1>8

(* What nextEvent() does with an event while the session is open: it drops *)
(* only a payload of a cancelled operation, and finishes the frame of an   *)
(* operation that has reached its end.                                     *)
LEMMA HandledOpen ==
  ASSUME TypeOK, CallsInv, FreshInv, LastInv, FramesInv, SessionOpen, SessionOpen', ReaderHandles
  PROVE  /\ UNCHANGED cancelledOperations
         /\ \/ /\ UNCHANGED <<terminalFrames, frameVars>>
               /\ dropped' = dropped \/ (Suppressed(reading) /\ dropped' = dropped \cup {reading})
            \/ /\ reading.kind \in Terminal /\ operationByFrame[FrameOf(reading.op)] = reading.op
               /\ terminalFrames' = terminalFrames \cup {FrameOf(reading.op)}
               /\ FinishFrame(FrameOf(reading.op), {}) /\ dropped' = dropped
<1>1. ~(reading = CloseEvent /\ PeerClosed)
  BY DEF PeerClosed, Gives, SessionOpen
<1>2. CASE Suppressed(reading) /\ Drops(reading) /\ UNCHANGED <<terminalFrames, cancelledOperations, frameVars>>
  BY <1>2 DEF Drops
<1>3. ASSUME reading.kind \in Terminal, NEW f \in Frames, operationByFrame[f] = reading.op \/ f = FrameOf(reading.op),
             reading.kind \in Ending \/ operationByFrame[f] = reading.op,
             FinishesTerminal(f, reading), UNCHANGED cancelledOperations
      PROVE  /\ operationByFrame[FrameOf(reading.op)] = reading.op
             /\ terminalFrames' = terminalFrames \cup {FrameOf(reading.op)}
             /\ FinishFrame(FrameOf(reading.op), {}) /\ dropped' = dropped
  <2>1. /\ f = FrameOf(reading.op) /\ operationByFrame[FrameOf(reading.op)] = reading.op
        /\ f \notin terminalFrames
    BY <1>3, ReadEnds
  <2> QED BY <1>3, <2>1 DEF FinishesTerminal, Gives
<1>4. CASE /\ ~Suppressed(reading) /\ reading.kind \in {"result", "drop"}
           /\ FinishesTerminal(FrameOf(reading.op), reading) /\ UNCHANGED cancelledOperations
  <2>1. reading.kind \in Terminal /\ reading.kind \in Ending
    BY <1>4 DEF Terminal, Ending
  <2>2. FrameOf(reading.op) \in Frames
    BY <2>1, ReadEnds, TypeFacts
  <2> QED BY <1>3, <1>4, <2>1, <2>2
<1>5. CASE /\ reading.kind = "lifecycle"
           /\ \E f \in Frames : operationByFrame[f] = reading.op /\ FinishesTerminal(f, reading)
           /\ UNCHANGED cancelledOperations
  BY <1>3, <1>5 DEF Terminal
<1>6. CASE Gives(reading) /\ UNCHANGED <<terminalFrames, cancelledOperations, frameVars>>
  BY <1>6 DEF Gives
<1> QED BY <1>1, <1>2, <1>4, <1>5, <1>6 DEF ReaderHandles

LEMMA FramesStep ==
  ASSUME Detached, TypeOK, CallsInv, FreshInv, LastInv, FramesInv, [Next]_vars
  PROVE  FramesInv'
<1> SUFFICES ASSUME SessionOpen' PROVE FramesInv'
  BY DEF FramesInv
<1>0. /\ SessionOpen
      /\ call \in [Operations -> Unsettled \cup {"idle", "resolved", "returned", "rejected"}]
      /\ operation \in [Operations -> {"none", "submitting", "running", "partial", "dropped", "ended"}]
      /\ operationByFrame \in [Frames -> Operations \cup {None}]
      /\ terminalFrames \subseteq Frames
      /\ polling = {}
      /\ \A o \in Operations : plan[o].how = "submitNoWait" /\ FrameOf(o) \in Frames
  BY OpenBefore, TypeFacts DEF Detached, CallsInv
<1>1. \A o \in Operations : ~LoopStep(o)
  BY <1>0 DEF LoopStep, LoopTakes, LoopFails
<1>2. \A o \in Operations : call[o] \in {"idle", "preparing"} => operation[o] = "none"
  BY DEF CallsInv
<1>3. \A o \in Operations : operationByFrame[FrameOf(o)] # o => o \notin listening
  BY <1>0 DEF FramesInv
<1>4. \A o \in Operations : call[o] \in Unsettled => operationByFrame[FrameOf(o)] = o
  BY <1>0 DEF FramesInv
<1>5. UNCHANGED <<reading, events>> => Pending' = Pending
  BY DEF Pending
<1>6. ASSUME NEW o \in Operations, Submit(o) PROVE FramesInv'
  <2>1. /\ call[o] = "idle" /\ operation[o] = "none" /\ Pending' = Pending /\ UNCHANGED plan
    BY <1>2, <1>5, <1>6 DEF Submit, readVars
  <2>2. CASE FrameFree(o)
    <3>1. operationByFrame[FrameOf(o)] = None /\ o \notin listening
      BY <1>3, <2>2, NoneAssumption DEF FrameFree
    <3>2. /\ operationByFrame' = [operationByFrame EXCEPT ![FrameOf(o)] = o]
          /\ terminalFrames' = terminalFrames \ {FrameOf(o)}
          /\ \/ Moves(o, "preparing") /\ UNCHANGED <<cleanups, listening, operation>>
             \/ Dispatch(o)
      BY <1>6, <2>2 DEF Submit
    <3>3. /\ \/ UNCHANGED <<cleanups, listening>> /\ o \notin listening
             \/ cleanups' = [cleanups EXCEPT ![FrameOf(o)] = o] /\ listening' = listening \cup {o}
          /\ \A p \in Operations : p # o => call'[p] = call[p] /\ operation'[p] = operation[p]
      BY <1>0, <3>1, <3>2 DEF Dispatch, Moves
    <3>4. operationByFrame[FrameOf(o)] \in {None, o}
      BY <3>1
    <3> QED BY <1>0, <2>1, <3>2, <3>3, <3>4, FrameTaken
  <2>3. CASE ~FrameFree(o)
    <3>1. Moves(o, "rejected") /\ UNCHANGED <<plan, operationByFrame, terminalFrames, cleanups, listening, operation>>
      BY <1>6, <2>3 DEF Submit, frameVars
    <3>2. \A p \in Operations :
            call'[p] \in Unsettled \/ operation'[p] \in {"running", "partial"} =>
              call[p] \in Unsettled \/ operation[p] \in {"running", "partial"}
      BY <1>0, <3>1 DEF Moves, Unsettled
    <3>3. \A e \in Pending' : e.kind \in Ending =>
            e \in Pending \/ (e.op \in Operations /\ operation[e.op] \in {"running", "partial"})
      BY <2>1
    <3> QED BY <1>0, <3>1, <3>2, <3>3, FramesKept
  <2> QED BY <2>2, <2>3
<1>7. ASSUME NEW o \in Operations, Prepared(o) PROVE FramesInv'
  <2>1. /\ call[o] = "preparing" /\ operation[o] = "none" /\ operationByFrame[FrameOf(o)] = o
        /\ Pending' = Pending /\ UNCHANGED <<plan, terminalFrames>>
    BY <1>2, <1>4, <1>5, <1>7 DEF Prepared, readVars, Unsettled
  <2>2. CASE Dispatch(o) /\ UNCHANGED operationByFrame
    <3>1. CASE UNCHANGED <<cleanups, listening>>
      <4>1. \A p \in Operations :
              call'[p] \in Unsettled \/ operation'[p] \in {"running", "partial"} =>
                call[p] \in Unsettled \/ operation[p] \in {"running", "partial"}
        BY <1>0, <2>1, <2>2 DEF Dispatch, Moves, Unsettled
      <4>2. \A e \in Pending' : e.kind \in Ending =>
              e \in Pending \/ (e.op \in Operations /\ operation[e.op] \in {"running", "partial"})
        BY <2>1
      <4> QED BY <1>0, <2>1, <2>2, <3>1, <4>1, <4>2, FramesKept
    <3>2. CASE cleanups' = [cleanups EXCEPT ![FrameOf(o)] = o] /\ listening' = listening \cup {o}
      <4>1. FrameOf(o) \notin terminalFrames
        BY <1>0, <2>1, NoneAssumption DEF FramesInv
      <4>2. operationByFrame' = [operationByFrame EXCEPT ![FrameOf(o)] = o]
        BY <1>0, <2>1, <2>2
      <4>3. terminalFrames' = terminalFrames \ {FrameOf(o)}
        BY <2>1, <4>1
      <4>4. \A p \in Operations : p # o => call'[p] = call[p] /\ operation'[p] = operation[p]
        BY <1>0, <2>2 DEF Dispatch, Moves
      <4>5. operationByFrame[FrameOf(o)] \in {None, o}
        BY <2>1
      <4> QED BY <1>0, <2>1, <3>2, <4>2, <4>3, <4>4, <4>5, FrameTaken
    <3> QED BY <2>2, <3>1, <3>2 DEF Dispatch
  <2>3. CASE Moves(o, "rejected") /\ FinishFrame(FrameOf(o), {}) /\ UNCHANGED operation
    <3>1. /\ call'[o] \notin Unsettled /\ operation'[o] \notin {"running", "partial"}
          /\ \A p \in Operations : p # o => call'[p] = call[p] /\ operation'[p] = operation[p]
      BY <1>0, <2>1, <2>3 DEF Moves, Unsettled
    <3>2. \A e \in Pending' : e.kind \in Ending => e \in Pending /\ e.op # o
      BY <2>1, PendingTyped, NoneAssumption DEF CallsInv, Terminal
    <3>3. {} \in SUBSET {o} /\ terminalFrames' \subseteq terminalFrames \cup {FrameOf(o)}
      BY <2>1
    <3> QED BY <1>0, <2>1, <2>3, <3>1, <3>2, <3>3, FrameFinished
  <2> QED BY <1>7, <2>2, <2>3 DEF Prepared
<1>8. ASSUME NEW o \in Operations, Settles(o) PROVE FramesInv'
  <2>1. /\ call[o] \in {"resolving", "rejecting"} /\ operationByFrame[FrameOf(o)] = o
        /\ FinishFrame(FrameOf(o), {o}) /\ Pending' = Pending /\ UNCHANGED <<plan, terminalFrames, operation>>
        /\ (Moves(o, "resolved") \/ Moves(o, "rejected"))
    BY <1>4, <1>5, <1>8 DEF Settles, readVars, nativeVars, Unsettled
  <2>2. operation[o] \notin {"running", "partial"}
    BY <2>1 DEF CallsInv
  <2>3. /\ call'[o] \notin Unsettled /\ operation'[o] \notin {"running", "partial"}
        /\ \A p \in Operations : p # o => call'[p] = call[p] /\ operation'[p] = operation[p]
    BY <1>0, <2>1, <2>2 DEF Moves, Unsettled
  <2>4. \A e \in Pending' : e.kind \in Ending => e \in Pending /\ e.op # o
    BY <2>1, PendingTyped, NoneAssumption DEF CallsInv, Terminal
  <2>5. {o} \in SUBSET {o} /\ terminalFrames' \subseteq terminalFrames \cup {FrameOf(o)}
    BY <2>1
  <2> QED BY <1>0, <2>1, <2>3, <2>4, <2>5, FrameFinished
<1>9. ASSUME NEW o \in Operations, Accepted(o) \/ Refused(o) PROVE FramesInv'
  <2>1. /\ operation[o] = "submitting" /\ call[o] = "waiting"
        /\ operation' = [operation EXCEPT ![o] = "running"] \/ operation' = [operation EXCEPT ![o] = "ended"]
        /\ Moves(o, "returned") \/ Moves(o, "rejecting")
        /\ UNCHANGED <<plan, operationByFrame, terminalFrames, cleanups, listening>> /\ Pending' = Pending
    BY <1>0, <1>5, <1>9 DEF Accepted, Refused, CallsInv, frameVars, readVars
  <2>2. \A p \in Operations :
          call'[p] \in Unsettled \/ operation'[p] \in {"running", "partial"} =>
            call[p] \in Unsettled \/ operation[p] \in {"running", "partial"}
    BY <1>0, <2>1 DEF Moves, Unsettled
  <2>3. \A e \in Pending' : e.kind \in Ending =>
          e \in Pending \/ (e.op \in Operations /\ operation[e.op] \in {"running", "partial"})
    BY <2>1
  <2> QED BY <1>0, <2>1, <2>2, <2>3, FramesKept
<1>10. ASSUME NEW o \in Operations, Trigger(o) \/ AppCancels(o) \/ CancelStep(o) PROVE FramesInv'
  <2>1. /\ UNCHANGED <<plan, call, operation, operationByFrame, terminalFrames, cleanups>>
        /\ listening' \subseteq listening /\ UNCHANGED <<reading, events>>
    BY <1>0, <1>10 DEF Trigger, AppCancels, CancelStep, CancelSent, CancelFails, Releases, nativeVars, readVars, frameVars
  <2> QED BY <1>0, <1>5, <2>1, FramesKept
<1>11. ASSUME NEW o \in Operations, Emit(o) PROVE FramesInv'
  <2>1. PICK kind \in {"partial", "drop", "result", "lifecycle"}, to \in {"partial", "dropped", "ended"} :
          /\ operation' = [operation EXCEPT ![o] = to] /\ UNCHANGED call
          /\ operation[o] \in {"running", "partial", "dropped"}
          /\ kind \in Ending => operation[o] \in {"running", "partial"}
          /\ kind \in Terminal <=> to \in {"dropped", "ended"}
          /\ Pending' = Pending \cup {[op |-> o, kind |-> kind]}
    BY <1>11, Emitted
  <2>2. UNCHANGED <<plan, operationByFrame, terminalFrames, cleanups, listening>>
    BY <1>11 DEF Emit, frameVars
  <2>3. to = "partial" => operation[o] \in {"running", "partial"}
    <3>1. operation'[o] = to
      BY <1>0, <2>1
    <3>2. operation[o] \in {"running", "partial"} \/ operation'[o] = "ended"
      BY <1>0, <1>11 DEF Emit, Emits
    <3> QED BY <3>1, <3>2
  <2>4. \A p \in Operations :
          call'[p] \in Unsettled \/ operation'[p] \in {"running", "partial"} =>
            call[p] \in Unsettled \/ operation[p] \in {"running", "partial"}
    BY <1>0, <2>1, <2>3
  <2>5. \A e \in Pending' : e.kind \in Ending =>
          e \in Pending \/ (e.op \in Operations /\ operation[e.op] \in {"running", "partial"})
    BY <2>1
  <2> QED BY <1>0, <2>2, <2>4, <2>5, FramesKept
<1>12. CASE EmitClose
  <2>1. UNCHANGED <<plan, call, operation, operationByFrame, terminalFrames, cleanups, listening>>
    BY <1>12 DEF EmitClose, frameVars
  <2>2. \A e \in Pending' : e.kind \in Ending => e \in Pending
    BY <1>12, ClosePending DEF CloseEvent, Ending
  <2> QED BY <1>0, <2>1, <2>2, FramesKept
<1>13. CASE ReaderTakes
  <2>1. UNCHANGED <<plan, call, operation, operationByFrame, terminalFrames, cleanups, listening>>
    BY <1>13 DEF ReaderTakes, frameVars
  <2>2. Pending' \subseteq Pending
    BY <1>0, <1>13, PendingTaken
  <2> QED BY <1>0, <2>1, <2>2, FramesKept
<1>14. CASE ReaderHandles
  <2>1. /\ UNCHANGED <<plan, call, operation, events>> /\ reading' = NoEvent
    BY <1>14 DEF ReaderHandles, nativeVars
  <2>2. \A e \in Pending' : e.kind \in Ending => \E i \in DOMAIN events : e = events[i]
    BY <2>1 DEF Pending, NoEvent, Ending
  <2>3. CASE UNCHANGED <<terminalFrames, frameVars>>
    <3>1. \A e \in Pending' : e.kind \in Ending => e \in Pending
      BY <2>2 DEF Pending
    <3> QED BY <1>0, <2>1, <2>3, <3>1, FramesKept DEF frameVars
  <2>4. CASE /\ reading.kind \in Terminal /\ operationByFrame[FrameOf(reading.op)] = reading.op
             /\ terminalFrames' = terminalFrames \cup {FrameOf(reading.op)}
             /\ FinishFrame(FrameOf(reading.op), {})
    <3> DEFINE o == reading.op
    <3>1. /\ o \in Operations /\ call[o] = "returned" /\ operation[o] \notin {"running", "partial"}
          /\ \A i \in DOMAIN events : events[i].kind \in Ending => events[i].op # o
      BY <1>0, <2>4, ReadEnds
    <3>2. operationByFrame[FrameOf(o)] = o /\ terminalFrames' = terminalFrames \cup {FrameOf(o)}
          /\ FinishFrame(FrameOf(o), {})
      BY <2>4
    <3> HIDE DEF o
    <3>3. call'[o] \notin Unsettled /\ operation'[o] \notin {"running", "partial"}
      BY <2>1, <3>1 DEF Unsettled
    <3>4. \A p \in Operations : p # o => call'[p] = call[p] /\ operation'[p] = operation[p]
      BY <2>1
    <3>5. \A e \in Pending' : e.kind \in Ending => e \in Pending /\ e.op # o
      BY <2>2, <3>1 DEF Pending
    <3>6. {} \in SUBSET {o} /\ terminalFrames' \subseteq terminalFrames \cup {FrameOf(o)}
      BY <3>2
    <3> QED BY <1>0, <2>1, <3>1, <3>2, <3>3, <3>4, <3>5, <3>6, FrameFinished
  <2> QED BY <1>0, <1>14, <2>3, <2>4, HandledOpen
<1>15. ~Close
  BY DEF Close, SessionOpen
<1>16. CASE UNCHANGED vars
  <2>1. UNCHANGED <<plan, call, operation, operationByFrame, terminalFrames, cleanups, listening, reading, events>>
    BY <1>16 DEF vars, frameVars, nativeVars, readVars
  <2> QED BY <1>0, <1>5, <2>1, FramesKept
<1> QED
  BY <1>1, <1>6, <1>7, <1>8, <1>9, <1>10, <1>11, <1>12, <1>13, <1>14, <1>15, <1>16 DEF Next, CallStep

(* As long as the session is open a cancelled operation stays cancelled.   *)
LEMMA LateStep ==
  ASSUME Detached, TypeOK, CallsInv, FreshInv, LastInv, FramesInv, OnlyLatePayloadsDropped, [Next]_vars
  PROVE  OnlyLatePayloadsDropped'
<1> SUFFICES ASSUME SessionOpen' PROVE OnlyLatePayloadsDropped'
  BY DEF OnlyLatePayloadsDropped
<1>0. SessionOpen /\ \A o \in Operations : ~LoopStep(o)
  BY OpenBefore DEF LoopStep, LoopTakes, LoopFails, CallsInv
<1>1. CASE UNCHANGED dropped /\ cancelledOperations \subseteq cancelledOperations'
  BY <1>0, <1>1 DEF OnlyLatePayloadsDropped
<1>2. ASSUME NEW o \in Operations,
             Submit(o) \/ CallStep(o) \/ Trigger(o) \/ AppCancels(o) \/ CancelStep(o) \/ Emit(o)
      PROVE UNCHANGED dropped /\ cancelledOperations \subseteq cancelledOperations'
  BY <1>2 DEF Submit, CallStep, Prepared, Accepted, Refused, Settles, Trigger, AppCancels, CancelStep,
     CancelSent, CancelFails, Releases, Emit, readVars
<1>3. EmitClose \/ ReaderTakes => UNCHANGED <<dropped, cancelledOperations>>
  BY DEF EmitClose, ReaderTakes, readVars
<1>4. CASE ReaderHandles
  <2>1. /\ UNCHANGED cancelledOperations
        /\ dropped' = dropped \/ (Suppressed(reading) /\ dropped' = dropped \cup {reading})
    BY <1>0, <1>4, HandledOpen
  <2> QED BY <1>0, <2>1 DEF OnlyLatePayloadsDropped, Suppressed
<1>5. ~Close
  BY DEF Close, SessionOpen
<1>6. UNCHANGED vars => UNCHANGED <<dropped, cancelledOperations>>
  BY DEF vars, readVars
<1> QED BY <1>0, <1>1, <1>2, <1>3, <1>4, <1>5, <1>6 DEF Next

LEMMA InitDetached == Init => DetachedInv
<1> SUFFICES ASSUME Init PROVE DetachedInv
  OBVIOUS
<1>1. TypeOK
  BY InitIInv DEF IInv, FrameIsOwned
<1>2. /\ call = [o \in Operations |-> "idle"] /\ operation = [o \in Operations |-> "none"]
      /\ operationByFrame = [f \in Frames |-> None] /\ terminalFrames = {} /\ listening = {}
      /\ events = <<>> /\ reading = NoEvent /\ polling = {} /\ dropped = {}
  BY DEF Init
<1>3. DOMAIN events = {} /\ Pending = {NoEvent}
  BY <1>2 DEF Pending
<1>4. CallsInv
  BY <1>2, <1>3 DEF CallsInv, NoEvent
<1>5. FreshInv /\ LastInv
  BY <1>3 DEF FreshInv, LastInv, NoEvent, Terminal, Ending
<1>6. FramesInv
  BY <1>1, <1>2, <1>3, TypeFacts DEF FramesInv, NoEvent, Ending, Unsettled
<1>7. OnlyLatePayloadsDropped
  BY <1>2 DEF OnlyLatePayloadsDropped
<1> QED BY <1>1, <1>4, <1>5, <1>6, <1>7 DEF DetachedInv

LEMMA DetachedInvariance == Detached => (Spec => []DetachedInv)
<1> SUFFICES ASSUME Detached PROVE Spec => []DetachedInv
  OBVIOUS
<1>1. Init => DetachedInv
  BY InitDetached
<1>2. DetachedInv /\ [Next]_vars => DetachedInv'
  BY TypesStep, CallsStep, FreshStep, LastStep, FramesStep, LateStep DEF DetachedInv
<1> QED BY <1>1, <1>2, PTL DEF Spec

(* nextEvent() keeps nothing from the application but payloads of          *)
(* operations that have been cancelled, however the events of the calls    *)
(* are mixed and however late they come.                                   *)
THEOREM OnlyLateTheorem == Detached => (Spec => []OnlyLatePayloadsDropped)
<1> SUFFICES ASSUME Detached PROVE Spec => []OnlyLatePayloadsDropped
  OBVIOUS
<1>1. DetachedInv => OnlyLatePayloadsDropped
  BY DEF DetachedInv
<1> QED BY <1>1, DetachedInvariance, PTL

(* When nextEvent() finishes the frames, a timer or a listener does not    *)
(* outlive the frame of its call either.                                   *)
THEOREM DetachedListensTheorem == Detached => (Spec => []ListensWhileBound)
<1> SUFFICES ASSUME Detached PROVE Spec => []ListensWhileBound
  OBVIOUS
<1>1. DetachedInv => ListensWhileBound
  BY DEF DetachedInv, FramesInv, ListensWhileBound
<1> QED BY <1>1, DetachedInvariance, PTL

(* Nor does a terminal event that nextEvent() handles free the frame of    *)
(* another call under way.                                                 *)
THEOREM DetachedFrameTheorem == Detached => (Spec => []FrameIsOwned)
<1> SUFFICES ASSUME Detached PROVE Spec => []FrameIsOwned
  OBVIOUS
<1>1. DetachedInv => FrameIsOwned
  BY DEF DetachedInv, FramesInv, FrameIsOwned
<1> QED BY <1>1, DetachedInvariance, PTL
=============================================================================
