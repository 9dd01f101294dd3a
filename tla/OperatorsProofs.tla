-------------------------- MODULE OperatorsProofs ---------------------------
(***************************************************************************)
(* Theorems about Operators, for any command lines: both scripts at work   *)
(* on one motor, their requests in the queues of its services.             *)
(*                                                                         *)
(* A script's promises rest on the order of the requests in one queue: the *)
(* commission's set_enabled(False) behind every set_enabled(True) that was *)
(* called before, the test's IDLE behind its closed-loop request.  The     *)
(* invariants say so of what is still in a queue, and what follows for the *)
(* node and the drive once it was served.                                  *)
(***************************************************************************)
EXTENDS Operators, SequenceTheorems, TLAPS

\* A client waits for a request of its own.
Owners == \A c \in Clients : waits[c] # Nothing => waits[c].client = c

Typed == TypeOK /\ Owners

\* The request that parks the node, and the one that ends the test.
Disable == [client |-> Commissioner, srv |-> "set_enabled", arg |-> "false"]
LastIdle == [client |-> Tester, srv |-> "request_axis_state", arg |-> "idle"]

\* The only request to disable, and no request to enable after it.
DisableAhead(q) ==
  \E i \in DOMAIN q :
    /\ q[i] = Disable
    /\ \A j \in DOMAIN q : j # i => q[j] # Disable
    /\ \A j \in DOMAIN q : j > i => q[j].arg # "true"

\* The node is disabled, and nothing in q enables it.
Disarmed(q) ==
  ~enabled /\ drive.state # "closed_loop" /\ \A j \in DOMAIN q : q[j].arg # "true"

\* ParkHolds, with the commission's request on its way.
Ordered ==
  LET q == calls["set_enabled"]
  IN /\ options.ns => stage # "prompt_bench"
     /\ stage \in {"check", "wait_services"} =>
          serving.call # Disable /\ \A j \in DOMAIN q : q[j] # Disable
     /\ stage = "disabling" => waits[Commissioner] = Disable
     /\ options.ns /\ ~late /\ stage = "disabling" =>
          \/ DisableAhead(q) /\ serving.call # Disable /\ answer[Commissioner] = "none"
          \/ Disarmed(q)
     /\ options.ns /\ ~late /\ stage \in {"idling", "observing"} \cup Fibre => Disarmed(q)

\* ExitCodeHonest, with what was done by each stage.
Progress ==
  /\ ExitCodeHonest
  /\ stage \in {"prompt_calibrate", "preparing", "waiting", "calibrating", "polling", "saving"}
       => "applied" \in effects
  /\ stage = "saving" /\ options.calibrate => effects \cap {"calibrated", "polled"} # {}

\* An IDLE of the test is in q, and no closed-loop request after it.
IdleLast(q) ==
  \E i \in DOMAIN q :
    q[i] = LastIdle /\ \A j \in DOMAIN q : j > i => q[j].arg # "closed_loop"

\* The drive is out of closed loop, and nothing in q takes it there.
AtRest(q) == drive.state # "closed_loop" /\ \A j \in DOMAIN q : q[j].arg # "closed_loop"

\* IdleIsLastWord, with where the test may have asked for closed loop.
Tidy ==
  LET q == calls["request_axis_state"]
  IN /\ ~context => sigint # "no"
     /\ ~found => step \in {"warm_up", "wait_services", "clean_up", "idling", "done"}
     /\ ~found \/ step \in {"warm_up", "wait_services", "clearing", "enabling"} => AtRest(q)
     /\ sigint = "no" /\ step \in {"idling", "done"} => AtRest(q) \/ IdleLast(q)

-----------------------------------------------------------------------------
(* Queues.                                                                 *)

LEMMA Appended ==
  ASSUME NEW T, NEW q \in Seq(T), NEW x \in T
  PROVE  /\ Append(q, x) \in Seq(T)
         /\ DOMAIN q = 1..Len(q) /\ DOMAIN Append(q, x) = 1..Len(q) + 1 /\ Len(q) \in Nat
         /\ \A i \in DOMAIN q : Append(q, x)[i] = q[i]
         /\ Append(q, x)[Len(q) + 1] = x
  OBVIOUS

LEMMA Taken ==
  ASSUME NEW T, NEW q \in Seq(T), q # <<>>
  PROVE  /\ Tail(q) \in Seq(T) /\ Head(q) = q[1] /\ Head(q) \in T
         /\ Len(q) \in Nat \ {0} /\ DOMAIN q = 1..Len(q) /\ DOMAIN Tail(q) = 1..Len(q) - 1
         /\ \A i \in DOMAIN Tail(q) : Tail(q)[i] = q[i + 1]
  OBVIOUS

-----------------------------------------------------------------------------
(* Types.  Each way to change the node's variables keeps theirs.           *)

NodeTyped == NodeTypeOK /\ Owners

LEMMA LeaveTyped ==
  ASSUME NodeTyped, NEW c \in Clients, Leave(c)
  PROVE  NodeTyped'
  BY DEF NodeTyped, NodeTypeOK, Owners, Leave

\* Only the drive changes.
LEMMA DriveTyped ==
  ASSUME NodeTyped, drive' \in [state : DriveStates, vel : {"zero", "target"}],
         UNCHANGED <<enabled, drivestop, calls, serving, waits, answer>>
  PROVE  NodeTyped'
  BY DEF NodeTyped, NodeTypeOK, Owners

LEMMA IdleTyped ==
  ASSUME NEW d \in [state : DriveStates, vel : {"zero", "target"}]
  PROVE  /\ Idle(d) \in [state : DriveStates, vel : {"zero", "target"}]
         /\ Idle(d).state = "idle" /\ Idle(d).vel = d.vel
  BY DEF Idle, DriveStates

LEMMA CommandedTyped ==
  ASSUME NodeTypeOK, NEW v \in {"zero", "target"}
  PROVE  /\ Commanded(v) \in [state : DriveStates, vel : {"zero", "target"}]
         /\ Commanded(v).state = drive.state
  BY DEF Commanded, NodeTypeOK

\* What a service does to the latch and to the drive.
LEMMA ServeEffect ==
  ASSUME NodeTypeOK, NEW s \in Services, Serve(s)
  PROVE  LET q == calls[s]
         IN /\ q \in Seq(RequestsTo(s)) /\ q # <<>> /\ Head(q) \in RequestsTo(s)
            /\ DOMAIN calls' = Services /\ calls'[s] = Tail(q)
            /\ \A t \in Services \ {s} : calls'[t] = calls[t]
            /\ serving' \in [call : {Head(q)}, success : BOOLEAN]
            /\ enabled' \in BOOLEAN
            /\ drive' \in [state : DriveStates, vel : {"zero", "target"}]
            /\ s = "set_enabled" =>
                 IF Head(q).arg = "true" THEN drive' = drive
                 ELSE ~enabled' /\ drive'.state = "idle"
            /\ s = "request_axis_state" =>
                 /\ enabled' = enabled
                 /\ Head(q).arg = "idle" => drive'.state = "idle"
                 /\ drive'.state = "closed_loop" /\ drive.state # "closed_loop"
                      => Head(q).arg = "closed_loop" /\ enabled
<1> DEFINE q == calls[s]
<1> USE DEF NodeTypeOK, Serve
<1>1. q \in Seq(RequestsTo(s)) /\ q # <<>> /\ Head(q) \in RequestsTo(s)
  BY Taken
<1>2. /\ DOMAIN calls' = Services /\ calls'[s] = Tail(q)
      /\ \A t \in Services \ {s} : calls'[t] = calls[t]
  OBVIOUS
<1>3. Head(q).arg \in Arguments(s)
  BY <1>1 DEF RequestsTo
<1>4. CASE s = "set_enabled"
  <2>1. SetEnabled(Head(q).arg)
    BY <1>4
  <2>2. CASE Head(q).arg = "true"
    <3>1. enabled' \in BOOLEAN /\ drive' = drive
      BY <2>1, <2>2 DEF SetEnabled
    <3> QED BY <1>1, <1>2, <1>4, <2>2, <3>1
  <2>3. CASE Head(q).arg # "true"
    <3>1. enabled' = FALSE /\ drive' = Idle(drive)
      BY <2>1, <2>3 DEF SetEnabled
    <3>2. enabled' \in BOOLEAN /\ ~enabled'
      BY <3>1
    <3> QED BY <1>1, <1>2, <1>4, <2>3, <3>1, <3>2, IdleTyped
  <2> QED BY <2>2, <2>3
<1>5. CASE s = "request_axis_state"
  <2>1. RequestAxisState(Head(q).arg) /\ Head(q).arg \in {"idle", "closed_loop"}
    BY <1>3, <1>5 DEF Arguments
  <2>2. /\ enabled' = enabled
        /\ drive' \in [state : DriveStates, vel : {"zero", "target"}]
        /\ Head(q).arg = "idle" => drive'.state = "idle"
        /\ drive'.state = "closed_loop" /\ drive.state # "closed_loop"
             => Head(q).arg = "closed_loop" /\ enabled
    BY <2>1, IdleTyped DEF RequestAxisState, DriveStates
  <2> QED BY <1>1, <1>2, <1>5, <2>2
<1> QED BY <1>4, <1>5 DEF Services

LEMMA ServeTyped ==
  ASSUME NodeTyped, NEW s \in Services, Serve(s)
  PROVE  NodeTyped'
<1>1. NodeTypeOK
  BY DEF NodeTyped
<1>2. \A t \in Services : calls'[t] \in Seq(RequestsTo(t))
  <2>1. calls[s] \in Seq(RequestsTo(s)) /\ calls[s] # <<>> /\ calls'[s] = Tail(calls[s])
    BY <1>1, ServeEffect
  <2>2. calls'[s] \in Seq(RequestsTo(s))
    BY <2>1, Taken
  <2>3. \A t \in Services \ {s} : calls'[t] = calls[t]
    BY <1>1, ServeEffect
  <2> QED BY <1>1, <2>2, <2>3 DEF NodeTypeOK
<1>3. serving' \in [call : Requests \cup {Nothing}, success : BOOLEAN]
  BY <1>1, ServeEffect DEF Requests
<1>4. /\ enabled' \in BOOLEAN /\ DOMAIN calls' = Services
      /\ drive' \in [state : DriveStates, vel : {"zero", "target"}]
  BY <1>1, ServeEffect
<1>5. UNCHANGED <<drivestop, waits, answer>>
  BY DEF Serve
<1>6. NodeTypeOK'
  BY <1>2, <1>3, <1>4, <1>5 DEF NodeTyped, NodeTypeOK
<1>7. Owners'
  BY <1>5 DEF NodeTyped, Owners
<1> QED BY <1>6, <1>7 DEF NodeTyped

\* An answer goes to the client that waits for it.
LEMMA RespondTyped ==
  ASSUME NodeTyped, Respond
  PROVE  /\ NodeTyped'
         /\ \A c \in Clients : answer'[c] # answer[c] => waits[c] = serving.call
<1> USE DEF NodeTyped, NodeTypeOK, Owners, Respond
<1>1. CASE \E c \in Clients : waits[c] = serving.call
  <2>1. PICK c \in Clients : waits[c] = serving.call
    BY <1>1
  <2>2. serving.call.client = c /\ serving.call # Nothing
    BY <2>1
  <2>3. answer' = [answer EXCEPT ![c] = IF serving.success THEN "success" ELSE "failure"]
    BY <1>1, <2>2
  <2> QED BY <2>1, <2>2, <2>3
<1>2. CASE ~\E c \in Clients : waits[c] = serving.call
  BY <1>2
<1> QED BY <1>1, <1>2

\* A request is queued, and its client waits for it.
LEMMA Queued ==
  ASSUME NodeTyped, NEW c \in Clients, NEW s \in Services, NEW a \in Arguments(s),
         LET r == [client |-> c, srv |-> s, arg |-> a]
         IN /\ calls' = [calls EXCEPT ![s] = Append(@, r)]
            /\ waits' = [waits EXCEPT ![c] = r]
  PROVE  /\ DOMAIN calls' = Services /\ \A t \in Services : calls'[t] \in Seq(RequestsTo(t))
         /\ waits' \in [Clients -> Requests \cup {Nothing}] /\ waits'[c] # Nothing
         /\ Owners'
<1> DEFINE r == [client |-> c, srv |-> s, arg |-> a]
<1> USE DEF NodeTyped, NodeTypeOK, Owners
<1>1. r \in RequestsTo(s) /\ r \in Requests
  BY DEF RequestsTo, Requests
<1>2. DOMAIN calls' = Services /\ \A t \in Services : calls'[t] \in Seq(RequestsTo(t))
  BY <1>1, Appended
<1>3. waits' \in [Clients -> Requests \cup {Nothing}] /\ waits'[c] = r
  BY <1>1
<1>4. Owners'
  OBVIOUS
<1>5. r # Nothing
  BY <1>1, OperatorsAssumption
<1> QED BY <1>2, <1>3, <1>4, <1>5

LEMMA CallTyped ==
  ASSUME NodeTyped, NEW c \in Clients, NEW s \in Services, NEW a \in Arguments(s), Call(c, s, a)
  PROVE  NodeTyped'
<1>1. /\ DOMAIN calls' = Services /\ \A t \in Services : calls'[t] \in Seq(RequestsTo(t))
      /\ waits' \in [Clients -> Requests \cup {Nothing}] /\ Owners'
  BY Queued DEF Call
<1>2. /\ answer' \in [Clients -> {"none", "success", "failure"}]
      /\ \A d \in Clients : answer'[d] # "none" => waits'[d] # Nothing
  BY DEF Call, NodeTyped, NodeTypeOK
<1> QED BY <1>1, <1>2 DEF Call, NodeTyped, NodeTypeOK

LEMMA NodeStepTyped ==
  ASSUME NodeTyped, NodeStep
  PROVE  NodeTyped'
<1>0. NodeTypeOK /\ drive \in [state : DriveStates, vel : {"zero", "target"}]
  BY DEF NodeTyped, NodeTypeOK
<1>1. ASSUME NEW stop \in BOOLEAN, Drivestop(stop) PROVE NodeTyped'
  BY <1>0, <1>1, IdleTyped DEF Drivestop, NodeTyped, NodeTypeOK, Owners
<1>2. CASE DriveDisarms
  BY <1>0, <1>2, IdleTyped, DriveTyped DEF DriveDisarms
<1> QED BY <1>1, <1>2, RespondTyped, ServeTyped DEF NodeStep, ServiceStep

LEMMA TestStepTyped ==
  ASSUME NodeTyped, TestTypeOK, TestStep
  PROVE  NodeTyped' /\ TestTypeOK'
<1>0. /\ Tester \in Clients /\ NodeTypeOK /\ drive.state \in DriveStates
      /\ "true" \in Arguments("set_enabled") /\ "idle" \in Arguments("request_axis_state")
      /\ "closed_loop" \in Arguments("request_axis_state")
      /\ "set_enabled" \in Services /\ "request_axis_state" \in Services
  BY OperatorsAssumption DEF NodeTyped, NodeTypeOK, Arguments, Services
<1> USE DEF TestTypeOK, Goto, Spinning, Setting
<1>1. ASSUME UNCHANGED nodeVars PROVE NodeTyped'
  BY <1>1 DEF nodeVars, NodeTyped, NodeTypeOK, Owners
<1>2. CASE Tick
  BY <1>0, <1>2, CommandedTyped, DriveTyped DEF Tick, testVars
<1>3. CASE OnStatus
  BY <1>0, <1>1, <1>3 DEF OnStatus
<1>4. CASE WarmedUp \/ ServicesReady \/ Confirmed \/ SkipIdle
  BY <1>1, <1>4 DEF WarmedUp, ServicesReady, Confirmed, SkipIdle
<1>5. CASE Cleared \/ Enabled
  BY <1>0, <1>5, CallTyped DEF Cleared, Enabled
<1>6. CASE Requested \/ CleanedUp
  BY <1>0, <1>6, LeaveTyped DEF Requested, CleanedUp
<1>7. CASE GivesUp \/ DroppedOut \/ ContextLost
  BY <1>0, <1>7, LeaveTyped DEF GivesUp, DroppedOut, ContextLost, EnterCleanUp
<1>8. CASE RequestIdle
  <2>1. /\ DOMAIN calls' = Services /\ \A t \in Services : calls'[t] \in Seq(RequestsTo(t))
        /\ waits' \in [Clients -> Requests \cup {Nothing}] /\ waits'[Tester] # Nothing /\ Owners'
    BY <1>0, <1>8, Queued DEF RequestIdle
  <2>2. /\ \A d \in Clients : d # Tester => waits'[d] = waits[d]
        /\ drive' \in [state : DriveStates, vel : {"zero", "target"}]
        /\ UNCHANGED <<enabled, drivestop, serving, answer>>
    BY <1>0, <1>8, CommandedTyped DEF RequestIdle, NodeTyped, NodeTypeOK
  <2>3. NodeTypeOK'
    BY <2>1, <2>2 DEF NodeTyped, NodeTypeOK
  <2>4. TestTypeOK'
    BY <1>8 DEF RequestIdle
  <2> QED BY <2>1, <2>3, <2>4 DEF NodeTyped
<1>9. CASE CtrlC \/ ContextShutsDown
  BY <1>1, <1>9 DEF CtrlC, ContextShutsDown
<1>10. CASE KeyboardInterrupt \/ InterruptInCleanUp
  BY <1>0, <1>10, LeaveTyped DEF KeyboardInterrupt, InterruptInCleanUp
<1> QED BY <1>2, <1>3, <1>4, <1>5, <1>6, <1>7, <1>8, <1>9, <1>10 DEF TestStep, MainStep

LEMMA CommissionStepTyped ==
  ASSUME NodeTyped, CommissionTypeOK, CommissionStep
  PROVE  NodeTyped' /\ CommissionTypeOK'
<1>0. /\ Commissioner \in Clients /\ NodeTypeOK /\ drivestop \in BOOLEAN
      /\ drive \in [state : DriveStates, vel : {"zero", "target"}]
      /\ "false" \in Arguments("set_enabled") /\ "idle" \in Arguments("request_axis_state")
      /\ "set_enabled" \in Services /\ "request_axis_state" \in Services
      /\ Nothing # 0 /\ Nothing # 1
  BY OperatorsAssumption DEF NodeTyped, NodeTypeOK, Arguments, Services
<1> USE DEF CommissionTypeOK, Advance, Parking, Fibre
<1>1. ASSUME UNCHANGED nodeVars PROVE NodeTyped'
  BY <1>1 DEF nodeVars, NodeTyped, NodeTypeOK, Owners
<1>2. ASSUME NEW d \in [state : DriveStates, vel : {"zero", "target"}], FibreDrive(d)
      PROVE  NodeTyped'
  BY <1>2, DriveTyped DEF FibreDrive
<1>3. CASE OnDrivestop
  BY <1>0, <1>1, <1>3 DEF OnDrivestop
<1>4. CASE NotStopped \/ BenchConfirmed \/ Parked \/ StartSearch \/ Connected
             \/ ConfigApplied \/ CalibrationConfirmed \/ ProcessEnds
  BY <1>1, <1>4 DEF NotStopped, BenchConfirmed, Parked, StartSearch, Connected, ConfigApplied,
     CalibrationConfirmed, ProcessEnds
<1>5. CASE Stopped \/ NotConfirmed \/ SearchFails \/ FibreFails \/ PolledIdle \/ LostInSave
             \/ NothingToSave
  BY <1>0, <1>1, <1>5 DEF Stopped, NotConfirmed, SearchFails, FibreFails, PolledIdle, LostInSave,
     NothingToSave, Exit
<1>6. CASE CallDisable \/ Disabled
  BY <1>0, <1>6, CallTyped DEF CallDisable, Disabled
<1>7. CASE IdleAnswered
  BY <1>0, <1>7, LeaveTyped DEF IdleAnswered
<1>8. CASE ParkFails
  BY <1>0, <1>8, LeaveTyped DEF ParkFails, Exit
<1>9. CASE FibreIdle \/ Calibrated
  BY <1>0, <1>2, <1>9, IdleTyped DEF FibreIdle, Calibrated
<1>10. CASE StartCalibration
  <2>1. PICK d \in [state : DriveStates, vel : {"zero", "target"}] : FibreDrive(d)
    BY <1>0, <1>10 DEF StartCalibration, DriveStates
  <2> QED BY <1>2, <1>10, <2>1 DEF StartCalibration
<1>11. CASE Saved
  <2>1. [state |-> "idle", vel |-> "zero"] \in [state : DriveStates, vel : {"zero", "target"}]
    BY DEF DriveStates
  <2> QED BY <1>0, <1>2, <1>11, <2>1 DEF Saved, Exit
<1>12. CASE FindAny
  BY <1>1, <1>12 DEF FindAny, SearchEnds
<1> QED BY <1>3, <1>4, <1>5, <1>6, <1>7, <1>8, <1>9, <1>10, <1>11, <1>12
        DEF CommissionStep, ScriptStep

LEMMA TypedInit == Init => Typed
<1> SUFFICES ASSUME Init PROVE Typed
  OBVIOUS
<1>1. \A t \in Services : <<>> \in Seq(RequestsTo(t))
  OBVIOUS
<1>2. NodeTypeOK /\ Owners
  BY <1>1 DEF Init, NodeInit, NodeTypeOK, Owners, DriveStates
<1>3. TestTypeOK
  BY DEF Init, TestInit, TestTypeOK, Spinning, Setting
<1>4. CommissionTypeOK
  BY DEF Init, CommissionInit, CommissionTypeOK, Parking
<1>5. late \in BOOLEAN
  BY DEF Init
<1> QED BY <1>2, <1>3, <1>4, <1>5 DEF Typed, TypeOK

LEMMA TypedStep == Typed /\ [Next]_vars => Typed'
<1> SUFFICES ASSUME Typed, [Next]_vars PROVE Typed'
  OBVIOUS
<1>0. NodeTyped /\ TestTypeOK /\ CommissionTypeOK /\ late \in BOOLEAN
  BY DEF Typed, TypeOK, NodeTyped
<1>1. ASSUME UNCHANGED testVars PROVE TestTypeOK'
  BY <1>0, <1>1 DEF testVars, TestTypeOK
<1>2. ASSUME UNCHANGED commissionVars PROVE CommissionTypeOK'
  BY <1>0, <1>2 DEF commissionVars, CommissionTypeOK
<1>3. ASSUME NodeTyped', TestTypeOK', CommissionTypeOK', late' \in BOOLEAN PROVE Typed'
  BY <1>3 DEF Typed, TypeOK, NodeTyped
<1>4. CASE NodeStep /\ UNCHANGED <<testVars, commissionVars, late>>
  BY <1>0, <1>1, <1>2, <1>3, <1>4, NodeStepTyped
<1>5. CASE TestStep /\ UNCHANGED commissionVars /\ late' = (late \/ ArmsLate)
  BY <1>0, <1>2, <1>3, <1>5, TestStepTyped
<1>6. CASE CommissionStep /\ UNCHANGED <<testVars, late>>
  BY <1>0, <1>1, <1>3, <1>6, CommissionStepTyped
<1>7. CASE UNCHANGED vars
  BY <1>7 DEF vars, nodeVars, testVars, commissionVars, Typed, TypeOK, Owners, NodeTypeOK,
     TestTypeOK, CommissionTypeOK
<1> QED BY <1>4, <1>5, <1>6, <1>7 DEF Next

LEMMA TypedAlways == Spec => []Typed
  BY TypedInit, TypedStep, PTL DEF Spec

\* Every variable of the node, of both scripts and of their requests keeps its
\* type; an answer is there only for a client that waits.
THEOREM TypeCorrect == Spec => []TypeOK
<1>1. Typed => TypeOK
  BY DEF Typed
<1> QED BY <1>1, TypedAlways, PTL

-----------------------------------------------------------------------------
(* The exit code.                                                          *)

LEMMA ProgressInit == Init => Progress
  BY OperatorsAssumption DEF Init, CommissionInit, Progress, ExitCodeHonest

LEMMA ProgressStep == TypeOK /\ Progress /\ [Next]_vars => Progress'
<1> SUFFICES ASSUME TypeOK, Progress, [Next]_vars PROVE Progress'
  OBVIOUS
<1> USE DEF Progress, ExitCodeHonest
<1>1. CASE UNCHANGED commissionVars
  BY <1>1 DEF commissionVars
<1>2. CASE CommissionStep
  <2> USE DEF Advance
  <2>0. Nothing # 0
    BY OperatorsAssumption
  <2>1. CASE UNCHANGED <<stage, options, effects, exit_code>>
    BY <2>1
  <2>2. ASSUME Exit(1) PROVE Progress'
    BY <2>2 DEF Exit
  <2>3. CASE NotStopped \/ BenchConfirmed \/ CallDisable \/ Disabled \/ IdleAnswered \/ Parked
             \/ Connected \/ ProcessEnds
    BY <2>3 DEF NotStopped, BenchConfirmed, CallDisable, Disabled, IdleAnswered, Parked,
       Connected, ProcessEnds
  <2>4. CASE Stopped \/ ParkFails \/ NotConfirmed \/ SearchFails \/ FibreFails
    BY <2>2, <2>4 DEF Stopped, ParkFails, NotConfirmed, SearchFails, FibreFails
  <2>5. CASE ConfigApplied
    BY <2>5 DEF ConfigApplied
  <2>6. CASE CalibrationConfirmed \/ FibreIdle \/ StartCalibration
    BY <2>6 DEF CalibrationConfirmed, FibreIdle, StartCalibration
  <2>7. CASE Calibrated \/ PolledIdle
    BY <2>7 DEF Calibrated, PolledIdle
  <2>8. CASE Saved \/ LostInSave
    BY <2>8 DEF Saved, LostInSave, Exit
  <2>9. CASE NothingToSave
    BY <2>9 DEF NothingToSave, Exit
  <2>10. CASE OnDrivestop \/ StartSearch \/ FindAny
    BY <2>1, <2>10 DEF OnDrivestop, StartSearch, FindAny, SearchEnds
  <2> QED BY <1>2, <2>3, <2>4, <2>5, <2>6, <2>7, <2>8, <2>9, <2>10 DEF CommissionStep, ScriptStep
<1> QED BY <1>1, <1>2 DEF Next, vars, commissionVars

\* commission.py exits with 0 only when the configuration was applied; a polled
\* IDLE and a lost drive are all it may have taken for what was asked for.
THEOREM ExitCodeTheorem == Spec => []ExitCodeHonest
<1>1. Progress => ExitCodeHonest
  BY DEF Progress
<1> QED BY <1>1, ProgressInit, ProgressStep, TypeCorrect, PTL DEF Spec

-----------------------------------------------------------------------------
(* The park.                                                               *)

LEMMA DisableIsRequest == Disable \in RequestsTo("set_enabled") /\ Disable # Nothing
<1>1. Disable \in RequestsTo("set_enabled")
  BY OperatorsAssumption DEF Disable, RequestsTo, Arguments
<1> QED BY <1>1, OperatorsAssumption DEF Requests, Services

LEMMA OrderedInit == Init => Ordered
<1> SUFFICES ASSUME Init PROVE Ordered
  OBVIOUS
<1>1. calls["set_enabled"] = <<>> /\ stage = "check" /\ serving.call = Nothing
  BY DEF Init, NodeInit, CommissionInit, Services
<1> QED BY <1>1, DisableIsRequest DEF Ordered, Fibre

\* What concerns the park stays, or the drive is disarmed by somebody.
LEMMA OrderedKept ==
  ASSUME Ordered, UNCHANGED <<stage, options>>, late => late', enabled' = enabled,
         drive'.state = "closed_loop" => drive.state = "closed_loop",
         calls'["set_enabled"] = calls["set_enabled"], serving'.call \in {serving.call, Nothing},
         waits'[Commissioner] = waits[Commissioner],
         answer'[Commissioner] = answer[Commissioner]
  PROVE  Ordered'
<1>1. \A q : Disarmed(q) => Disarmed(q)'
  BY DEF Disarmed
<1> QED BY <1>1, DisableIsRequest DEF Ordered

\* A request to enable or to disable is served.
LEMMA OrderedServe ==
  ASSUME Typed, Ordered, Serve("set_enabled"), UNCHANGED <<commissionVars, late>>
  PROVE  Ordered'
<1> DEFINE q == calls["set_enabled"]
<1>0. NodeTypeOK /\ "set_enabled" \in Services
  BY DEF Typed, TypeOK, Services
<1>1. /\ q \in Seq(RequestsTo("set_enabled")) /\ q # <<>> /\ q' = Tail(q)
      /\ serving'.call = Head(q)
      /\ IF Head(q).arg = "true" THEN drive' = drive ELSE ~enabled' /\ drive'.state = "idle"
  BY <1>0, ServeEffect
<1>2. /\ Head(q) = q[1] /\ Len(q) \in Nat \ {0} /\ DOMAIN q = 1..Len(q)
      /\ DOMAIN q' = 1..Len(q) - 1 /\ \A i \in DOMAIN q' : q'[i] = q[i + 1]
  BY <1>1, Taken
<1>3. UNCHANGED <<stage, options, late, waits, answer>>
  BY <1>0 DEF Serve, commissionVars
<1> HIDE DEF q
<1>4. ASSUME Disarmed(q) PROVE Disarmed(q)'
  <2>1. Head(q).arg # "true" /\ \A j \in DOMAIN q' : q'[j].arg # "true"
    BY <1>2, <1>4 DEF Disarmed
  <2> QED BY <1>1, <2>1 DEF Disarmed
<1>5. ASSUME DisableAhead(q)
      PROVE  \/ Head(q) = Disable /\ Disarmed(q)'
             \/ Head(q) # Disable /\ DisableAhead(q')
  <2>1. PICK i \in DOMAIN q : /\ q[i] = Disable
                              /\ \A j \in DOMAIN q : j # i => q[j] # Disable
                              /\ \A j \in DOMAIN q : j > i => q[j].arg # "true"
    BY <1>5 DEF DisableAhead
  <2>2. CASE i = 1
    <3>1. Head(q) = Disable /\ Head(q).arg # "true"
      BY <1>2, <2>1, <2>2 DEF Disable
    <3>2. \A j \in DOMAIN q' : q'[j].arg # "true"
      BY <1>2, <2>1, <2>2
    <3> QED BY <1>1, <3>1, <3>2 DEF Disarmed
  <2>3. CASE i # 1
    <3>1. i - 1 \in DOMAIN q' /\ q'[i - 1] = Disable /\ Head(q) # Disable
      BY <1>2, <2>1, <2>3
    <3>2. \A j \in DOMAIN q' : /\ j # i - 1 => q'[j] # Disable
                               /\ j > i - 1 => q'[j].arg # "true"
      BY <1>2, <2>1
    <3> QED BY <3>1, <3>2 DEF DisableAhead
  <2> QED BY <2>2, <2>3
<1>6. ASSUME \A j \in DOMAIN q : q[j] # Disable
      PROVE  Head(q) # Disable /\ \A j \in DOMAIN q' : q'[j] # Disable
  BY <1>2, <1>6
<1> QED BY <1>1, <1>3, <1>4, <1>5, <1>6 DEF Ordered, q

\* The test arms the motor: before the park's request, or late.
LEMMA OrderedArm ==
  ASSUME Typed, Ordered, Cleared, UNCHANGED <<stage, options>>, late' = (late \/ ArmsLate)
  PROVE  Ordered'
<1> DEFINE q == calls["set_enabled"]
           r == [client |-> Tester, srv |-> "set_enabled", arg |-> "true"]
<1>1. /\ q \in Seq(RequestsTo("set_enabled")) /\ r \in RequestsTo("set_enabled")
      /\ q' = Append(q, r)
  BY OperatorsAssumption DEF Typed, TypeOK, NodeTypeOK, Services, RequestsTo, Arguments,
     Cleared, Call
<1>2. r # Disable
  BY DEF Disable
<1>3. /\ serving' = serving
      /\ waits'[Commissioner] = waits[Commissioner] /\ answer'[Commissioner] = answer[Commissioner]
  BY OperatorsAssumption DEF Typed, TypeOK, NodeTypeOK, Cleared, Call
<1>4. ASSUME \A j \in DOMAIN q : q[j] # Disable PROVE \A j \in DOMAIN q' : q'[j] # Disable
  BY <1>1, <1>2, <1>4, Appended
<1>5. options.ns /\ stage \in {"disabling", "idling", "observing"} \cup Fibre => late'
  BY DEF ArmsLate, Fibre
<1> QED BY <1>3, <1>4, <1>5 DEF Ordered

\* The commission's own steps.
LEMMA OrderedCommission ==
  ASSUME Typed, Ordered, CommissionStep, late' = late
  PROVE  Ordered'
<1> DEFINE q == calls["set_enabled"]
<1>0. /\ NodeTypeOK /\ "set_enabled" \in Services /\ "request_axis_state" \in Services
      /\ DOMAIN calls = Services /\ Commissioner \in Clients
  BY OperatorsAssumption DEF Typed, TypeOK, NodeTypeOK, Services
<1> USE DEF Advance
<1>1. CASE OnDrivestop \/ StartSearch \/ FindAny
  BY <1>1, OrderedKept DEF OnDrivestop, StartSearch, FindAny, SearchEnds, nodeVars
<1>2. ASSUME stage' \in {"joining", "exited"} PROVE Ordered'
  BY <1>2 DEF Ordered, Fibre
<1>3. CASE Stopped \/ ParkFails \/ NotConfirmed \/ SearchFails \/ FibreFails \/ Saved
             \/ LostInSave \/ NothingToSave \/ ProcessEnds
  BY <1>2, <1>3 DEF Stopped, ParkFails, NotConfirmed, SearchFails, FibreFails, Saved, LostInSave,
     NothingToSave, ProcessEnds, Exit
<1>4. CASE NotStopped \/ BenchConfirmed
  BY <1>4 DEF NotStopped, BenchConfirmed, nodeVars, Ordered, Fibre
<1>5. CASE CallDisable
  <2>1. /\ q \in Seq(RequestsTo("set_enabled")) /\ Disable \in RequestsTo("set_enabled")
        /\ q' = Append(q, Disable) /\ waits'[Commissioner] = Disable
        /\ answer'[Commissioner] = "none" /\ serving' = serving
    BY <1>0, <1>5, DisableIsRequest DEF NodeTypeOK, CallDisable, Call, Disable
  <2>2. stage = "wait_services" /\ stage' = "disabling"
    BY <1>5 DEF CallDisable
  <2>3. DisableAhead(q') /\ serving.call # Disable
    <3>1. serving.call # Disable /\ \A j \in DOMAIN q : q[j] # Disable
      BY <2>2 DEF Ordered
    <3>2. /\ DOMAIN q = 1..Len(q) /\ DOMAIN q' = 1..Len(q) + 1 /\ Len(q) \in Nat
          /\ \A j \in DOMAIN q : q'[j] = q[j]
          /\ q'[Len(q) + 1] = Disable
      BY <2>1, Appended
    <3> HIDE DEF q
    <3>3. \A j \in DOMAIN q' : /\ j # Len(q) + 1 => q'[j] # Disable
                               /\ ~(j > Len(q) + 1)
      BY <3>1, <3>2
    <3> QED BY <3>1, <3>2, <3>3 DEF DisableAhead
  <2> QED BY <2>1, <2>2, <2>3 DEF Ordered, Fibre
<1>6. ASSUME options' = options, stage' \in {"idling", "observing"} \cup Fibre,
             options.ns /\ ~late => Disarmed(q),
             enabled' = enabled, q' = q, drive'.state = "closed_loop" => drive.state = "closed_loop"
      PROVE  Ordered'
  BY <1>6 DEF Ordered, Disarmed, Fibre
<1>7. CASE Disabled
  <2>1. options.ns /\ ~late => Disarmed(q)
    BY <1>7 DEF Disabled, Ordered
  <2>2. q' = q
    BY <1>0, <1>7 DEF Disabled, Call
  <2> QED BY <1>6, <1>7, <2>1, <2>2 DEF Disabled, Call
<1>8. CASE IdleAnswered
  BY <1>6, <1>8 DEF IdleAnswered, Leave, Ordered
<1>9. CASE Parked \/ Connected \/ ConfigApplied \/ CalibrationConfirmed \/ PolledIdle
  BY <1>6, <1>9 DEF Parked, Connected, ConfigApplied, CalibrationConfirmed, PolledIdle, nodeVars, Ordered, Fibre
<1>10. CASE FibreIdle \/ Calibrated
  <2>1. drive'.state = "idle"
    BY <1>0, <1>10, IdleTyped DEF FibreIdle, Calibrated, FibreDrive, NodeTypeOK
  <2> QED BY <1>6, <1>10, <2>1 DEF FibreIdle, Calibrated, FibreDrive, Ordered, Fibre
<1>11. CASE StartCalibration
  <2>1. drive'.state = "closed_loop" => drive.state = "closed_loop"
    BY <1>0, <1>11 DEF StartCalibration, FibreDrive, NodeTypeOK
  <2> QED BY <1>6, <1>11, <2>1 DEF StartCalibration, FibreDrive, Ordered, Fibre
<1> QED BY <1>1, <1>3, <1>4, <1>5, <1>7, <1>8, <1>9, <1>10, <1>11 DEF CommissionStep, ScriptStep

LEMMA OrderedNode ==
  ASSUME Typed, Ordered, NodeStep, UNCHANGED <<commissionVars, late>>
  PROVE  Ordered'
<1>0. /\ NodeTypeOK /\ "set_enabled" \in Services /\ "request_axis_state" \in Services
      /\ drive \in [state : DriveStates, vel : {"zero", "target"}]
      /\ Commissioner \in Clients /\ UNCHANGED <<stage, options, late>>
  BY OperatorsAssumption DEF Typed, TypeOK, NodeTypeOK, Services, commissionVars
<1>1. CASE Serve("set_enabled")
  BY <1>1, OrderedServe
<1>2. CASE Serve("request_axis_state")
  <2> DEFINE q == calls["set_enabled"]
  <2>1. /\ q' = q /\ enabled' = enabled
        /\ drive'.state = "closed_loop" /\ drive.state # "closed_loop" => enabled
        /\ serving'.call \in RequestsTo("request_axis_state")
    BY <1>0, <1>2, ServeEffect
  <2>2. serving'.call # Disable
    BY <2>1 DEF Disable, RequestsTo
  <2>3. UNCHANGED <<waits, answer>>
    BY <1>2 DEF Serve
  <2>4. Disarmed(q) => Disarmed(q)'
    BY <2>1 DEF Disarmed
  <2> QED BY <1>0, <2>1, <2>2, <2>3, <2>4 DEF Ordered
<1>3. CASE Respond
  <2>1. /\ serving'.call = Nothing /\ UNCHANGED <<enabled, drive, calls, waits>>
        /\ answer'[Commissioner] # answer[Commissioner] => waits[Commissioner] = serving.call
    BY <1>0, <1>3, RespondTyped DEF Respond, Typed, TypeOK, NodeTyped
  <2>2. \A q : Disarmed(q) => Disarmed(q)'
    BY <2>1 DEF Disarmed
  <2> QED BY <1>0, <2>1, <2>2, DisableIsRequest DEF Ordered
<1>4. ASSUME NEW stop \in BOOLEAN, Drivestop(stop) PROVE Ordered'
  BY <1>0, <1>4, IdleTyped, OrderedKept DEF Drivestop
<1>5. CASE DriveDisarms
  BY <1>0, <1>5, IdleTyped, OrderedKept DEF DriveDisarms
<1> QED BY <1>1, <1>2, <1>3, <1>4, <1>5 DEF NodeStep, ServiceStep, Services

\* Of the test's steps only the call that arms concerns the park.
LEMMA TestCalls ==
  ASSUME Typed, TestStep, ~Cleared
  PROVE  /\ calls'["set_enabled"] = calls["set_enabled"]
         /\ UNCHANGED <<enabled, serving>> /\ drive'.state = drive.state
         /\ waits'[Commissioner] = waits[Commissioner]
         /\ answer'[Commissioner] = answer[Commissioner]
<1>0. /\ DOMAIN calls = Services /\ "set_enabled" \in Services /\ Tester # Commissioner
      /\ NodeTypeOK /\ "request_axis_state" \in Services
      /\ waits \in [Clients -> Requests \cup {Nothing}] /\ Commissioner \in Clients
      /\ answer \in [Clients -> {"none", "success", "failure"}]
      /\ vel \in {"zero", "target"}
  BY OperatorsAssumption DEF Typed, TypeOK, NodeTypeOK, Services, TestTypeOK
<1>1. CASE Tick
  BY <1>0, <1>1, CommandedTyped DEF Tick
<1>2. CASE RequestIdle
  BY <1>0, <1>2, CommandedTyped DEF RequestIdle
<1>3. CASE Enabled
  BY <1>0, <1>3 DEF Enabled, Call
<1>4. ASSUME Leave(Tester) \/ UNCHANGED nodeVars
      PROVE  /\ UNCHANGED <<calls, enabled, serving, drive>>
             /\ waits'[Commissioner] = waits[Commissioner]
             /\ answer'[Commissioner] = answer[Commissioner]
  BY <1>0, <1>4 DEF Leave, nodeVars
<1>5. CASE OnStatus \/ WarmedUp \/ ServicesReady \/ Requested \/ Confirmed \/ GivesUp
             \/ DroppedOut \/ ContextLost \/ SkipIdle \/ CleanedUp \/ CtrlC
             \/ ContextShutsDown \/ KeyboardInterrupt \/ InterruptInCleanUp
  BY <1>4, <1>5 DEF OnStatus, WarmedUp, ServicesReady, Requested, Confirmed, GivesUp,
     DroppedOut, ContextLost, EnterCleanUp, SkipIdle, CleanedUp, CtrlC, ContextShutsDown,
     KeyboardInterrupt, InterruptInCleanUp
<1> QED BY <1>1, <1>2, <1>3, <1>5 DEF TestStep, MainStep

LEMMA OrderedStep == Typed /\ Ordered /\ [Next]_vars => Ordered'
<1> SUFFICES ASSUME Typed, Ordered, [Next]_vars PROVE Ordered'
  OBVIOUS
<1>1. CASE NodeStep /\ UNCHANGED <<testVars, commissionVars, late>>
  BY <1>1, OrderedNode
<1>2. CASE TestStep /\ UNCHANGED commissionVars /\ late' = (late \/ ArmsLate)
  <2>1. UNCHANGED <<stage, options>>
    BY <1>2 DEF commissionVars
  <2>2. CASE Cleared
    BY <1>2, <2>1, <2>2, OrderedArm
  <2>3. CASE ~Cleared
    BY <1>2, <2>1, <2>3, TestCalls, OrderedKept
  <2> QED BY <2>2, <2>3
<1>3. CASE CommissionStep /\ UNCHANGED <<testVars, late>>
  BY <1>3, OrderedCommission
<1>4. CASE UNCHANGED vars
  BY <1>4, OrderedKept DEF vars, nodeVars, commissionVars
<1> QED BY <1>1, <1>2, <1>3, <1>4 DEF Next

\* commission.py parks for good: while it works on the drive over Fibre the
\* node is disabled and the drive out of closed loop, whatever requests were
\* queued before the park and whoever waits for them, unless somebody enables
\* the motor after the park began.
THEOREM ParkTheorem == Spec => []ParkHolds
<1>1. Ordered => ParkHolds
  BY DEF Ordered, ParkHolds, Disarmed
<1> QED BY <1>1, OrderedInit, OrderedStep, TypedAlways, PTL DEF Spec

-----------------------------------------------------------------------------
(* The end of the test.                                                    *)

LEMMA TidyInit == Init => Tidy
<1> SUFFICES ASSUME Init PROVE Tidy
  OBVIOUS
<1>1. calls["request_axis_state"] = <<>> /\ drive.state = "idle"
  BY DEF Init, NodeInit, Services
<1> QED BY <1>1 DEF Init, TestInit, Tidy, AtRest

\* A step of others that leaves the queue alone.
LEMMA TidyKept ==
  ASSUME Tidy, UNCHANGED testVars,
         calls'["request_axis_state"] = calls["request_axis_state"],
         drive'.state = "closed_loop" => drive.state = "closed_loop"
  PROVE  Tidy'
<1>1. \A q : AtRest(q) => AtRest(q)'
  BY DEF AtRest
<1> QED BY <1>1 DEF Tidy, IdleLast, testVars

\* Nothing but closed_loop is queued.
LEMMA Harmless ==
  ASSUME Typed, NEW r \in RequestsTo("request_axis_state"), r.arg # "closed_loop",
         calls'["request_axis_state"] = Append(calls["request_axis_state"], r),
         drive'.state = "closed_loop" => drive.state = "closed_loop"
  PROVE  LET q == calls["request_axis_state"]
         IN /\ AtRest(q) => AtRest(q)'
            /\ IdleLast(q) => IdleLast(q')
            /\ r = LastIdle => IdleLast(q')
<1> DEFINE q == calls["request_axis_state"]
<1>1. q \in Seq(RequestsTo("request_axis_state"))
  BY DEF Typed, TypeOK, NodeTypeOK, Services
<1>2. /\ DOMAIN q = 1..Len(q) /\ DOMAIN q' = 1..Len(q) + 1 /\ Len(q) \in Nat
      /\ \A i \in DOMAIN q : q'[i] = q[i]
      /\ q'[Len(q) + 1] = r
  BY <1>1, Appended
<1> HIDE DEF q
<1>3. AtRest(q) => AtRest(q)'
  BY <1>2 DEF AtRest
<1>4. IdleLast(q) => IdleLast(q')
  <2> SUFFICES ASSUME IdleLast(q) PROVE IdleLast(q')
    OBVIOUS
  <2>1. PICK i \in DOMAIN q :
          q[i] = LastIdle /\ \A j \in DOMAIN q : j > i => q[j].arg # "closed_loop"
    BY DEF IdleLast
  <2>2. i \in DOMAIN q' /\ q'[i] = LastIdle
    BY <1>2, <2>1
  <2>3. \A j \in DOMAIN q' : j > i => q'[j].arg # "closed_loop"
    BY <1>2, <2>1
  <2> QED BY <2>2, <2>3 DEF IdleLast
<1>5. ASSUME r = LastIdle PROVE IdleLast(q')
  <2>1. Len(q) + 1 \in DOMAIN q' /\ \A j \in DOMAIN q' : ~(j > Len(q) + 1)
    BY <1>2
  <2> QED BY <1>2, <1>5, <2>1 DEF IdleLast
<1> QED BY <1>3, <1>4, <1>5 DEF q

\* A request for an axis state is served.
LEMMA TidyServe ==
  ASSUME Typed, Tidy, Serve("request_axis_state"), UNCHANGED testVars
  PROVE  Tidy'
<1> DEFINE q == calls["request_axis_state"]
<1>0. NodeTypeOK /\ "request_axis_state" \in Services
  BY DEF Typed, TypeOK, Services
<1>1. /\ q \in Seq(RequestsTo("request_axis_state")) /\ q # <<>> /\ q' = Tail(q)
      /\ Head(q).arg = "idle" => drive'.state = "idle"
      /\ drive'.state = "closed_loop" /\ drive.state # "closed_loop"
           => Head(q).arg = "closed_loop"
  BY <1>0, ServeEffect
<1>2. /\ Head(q) = q[1] /\ Len(q) \in Nat \ {0} /\ DOMAIN q = 1..Len(q)
      /\ DOMAIN q' = 1..Len(q) - 1 /\ \A i \in DOMAIN q' : q'[i] = q[i + 1]
  BY <1>1, Taken
<1> HIDE DEF q
<1>3. AtRest(q) => AtRest(q)'
  <2> SUFFICES ASSUME AtRest(q) PROVE AtRest(q)'
    OBVIOUS
  <2>1. Head(q).arg # "closed_loop" /\ \A j \in DOMAIN q' : q'[j].arg # "closed_loop"
    BY <1>2 DEF AtRest
  <2> QED BY <1>1, <2>1 DEF AtRest
<1>4. IdleLast(q) => IdleLast(q') \/ AtRest(q)'
  <2> SUFFICES ASSUME IdleLast(q) PROVE IdleLast(q') \/ AtRest(q)'
    OBVIOUS
  <2>1. PICK i \in DOMAIN q :
          q[i] = LastIdle /\ \A j \in DOMAIN q : j > i => q[j].arg # "closed_loop"
    BY DEF IdleLast
  <2>2. CASE i = 1
    <3>1. Head(q).arg = "idle"
      BY <1>2, <2>1, <2>2 DEF LastIdle
    <3>2. \A j \in DOMAIN q' : q'[j].arg # "closed_loop"
      BY <1>2, <2>1, <2>2
    <3> QED BY <1>1, <3>1, <3>2 DEF AtRest
  <2>3. CASE i # 1
    <3>1. i - 1 \in DOMAIN q' /\ q'[i - 1] = LastIdle
      BY <1>2, <2>1, <2>3
    <3>2. \A j \in DOMAIN q' : j > i - 1 => q'[j].arg # "closed_loop"
      BY <1>2, <2>1
    <3> QED BY <3>1, <3>2 DEF IdleLast
  <2> QED BY <2>2, <2>3
<1> QED BY <1>3, <1>4 DEF Tidy, testVars, q

LEMMA TidyNode ==
  ASSUME Typed, Tidy, NodeStep, UNCHANGED testVars
  PROVE  Tidy'
<1>0. /\ NodeTypeOK /\ "set_enabled" \in Services /\ "request_axis_state" \in Services
      /\ drive \in [state : DriveStates, vel : {"zero", "target"}]
  BY DEF Typed, TypeOK, NodeTypeOK, Services
<1>1. CASE Serve("request_axis_state")
  BY <1>1, TidyServe
<1>2. CASE Serve("set_enabled")
  <2>1. /\ calls'["request_axis_state"] = calls["request_axis_state"]
        /\ drive'.state = "closed_loop" => drive.state = "closed_loop"
    BY <1>0, <1>2, ServeEffect
  <2> QED BY <2>1, TidyKept
<1>3. CASE Respond
  BY <1>3, TidyKept DEF Respond
<1>4. ASSUME NEW stop \in BOOLEAN, Drivestop(stop) PROVE Tidy'
  BY <1>0, <1>4, IdleTyped, TidyKept DEF Drivestop
<1>5. CASE DriveDisarms
  BY <1>0, <1>5, IdleTyped, TidyKept DEF DriveDisarms
<1> QED BY <1>1, <1>2, <1>3, <1>4, <1>5 DEF NodeStep, ServiceStep, Services

LEMMA TidyCommission ==
  ASSUME Typed, Tidy, CommissionStep, UNCHANGED testVars
  PROVE  Tidy'
<1>0. /\ NodeTypeOK /\ "set_enabled" \in Services /\ "request_axis_state" \in Services
      /\ DOMAIN calls = Services
      /\ drive \in [state : DriveStates, vel : {"zero", "target"}]
  BY DEF Typed, TypeOK, NodeTypeOK, Services
<1>1. CASE Disabled
  <2> DEFINE r == [client |-> Commissioner, srv |-> "request_axis_state", arg |-> "idle"]
  <2>1. r \in RequestsTo("request_axis_state") /\ r.arg # "closed_loop"
    BY OperatorsAssumption DEF RequestsTo, Arguments
  <2>2. /\ calls'["request_axis_state"] = Append(calls["request_axis_state"], r)
        /\ drive' = drive
    BY <1>0, <1>1 DEF Disabled, Call
  <2> QED BY <2>1, <2>2, Harmless DEF Tidy, testVars
<1>2. CASE CallDisable
  BY <1>0, <1>2, TidyKept DEF CallDisable, Call
<1>3. CASE IdleAnswered \/ ParkFails
  BY <1>3, TidyKept DEF IdleAnswered, ParkFails, Leave
<1>4. CASE FibreIdle \/ Calibrated
  BY <1>0, <1>4, IdleTyped, TidyKept DEF FibreIdle, Calibrated, FibreDrive
<1>5. CASE StartCalibration
  BY <1>0, <1>5, TidyKept DEF StartCalibration, FibreDrive
<1>6. CASE Saved
  BY <1>6, TidyKept DEF Saved, FibreDrive
<1>7. CASE UNCHANGED nodeVars
  BY <1>7, TidyKept DEF nodeVars
<1>8. ASSUME CommissionStep
      PROVE  \/ Disabled \/ CallDisable \/ IdleAnswered \/ ParkFails \/ FibreIdle
             \/ Calibrated \/ StartCalibration \/ Saved \/ UNCHANGED nodeVars
  BY <1>8 DEF CommissionStep, ScriptStep, OnDrivestop, NotStopped, Stopped, BenchConfirmed,
     NotConfirmed, Parked, StartSearch, Connected, SearchFails, ConfigApplied,
     CalibrationConfirmed, PolledIdle, FibreFails, LostInSave, NothingToSave, ProcessEnds, FindAny, SearchEnds
<1> QED BY <1>1, <1>2, <1>3, <1>4, <1>5, <1>6, <1>7, <1>8

LEMMA TidyTest ==
  ASSUME Typed, Tidy, TestStep
  PROVE  Tidy'
<1> DEFINE q == calls["request_axis_state"]
<1>0. /\ NodeTypeOK /\ "set_enabled" \in Services /\ "request_axis_state" \in Services
      /\ DOMAIN calls = Services /\ vel \in {"zero", "target"}
  BY DEF Typed, TypeOK, NodeTypeOK, Services, TestTypeOK
<1> USE DEF Goto
<1>1. CASE Tick
  BY <1>0, <1>1, CommandedTyped, TidyKept DEF Tick
<1>2. ASSUME q' = q, drive' = drive
      PROVE  (AtRest(q) => AtRest(q)') /\ (IdleLast(q) => IdleLast(q'))
  BY <1>2 DEF AtRest
<1>3. CASE Cleared
  <2>1. q' = q /\ drive' = drive
    BY <1>0, <1>3 DEF Cleared, Call
  <2> QED BY <1>2, <1>3, <2>1 DEF Cleared, Tidy
<1>4. CASE Enabled
  BY <1>4 DEF Enabled, Tidy
<1>5. CASE RequestIdle
  <2>1. LastIdle \in RequestsTo("request_axis_state") /\ LastIdle.arg # "closed_loop"
    BY OperatorsAssumption DEF LastIdle, RequestsTo, Arguments
  <2>2. q' = Append(q, LastIdle) /\ drive'.state = drive.state
    BY <1>0, <1>5, CommandedTyped DEF RequestIdle, LastIdle
  <2>3. (AtRest(q) => AtRest(q)') /\ IdleLast(q')
    BY <2>1, <2>2, Harmless
  <2> QED BY <1>5, <2>3 DEF RequestIdle, Tidy
<1>6. ASSUME Leave(Tester) \/ UNCHANGED nodeVars
      PROVE  q' = q /\ drive' = drive
  BY <1>6 DEF Leave, nodeVars
<1>7. CASE OnStatus \/ WarmedUp \/ ServicesReady \/ Requested \/ Confirmed
  BY <1>2, <1>6, <1>7 DEF OnStatus, WarmedUp, ServicesReady, Requested, Confirmed, Tidy
<1>8. CASE GivesUp \/ DroppedOut \/ ContextLost
  BY <1>2, <1>6, <1>8 DEF GivesUp, DroppedOut, ContextLost, EnterCleanUp, Tidy
<1>9. CASE SkipIdle \/ CleanedUp
  BY <1>2, <1>6, <1>9 DEF SkipIdle, CleanedUp, Tidy
<1>10. CASE CtrlC \/ ContextShutsDown \/ KeyboardInterrupt \/ InterruptInCleanUp
  BY <1>2, <1>6, <1>10 DEF CtrlC, ContextShutsDown, KeyboardInterrupt, InterruptInCleanUp,
     Tidy, Setting
<1> QED BY <1>1, <1>3, <1>4, <1>5, <1>7, <1>8, <1>9, <1>10 DEF TestStep, MainStep

LEMMA TidyStep == Typed /\ Tidy /\ [Next]_vars => Tidy'
<1> SUFFICES ASSUME Typed, Tidy, [Next]_vars PROVE Tidy'
  OBVIOUS
<1>1. CASE UNCHANGED vars
  BY <1>1, TidyKept DEF vars, nodeVars
<1> QED BY <1>1, TidyNode, TidyTest, TidyCommission DEF Next

\* velocity_ramp_test.py:242, "always try to zero velocity and IDLE", holds
\* without Ctrl-C: whatever step the test gave up at and however late its
\* requests are served, the drive is out of closed loop at the end or the
\* IDLE that takes it out is still queued, behind every closed-loop request.
THEOREM LastWordTheorem == Spec => []IdleIsLastWord
<1>1. Tidy => IdleIsLastWord
  BY DEF Tidy, IdleIsLastWord, IdlePending, AtRest, IdleLast, LastIdle
<1> QED BY <1>1, TidyInit, TidyStep, TypedAlways, PTL DEF Spec
=============================================================================
