------------------------- MODULE AgentTasks_proofs -------------------------
(***************************************************************************)
(* Theorems about AgentTasks for every set of tasks and requests, every    *)
(* limit and every bound.                                                  *)
(***************************************************************************)
EXTENDS AgentTasks, LineFacts, FiniteSetTheorems

\* The tuples UNCHANGED is stated with carry no meaning of their own.
USE DEF vars, launchVars, runnerVars, loopVars, promptVars, ghostVars, boundVars

-----------------------------------------------------------------------------
(* Types.                                                                   *)

\* The table, the line and the permits keep their types.
LEMMA LaunchTypeStep ==
  ASSUME LaunchTypeOK, RunnerTypeOK, RequestsTypeOK, [Next]_vars
  PROVE  LaunchTypeOK'
<1>1. ASSUME NEW t \in Tasks,
             CreateTask(t)
      PROVE  LaunchTypeOK'
  BY <1>1, MaxConcurrentAssumption
  DEF CreateTask, LaunchTypeOK, RunnerTypeOK, RowState, Status, Terminal,
      LaunchState
<1>2. ASSUME NEW t \in Tasks,
             DropHandler(t)
      PROVE  LaunchTypeOK'
  <2>1. queue' \in Seq(Tasks)
    BY <1>2, RemoveAtType DEF DropHandler, LaunchTypeOK
  <2>2. QED
    BY <1>2, <2>1 DEF DropHandler, LaunchTypeOK, LaunchState
<1>3. ASSUME NEW t \in Tasks,
             CheckPending(t)
      PROVE  LaunchTypeOK'
  BY <1>3, MaxConcurrentAssumption, SMTT(30)
  DEF CheckPending, LaunchTypeOK, RunnerTypeOK, RowState, Status, Terminal,
      LaunchState
<1>4. ASSUME NEW t \in Tasks,
             AcquireAndSpawn(t)
      PROVE  LaunchTypeOK'
  BY <1>4, MaxConcurrentAssumption
  DEF AcquireAndSpawn, LaunchTypeOK, RunnerTypeOK, RowState, Status, Terminal,
      LaunchState
<1>5. ASSUME NEW t \in Tasks,
             Register(t)
      PROVE  LaunchTypeOK'
  BY <1>5, MaxConcurrentAssumption
  DEF Register, LaunchTypeOK, RunnerTypeOK, RowState, Status, Terminal,
      LaunchState
<1>6. ASSUME NEW t \in Tasks,
             WriteRow(t, "writeStart", "confirmStart")
      PROVE  LaunchTypeOK'
  BY <1>6, MaxConcurrentAssumption
  DEF WriteRow, Updated, LaunchTypeOK, RunnerTypeOK, RowState, Status,
      Terminal, LaunchState
<1>7. ASSUME NEW t \in Tasks,
             WriteRow(t, "writeEnd", "confirmEnd")
      PROVE  LaunchTypeOK'
  BY <1>7, MaxConcurrentAssumption
  DEF WriteRow, Updated, LaunchTypeOK, RunnerTypeOK, RowState, Status,
      Terminal, LaunchState
<1>8. ASSUME NEW t \in Tasks,
             ReleasePermit(t)
      PROVE  LaunchTypeOK'
  BY <1>8, MaxConcurrentAssumption
  DEF ReleasePermit, LaunchTypeOK, RunnerTypeOK, RowState, Status, Terminal,
      LaunchState
<1>9. ASSUME NEW c \in Clients,
             CancelWrite(c)
      PROVE  LaunchTypeOK'
  BY <1>9, MaxConcurrentAssumption
  DEF CancelWrite, Updated, RequestsTypeOK, ReqState, LaunchTypeOK,
      RunnerTypeOK, RowState, Status, Terminal, LaunchState
<1>10. ASSUME NEW c \in Clients,
              DeleteRow(c)
       PROVE  LaunchTypeOK'
  BY <1>10, MaxConcurrentAssumption
  DEF DeleteRow, RequestsTypeOK, ReqState, LaunchTypeOK, RunnerTypeOK,
      RowState, Status, Terminal, LaunchState
<1>11. ASSUME Restart
       PROVE  LaunchTypeOK'
  BY <1>11, MaxConcurrentAssumption
  DEF Restart, LaunchTypeOK, RunnerTypeOK, RowState, Status, Terminal,
      LaunchState
<1>12. ASSUME NEW t \in Tasks,
              \/ StoreError(t)
              \/ ReadRow(t, "readStart", "writeStart")
              \/ ConfirmRow(t, "confirmStart", "loop")
              \/ ReadRow(t, "readEnd", "writeEnd")
              \/ ConfirmRow(t, "confirmEnd", "unregister")
              \/ Unregister(t)
              \/ LoopHead(t)
              \/ ChatReturns(t)
              \/ ToolUse(t)
              \/ ResponseEnds(t)
              \/ RequestApproval(t)
              \/ AwaitEnds(t)
              \/ SettleApproval(t)
              \/ ExecuteTool(t)
       PROVE  LaunchTypeOK'
  <2>1. UNCHANGED <<row, launch, queue, permits>>
    BY <1>12
    DEF StoreError, ReadRow, ConfirmRow, Unregister, LoopHead, LeaveLoop,
        ChatReturns, ToolUse, ResponseEnds, RequestApproval, AwaitEnds,
        SettleApproval, ExecuteTool
  <2>2. QED
    BY <2>1
    DEF LaunchTypeOK
<1>13. ASSUME NEW p \in pending, NEW ans \in {"approve", "reject"},
              TakePrompt(p, ans)
       PROVE  LaunchTypeOK'
  <2>1. UNCHANGED <<row, launch, queue, permits>>
    BY <1>13
    DEF TakePrompt
  <2>2. QED
    BY <2>1
    DEF LaunchTypeOK
<1>14. ASSUME NEW m \in sending,
              SendAnswer(m[1], m[2])
       PROVE  LaunchTypeOK'
  <2>1. UNCHANGED <<row, launch, queue, permits>>
    BY <1>14
    DEF SendAnswer
  <2>2. QED
    BY <2>1
    DEF LaunchTypeOK
<1>15. ASSUME NEW c \in Clients, NEW u \in Tasks, NEW k \in {"cancel", "delete"},
              BeginRequest(c, u, k)
       PROVE  LaunchTypeOK'
  <2>1. UNCHANGED <<row, launch, queue, permits>>
    BY <1>15
    DEF BeginRequest
  <2>2. QED
    BY <2>1
    DEF LaunchTypeOK
<1>16. ASSUME NEW c \in Clients,
              \/ SignalHandle(c)
              \/ CheckUnregistered(c)
              \/ CancelRead(c)
       PROVE  LaunchTypeOK'
  <2>1. UNCHANGED <<row, launch, queue, permits>>
    BY <1>16
    DEF SignalHandle, CheckUnregistered, CancelRead
  <2>2. QED
    BY <2>1
    DEF LaunchTypeOK
<1>17. CASE UNCHANGED vars
  BY <1>17 DEF LaunchTypeOK
<1>18. QED
  BY <1>1, <1>2, <1>3, <1>4, <1>5, <1>6, <1>7, <1>8, <1>9, <1>10, <1>11,
     <1>12, <1>13, <1>14, <1>15, <1>16, <1>17
  DEF Next, Handler, Runner, StartTask, FinishTask, Request

\* The runners keep their types.
LEMMA RunnerTypeStep ==
  ASSUME LaunchTypeOK, RunnerTypeOK, RequestsTypeOK, [Next]_vars
  PROVE  RunnerTypeOK'
<1>1. ASSUME NEW t \in Tasks,
             StoreError(t)
      PROVE  RunnerTypeOK'
  BY <1>1
  DEF StoreError, RunnerTypeOK, LaunchTypeOK, RunState, Active, RowState,
      Status, Terminal
<1>2. ASSUME NEW t \in Tasks,
             AcquireAndSpawn(t)
      PROVE  RunnerTypeOK'
  BY <1>2
  DEF AcquireAndSpawn, RunnerTypeOK, LaunchTypeOK, RunState, Active, RowState,
      Status, Terminal
<1>3. ASSUME NEW t \in Tasks,
             Register(t)
      PROVE  RunnerTypeOK'
  BY <1>3
  DEF Register, RunnerTypeOK, LaunchTypeOK, RunState, Active, RowState,
      Status, Terminal
<1>4. ASSUME NEW t \in Tasks,
             ReadRow(t, "readStart", "writeStart")
      PROVE  RunnerTypeOK'
  BY <1>4
  DEF ReadRow, RunnerTypeOK, LaunchTypeOK, RunState, Active, RowState, Status,
      Terminal
<1>5. ASSUME NEW t \in Tasks,
             WriteRow(t, "writeStart", "confirmStart")
      PROVE  RunnerTypeOK'
  BY <1>5
  DEF WriteRow, RunnerTypeOK, LaunchTypeOK, RunState, Active, RowState,
      Status, Terminal
<1>6. ASSUME NEW t \in Tasks,
             ConfirmRow(t, "confirmStart", "loop")
      PROVE  RunnerTypeOK'
  BY <1>6
  DEF ConfirmRow, RunnerTypeOK, LaunchTypeOK, RunState, Active, RowState,
      Status, Terminal
<1>7. ASSUME NEW t \in Tasks,
             ReadRow(t, "readEnd", "writeEnd")
      PROVE  RunnerTypeOK'
  BY <1>7
  DEF ReadRow, RunnerTypeOK, LaunchTypeOK, RunState, Active, RowState, Status,
      Terminal
<1>8. ASSUME NEW t \in Tasks,
             WriteRow(t, "writeEnd", "confirmEnd")
      PROVE  RunnerTypeOK'
  BY <1>8
  DEF WriteRow, RunnerTypeOK, LaunchTypeOK, RunState, Active, RowState,
      Status, Terminal
<1>9. ASSUME NEW t \in Tasks,
             ConfirmRow(t, "confirmEnd", "unregister")
      PROVE  RunnerTypeOK'
  BY <1>9
  DEF ConfirmRow, RunnerTypeOK, LaunchTypeOK, RunState, Active, RowState,
      Status, Terminal
<1>10. ASSUME NEW t \in Tasks,
              Unregister(t)
       PROVE  RunnerTypeOK'
  BY <1>10
  DEF Unregister, RunnerTypeOK, LaunchTypeOK, RunState, Active, RowState,
      Status, Terminal
<1>11. ASSUME NEW t \in Tasks,
              ReleasePermit(t)
       PROVE  RunnerTypeOK'
  BY <1>11
  DEF ReleasePermit, RunnerTypeOK, LaunchTypeOK, RunState, Active, RowState,
      Status, Terminal
<1>12. ASSUME NEW t \in Tasks,
              LoopHead(t)
       PROVE  RunnerTypeOK'
  BY <1>12
  DEF LoopHead, LeaveLoop, RunnerTypeOK, LaunchTypeOK, RunState, Active,
      RowState, Status, Terminal
<1>13. ASSUME NEW t \in Tasks,
              ChatReturns(t)
       PROVE  RunnerTypeOK'
  BY <1>13
  DEF ChatReturns, LeaveLoop, RunnerTypeOK, LaunchTypeOK, RunState, Active,
      RowState, Status, Terminal
<1>14. ASSUME NEW t \in Tasks,
              ToolUse(t)
       PROVE  RunnerTypeOK'
  BY <1>14
  DEF ToolUse, RunnerTypeOK, LaunchTypeOK, RunState, Active, RowState, Status,
      Terminal
<1>15. ASSUME NEW t \in Tasks,
              ResponseEnds(t)
       PROVE  RunnerTypeOK'
  BY <1>15
  DEF ResponseEnds, LeaveLoop, RunnerTypeOK, LaunchTypeOK, RunState, Active,
      RowState, Status, Terminal
<1>16. ASSUME NEW t \in Tasks,
              RequestApproval(t)
       PROVE  RunnerTypeOK'
  BY <1>16
  DEF RequestApproval, RunnerTypeOK, LaunchTypeOK, RunState, Active, RowState,
      Status, Terminal
<1>17. ASSUME NEW t \in Tasks,
              AwaitEnds(t)
       PROVE  RunnerTypeOK'
  BY <1>17
  DEF AwaitEnds, RunnerTypeOK, LaunchTypeOK, RunState, Active, RowState,
      Status, Terminal
<1>18. ASSUME NEW t \in Tasks,
              SettleApproval(t)
       PROVE  RunnerTypeOK'
  BY <1>18
  DEF SettleApproval, RunnerTypeOK, LaunchTypeOK, RunState, Active, RowState,
      Status, Terminal
<1>19. ASSUME NEW t \in Tasks,
              ExecuteTool(t)
       PROVE  RunnerTypeOK'
  BY <1>19
  DEF ExecuteTool, RunnerTypeOK, LaunchTypeOK, RunState, Active, RowState,
      Status, Terminal
<1>20. ASSUME NEW c \in Clients,
              SignalHandle(c)
       PROVE  RunnerTypeOK'
  BY <1>20
  DEF SignalHandle, RequestsTypeOK, ReqState, RunnerTypeOK, LaunchTypeOK,
      RunState, Active, RowState, Status, Terminal
<1>21. ASSUME Restart
       PROVE  RunnerTypeOK'
  BY <1>21
  DEF Restart, RunnerTypeOK, LaunchTypeOK, RunState, Active, RowState, Status,
      Terminal
<1>22. ASSUME NEW t \in Tasks,
              \/ CreateTask(t)
              \/ DropHandler(t)
              \/ CheckPending(t)
       PROVE  RunnerTypeOK'
  <2>1. UNCHANGED <<run, seen, goal, lastEvent, handles, token>>
    BY <1>22
    DEF CreateTask, DropHandler, CheckPending
  <2>2. QED
    BY <2>1
    DEF RunnerTypeOK
<1>23. ASSUME NEW p \in pending, NEW ans \in {"approve", "reject"},
              TakePrompt(p, ans)
       PROVE  RunnerTypeOK'
  <2>1. UNCHANGED <<run, seen, goal, lastEvent, handles, token>>
    BY <1>23
    DEF TakePrompt
  <2>2. QED
    BY <2>1
    DEF RunnerTypeOK
<1>24. ASSUME NEW m \in sending,
              SendAnswer(m[1], m[2])
       PROVE  RunnerTypeOK'
  <2>1. UNCHANGED <<run, seen, goal, lastEvent, handles, token>>
    BY <1>24
    DEF SendAnswer
  <2>2. QED
    BY <2>1
    DEF RunnerTypeOK
<1>25. ASSUME NEW c \in Clients, NEW u \in Tasks, NEW k \in {"cancel", "delete"},
              BeginRequest(c, u, k)
       PROVE  RunnerTypeOK'
  <2>1. UNCHANGED <<run, seen, goal, lastEvent, handles, token>>
    BY <1>25
    DEF BeginRequest
  <2>2. QED
    BY <2>1
    DEF RunnerTypeOK
<1>26. ASSUME NEW c \in Clients,
              \/ CheckUnregistered(c)
              \/ CancelRead(c)
              \/ CancelWrite(c)
              \/ DeleteRow(c)
       PROVE  RunnerTypeOK'
  <2>1. UNCHANGED <<run, seen, goal, lastEvent, handles, token>>
    BY <1>26
    DEF CheckUnregistered, CancelRead, CancelWrite, DeleteRow
  <2>2. QED
    BY <2>1
    DEF RunnerTypeOK
<1>27. CASE UNCHANGED vars
  BY <1>27 DEF RunnerTypeOK
<1>28. QED
  BY <1>1, <1>2, <1>3, <1>4, <1>5, <1>6, <1>7, <1>8, <1>9, <1>10, <1>11,
     <1>12, <1>13, <1>14, <1>15, <1>16, <1>17, <1>18, <1>19, <1>20, <1>21,
     <1>22, <1>23, <1>24, <1>25, <1>26, <1>27
  DEF Next, Handler, Runner, StartTask, FinishTask, Request

\* The counters keep their types.
LEMMA CountersTypeStep ==
  ASSUME CountersTypeOK, [Next]_vars
  PROVE  CountersTypeOK'
<1>1. ASSUME NEW t \in Tasks,
             StoreError(t)
      PROVE  CountersTypeOK'
  BY <1>1
  DEF StoreError, CountersTypeOK
<1>2. ASSUME NEW t \in Tasks,
             LoopHead(t)
      PROVE  CountersTypeOK'
  BY <1>2
  DEF LoopHead, LeaveLoop, CountersTypeOK
<1>3. ASSUME NEW t \in Tasks,
             ChatReturns(t)
      PROVE  CountersTypeOK'
  BY <1>3
  DEF ChatReturns, LeaveLoop, CountersTypeOK
<1>4. ASSUME NEW t \in Tasks,
             ToolUse(t)
      PROVE  CountersTypeOK'
  BY <1>4
  DEF ToolUse, CountersTypeOK
<1>5. ASSUME NEW t \in Tasks,
             RequestApproval(t)
      PROVE  CountersTypeOK'
  BY <1>5
  DEF RequestApproval, CountersTypeOK
<1>6. ASSUME Restart
      PROVE  CountersTypeOK'
  BY <1>6
  DEF Restart, CountersTypeOK
<1>7. ASSUME NEW t \in Tasks,
             \/ CreateTask(t)
             \/ DropHandler(t)
             \/ CheckPending(t)
             \/ AcquireAndSpawn(t)
             \/ Register(t)
             \/ ReadRow(t, "readStart", "writeStart")
             \/ WriteRow(t, "writeStart", "confirmStart")
             \/ ConfirmRow(t, "confirmStart", "loop")
             \/ ReadRow(t, "readEnd", "writeEnd")
             \/ WriteRow(t, "writeEnd", "confirmEnd")
             \/ ConfirmRow(t, "confirmEnd", "unregister")
             \/ Unregister(t)
             \/ ReleasePermit(t)
             \/ ResponseEnds(t)
             \/ AwaitEnds(t)
             \/ SettleApproval(t)
             \/ ExecuteTool(t)
      PROVE  CountersTypeOK'
  <2>1. UNCHANGED <<iter, blocks, prompts, restarts, storeErrors>>
    BY <1>7
    DEF CreateTask, DropHandler, CheckPending, AcquireAndSpawn, Register,
        ReadRow, WriteRow, ConfirmRow, Unregister, ReleasePermit,
        ResponseEnds, LeaveLoop, AwaitEnds, SettleApproval, ExecuteTool
  <2>2. QED
    BY <2>1
    DEF CountersTypeOK
<1>8. ASSUME NEW p \in pending, NEW ans \in {"approve", "reject"},
             TakePrompt(p, ans)
      PROVE  CountersTypeOK'
  <2>1. UNCHANGED <<iter, blocks, prompts, restarts, storeErrors>>
    BY <1>8
    DEF TakePrompt
  <2>2. QED
    BY <2>1
    DEF CountersTypeOK
<1>9. ASSUME NEW m \in sending,
             SendAnswer(m[1], m[2])
      PROVE  CountersTypeOK'
  <2>1. UNCHANGED <<iter, blocks, prompts, restarts, storeErrors>>
    BY <1>9
    DEF SendAnswer
  <2>2. QED
    BY <2>1
    DEF CountersTypeOK
<1>10. ASSUME NEW c \in Clients, NEW u \in Tasks, NEW k \in {"cancel", "delete"},
              BeginRequest(c, u, k)
       PROVE  CountersTypeOK'
  <2>1. UNCHANGED <<iter, blocks, prompts, restarts, storeErrors>>
    BY <1>10
    DEF BeginRequest
  <2>2. QED
    BY <2>1
    DEF CountersTypeOK
<1>11. ASSUME NEW c \in Clients,
              \/ SignalHandle(c)
              \/ CheckUnregistered(c)
              \/ CancelRead(c)
              \/ CancelWrite(c)
              \/ DeleteRow(c)
       PROVE  CountersTypeOK'
  <2>1. UNCHANGED <<iter, blocks, prompts, restarts, storeErrors>>
    BY <1>11
    DEF SignalHandle, CheckUnregistered, CancelRead, CancelWrite, DeleteRow
  <2>2. QED
    BY <2>1
    DEF CountersTypeOK
<1>12. CASE UNCHANGED vars
  BY <1>12 DEF CountersTypeOK
<1>13. QED
  BY <1>1, <1>2, <1>3, <1>4, <1>5, <1>6, <1>7, <1>8, <1>9, <1>10, <1>11, <1>12
  DEF Next, Handler, Runner, StartTask, FinishTask, Request

\* The prompts keep their types.
LEMMA PromptsTypeStep ==
  ASSUME PromptsTypeOK, CountersTypeOK, [Next]_vars
  PROVE  PromptsTypeOK'
<1>1. ASSUME NEW t \in Tasks,
             RequestApproval(t)
      PROVE  PromptsTypeOK'
  BY <1>1
  DEF RequestApproval, PromptsTypeOK, CountersTypeOK, PromptId
<1>2. ASSUME NEW t \in Tasks,
             AwaitEnds(t)
      PROVE  PromptsTypeOK'
  BY <1>2
  DEF AwaitEnds, PromptsTypeOK, CountersTypeOK, PromptId
<1>3. ASSUME NEW t \in Tasks,
             SettleApproval(t)
      PROVE  PromptsTypeOK'
  BY <1>3
  DEF SettleApproval, PromptsTypeOK, CountersTypeOK, PromptId
<1>4. ASSUME NEW t \in Tasks,
             ExecuteTool(t)
      PROVE  PromptsTypeOK'
  BY <1>4
  DEF ExecuteTool, Prompt, PromptsTypeOK, CountersTypeOK, PromptId
<1>5. ASSUME NEW p \in pending, NEW ans \in {"approve", "reject"},
             TakePrompt(p, ans)
      PROVE  PromptsTypeOK'
  BY <1>5
  DEF TakePrompt, PromptsTypeOK, CountersTypeOK, PromptId
<1>6. ASSUME NEW m \in sending,
             SendAnswer(m[1], m[2])
      PROVE  PromptsTypeOK'
  BY <1>6
  DEF SendAnswer, PromptsTypeOK, CountersTypeOK, PromptId
<1>7. ASSUME Restart
      PROVE  PromptsTypeOK'
  BY <1>7
  DEF Restart, PromptsTypeOK, CountersTypeOK, PromptId
<1>8. ASSUME NEW t \in Tasks,
             \/ CreateTask(t)
             \/ DropHandler(t)
             \/ StoreError(t)
             \/ CheckPending(t)
             \/ AcquireAndSpawn(t)
             \/ Register(t)
             \/ ReadRow(t, "readStart", "writeStart")
             \/ WriteRow(t, "writeStart", "confirmStart")
             \/ ConfirmRow(t, "confirmStart", "loop")
             \/ ReadRow(t, "readEnd", "writeEnd")
             \/ WriteRow(t, "writeEnd", "confirmEnd")
             \/ ConfirmRow(t, "confirmEnd", "unregister")
             \/ Unregister(t)
             \/ ReleasePermit(t)
             \/ LoopHead(t)
             \/ ChatReturns(t)
             \/ ToolUse(t)
             \/ ResponseEnds(t)
      PROVE  PromptsTypeOK'
  <2>1. UNCHANGED <<pending, sending, answer, executed, granted>>
    BY <1>8
    DEF CreateTask, DropHandler, StoreError, CheckPending, AcquireAndSpawn,
        Register, ReadRow, WriteRow, ConfirmRow, Unregister, ReleasePermit,
        LoopHead, LeaveLoop, ChatReturns, ToolUse, ResponseEnds
  <2>2. QED
    BY <2>1
    DEF PromptsTypeOK
<1>9. ASSUME NEW c \in Clients, NEW u \in Tasks, NEW k \in {"cancel", "delete"},
             BeginRequest(c, u, k)
      PROVE  PromptsTypeOK'
  <2>1. UNCHANGED <<pending, sending, answer, executed, granted>>
    BY <1>9
    DEF BeginRequest
  <2>2. QED
    BY <2>1
    DEF PromptsTypeOK
<1>10. ASSUME NEW c \in Clients,
              \/ SignalHandle(c)
              \/ CheckUnregistered(c)
              \/ CancelRead(c)
              \/ CancelWrite(c)
              \/ DeleteRow(c)
       PROVE  PromptsTypeOK'
  <2>1. UNCHANGED <<pending, sending, answer, executed, granted>>
    BY <1>10
    DEF SignalHandle, CheckUnregistered, CancelRead, CancelWrite, DeleteRow
  <2>2. QED
    BY <2>1
    DEF PromptsTypeOK
<1>11. CASE UNCHANGED vars
  BY <1>11 DEF PromptsTypeOK
<1>12. QED
  BY <1>1, <1>2, <1>3, <1>4, <1>5, <1>6, <1>7, <1>8, <1>9, <1>10, <1>11
  DEF Next, Handler, Runner, StartTask, FinishTask, Request

\* The requests keep their types.
LEMMA RequestsTypeStep ==
  ASSUME RequestsTypeOK, [Next]_vars
  PROVE  RequestsTypeOK'
<1>1. ASSUME NEW c \in Clients, NEW u \in Tasks, NEW k \in {"cancel", "delete"},
             BeginRequest(c, u, k)
      PROVE  RequestsTypeOK'
  BY <1>1
  DEF BeginRequest, RequestsTypeOK, ReqState, IdleReq
<1>2. ASSUME NEW c \in Clients,
             SignalHandle(c)
      PROVE  RequestsTypeOK'
  BY <1>2
  DEF SignalHandle, Returned, RequestsTypeOK, ReqState, IdleReq
<1>3. ASSUME NEW c \in Clients,
             CheckUnregistered(c)
      PROVE  RequestsTypeOK'
  BY <1>3
  DEF CheckUnregistered, Returned, RequestsTypeOK, ReqState, IdleReq
<1>4. ASSUME NEW c \in Clients,
             CancelRead(c)
      PROVE  RequestsTypeOK'
  BY <1>4
  DEF CancelRead, Returned, RequestsTypeOK, ReqState, IdleReq
<1>5. ASSUME NEW c \in Clients,
             CancelWrite(c)
      PROVE  RequestsTypeOK'
  BY <1>5
  DEF CancelWrite, Returned, RequestsTypeOK, ReqState, IdleReq
<1>6. ASSUME NEW c \in Clients,
             DeleteRow(c)
      PROVE  RequestsTypeOK'
  BY <1>6
  DEF DeleteRow, RequestsTypeOK, ReqState, IdleReq
<1>7. ASSUME Restart
      PROVE  RequestsTypeOK'
  BY <1>7
  DEF Restart, RequestsTypeOK, ReqState, IdleReq
<1>8. ASSUME NEW t \in Tasks,
             \/ CreateTask(t)
             \/ DropHandler(t)
             \/ StoreError(t)
             \/ CheckPending(t)
             \/ AcquireAndSpawn(t)
             \/ Register(t)
             \/ ReadRow(t, "readStart", "writeStart")
             \/ WriteRow(t, "writeStart", "confirmStart")
             \/ ConfirmRow(t, "confirmStart", "loop")
             \/ ReadRow(t, "readEnd", "writeEnd")
             \/ WriteRow(t, "writeEnd", "confirmEnd")
             \/ ConfirmRow(t, "confirmEnd", "unregister")
             \/ Unregister(t)
             \/ ReleasePermit(t)
             \/ LoopHead(t)
             \/ ChatReturns(t)
             \/ ToolUse(t)
             \/ ResponseEnds(t)
             \/ RequestApproval(t)
             \/ AwaitEnds(t)
             \/ SettleApproval(t)
             \/ ExecuteTool(t)
      PROVE  RequestsTypeOK'
  <2>1. UNCHANGED <<req>>
    BY <1>8
    DEF CreateTask, DropHandler, StoreError, CheckPending, AcquireAndSpawn,
        Register, ReadRow, WriteRow, ConfirmRow, Unregister, ReleasePermit,
        LoopHead, LeaveLoop, ChatReturns, ToolUse, ResponseEnds,
        RequestApproval, AwaitEnds, SettleApproval, ExecuteTool
  <2>2. QED
    BY <2>1
    DEF RequestsTypeOK
<1>9. ASSUME NEW p \in pending, NEW ans \in {"approve", "reject"},
             TakePrompt(p, ans)
      PROVE  RequestsTypeOK'
  <2>1. UNCHANGED <<req>>
    BY <1>9
    DEF TakePrompt
  <2>2. QED
    BY <2>1
    DEF RequestsTypeOK
<1>10. ASSUME NEW m \in sending,
              SendAnswer(m[1], m[2])
       PROVE  RequestsTypeOK'
  <2>1. UNCHANGED <<req>>
    BY <1>10
    DEF SendAnswer
  <2>2. QED
    BY <2>1
    DEF RequestsTypeOK
<1>11. CASE UNCHANGED vars
  BY <1>11 DEF RequestsTypeOK
<1>12. QED
  BY <1>1, <1>2, <1>3, <1>4, <1>5, <1>6, <1>7, <1>8, <1>9, <1>10, <1>11
  DEF Next, Handler, Runner, StartTask, FinishTask, Request

\* Type correctness: every variable of AgentTasks stays in the set TypeOK names
\* for it, in particular permits never becomes negative.
THEOREM TypeCorrect == Spec => []TypeOK
<1>1. Init => TypeOK
  BY MaxConcurrentAssumption
  DEF Init, TypeOK, LaunchTypeOK, RunnerTypeOK, CountersTypeOK, PromptsTypeOK,
      RequestsTypeOK, RowState, Status, Terminal, LaunchState, RunState, Active,
      ReqState, IdleReq
<1>2. TypeOK /\ [Next]_vars => TypeOK'
  BY LaunchTypeStep, RunnerTypeStep, CountersTypeStep, PromptsTypeStep,
     RequestsTypeStep DEF TypeOK
<1>3. QED
  BY <1>1, <1>2, PTL DEF Spec

-----------------------------------------------------------------------------
(* Admission: permits, the line, and the gate they implement.               *)

\* Requests name tasks that exist or existed.
RequestsKnown ==
  \A c \in Clients : req[c].pc # "idle" => row[req[c].task] # "none"

\* A task is created, launched and run once, in that order: until its handler
\* leaves the line it has no runner.
LaunchedOnce ==
  \A t \in Tasks :
    /\ row[t] = "none" => launch[t] = "idle"
    /\ launch[t] \in {"idle", "check", "queued"} => run[t] = "off"

AdmissionInv ==
  RequestsKnown /\ LaunchedOnce /\ IsFiniteSet(Inside) /\ PermitsConserved

AllTypes == LaunchTypeOK /\ RunnerTypeOK /\ RequestsTypeOK

\* While a runner works, and until it gives its permit back, admission does not
\* see it.
LEMMA RunnerStaysInside ==
  ASSUME AllTypes, NEW t \in Tasks,
         \/ ReadRow(t, "readStart", "writeStart")
         \/ WriteRow(t, "writeStart", "confirmStart")
         \/ ConfirmRow(t, "confirmStart", "loop")
         \/ ReadRow(t, "readEnd", "writeEnd")
         \/ WriteRow(t, "writeEnd", "confirmEnd")
         \/ ConfirmRow(t, "confirmEnd", "unregister")
         \/ Unregister(t)
         \/ LoopHead(t)
         \/ ChatReturns(t)
         \/ ToolUse(t)
         \/ ResponseEnds(t)
         \/ RequestApproval(t)
         \/ AwaitEnds(t)
         \/ SettleApproval(t)
         \/ ExecuteTool(t)
         \/ StoreError(t)
  PROVE  /\ UNCHANGED <<launchVars, req>>
         /\ Inside' = Inside
         /\ \A u \in Tasks : run'[u] = "off" <=> run[u] = "off"
         /\ \A u \in Tasks : row'[u] = "none" <=> row[u] = "none"
<1> USE DEF AllTypes, RunnerTypeOK, RunState, Active, Inside
<1>1. CASE ReadRow(t, "readStart", "writeStart")
  BY <1>1 DEF ReadRow
<1>2. CASE WriteRow(t, "writeStart", "confirmStart")
  BY <1>2 DEF WriteRow, Updated, Status, Terminal, LaunchTypeOK, RowState
<1>3. CASE ConfirmRow(t, "confirmStart", "loop")
  BY <1>3 DEF ConfirmRow
<1>4. CASE ReadRow(t, "readEnd", "writeEnd")
  BY <1>4 DEF ReadRow
<1>5. CASE WriteRow(t, "writeEnd", "confirmEnd")
  BY <1>5 DEF WriteRow, Updated, Status, Terminal, LaunchTypeOK, RowState
<1>6. CASE ConfirmRow(t, "confirmEnd", "unregister")
  BY <1>6 DEF ConfirmRow
<1>7. CASE Unregister(t)
  BY <1>7 DEF Unregister
<1>8. CASE LoopHead(t)
  BY <1>8 DEF LoopHead, LeaveLoop
<1>9. CASE ChatReturns(t)
  BY <1>9 DEF ChatReturns, LeaveLoop
<1>10. CASE ToolUse(t)
  BY <1>10 DEF ToolUse
<1>11. CASE ResponseEnds(t)
  BY <1>11 DEF ResponseEnds, LeaveLoop
<1>12. CASE RequestApproval(t)
  BY <1>12 DEF RequestApproval
<1>13. CASE AwaitEnds(t)
  BY <1>13 DEF AwaitEnds
<1>14. CASE SettleApproval(t)
  BY <1>14 DEF SettleApproval
<1>15. CASE ExecuteTool(t)
  BY <1>15 DEF ExecuteTool
<1>16. CASE StoreError(t)
  BY <1>16 DEF StoreError, StoreStep
<1>17. QED
  BY <1>1, <1>2, <1>3, <1>4, <1>5, <1>6, <1>7, <1>8, <1>9, <1>10, <1>11,
     <1>12, <1>13, <1>14, <1>15, <1>16

\* A request that returned is over or goes on with the same task.
LEMMA ReturnedKeepsTask ==
  ASSUME RequestsTypeOK, NEW d \in Clients
  PROVE  Returned(d).pc = "idle" \/ Returned(d).task = req[d].task
BY DEF Returned, IdleReq, RequestsTypeOK

\* Users neither take nor return a permit.
LEMMA UsersStayOutside ==
  ASSUME AllTypes, RequestsKnown,
         \/ \E p \in pending, ans \in {"approve", "reject"} : TakePrompt(p, ans)
         \/ \E m \in sending : SendAnswer(m[1], m[2])
         \/ \E d \in Clients : Request(d)
         \/ UNCHANGED vars
  PROVE  /\ UNCHANGED <<launchVars, run>>
         /\ Inside' = Inside
         /\ \A u \in Tasks : row'[u] = "none" <=> row[u] = "none"
         /\ RequestsKnown'
<1> DEFINE Goal == /\ UNCHANGED <<launchVars, run>>
                   /\ Inside' = Inside
                   /\ \A u \in Tasks : row'[u] = "none" <=> row[u] = "none"
                   /\ RequestsKnown'
<1>1. ASSUME NEW p \in pending, NEW ans \in {"approve", "reject"}, TakePrompt(p, ans)
      PROVE  Goal
  BY <1>1 DEF TakePrompt, Inside, RequestsKnown
<1>2. ASSUME NEW m \in sending, SendAnswer(m[1], m[2])
      PROVE  Goal
  BY <1>2 DEF SendAnswer, Inside, RequestsKnown
<1>3. ASSUME NEW d \in Clients, NEW t \in Tasks, NEW kind \in {"cancel", "delete"},
             BeginRequest(d, t, kind)
      PROVE  Goal
  BY <1>3 DEF BeginRequest, Inside, RequestsKnown, AllTypes, RequestsTypeOK
<1>4. ASSUME NEW d \in Clients,
             SignalHandle(d) \/ CheckUnregistered(d) \/ CancelRead(d)
      PROVE  Goal
  <2>1. UNCHANGED <<row, launchVars, run>> /\ Inside' = Inside
    BY <1>4 DEF SignalHandle, CheckUnregistered, CancelRead, Inside
  <2>2. req[d].pc # "idle"
    BY <1>4 DEF SignalHandle, CheckUnregistered, CancelRead
  <2>3. \A e \in Clients : \/ req'[e].pc = "idle"
                           \/ req'[e] = req[e]
                           \/ e = d /\ req'[e].task = req[d].task
    <3>1. CASE SignalHandle(d)
      BY <3>1, ReturnedKeepsTask DEF SignalHandle, AllTypes, RequestsTypeOK
    <3>2. CASE CheckUnregistered(d)
      BY <3>2, ReturnedKeepsTask DEF CheckUnregistered, AllTypes, RequestsTypeOK
    <3>3. CASE CancelRead(d)
      BY <3>3, ReturnedKeepsTask DEF CancelRead, AllTypes, RequestsTypeOK
    <3>4. QED
      BY <1>4, <3>1, <3>2, <3>3
  <2>4. QED
    BY <2>1, <2>2, <2>3 DEF RequestsKnown
<1>5. ASSUME NEW d \in Clients, CancelWrite(d) \/ DeleteRow(d)
      PROVE  Goal
  <2>1. req[d].pc # "idle" /\ req[d].task \in Tasks
    BY <1>5 DEF CancelWrite, DeleteRow, AllTypes, RequestsTypeOK
  <2>2. row[req[d].task] # "none"
    BY <2>1 DEF RequestsKnown
  <2>3. \A u \in Tasks : row'[u] = "none" <=> row[u] = "none"
    BY <1>5, <2>1, <2>2 DEF CancelWrite, DeleteRow, Updated, Status, Terminal,
                            AllTypes, LaunchTypeOK
  <2>4. \A e \in Clients : \/ req'[e].pc = "idle"
                           \/ req'[e] = req[e]
                           \/ e = d /\ req'[e].task = req[d].task
    <3>1. CASE CancelWrite(d)
      BY <3>1, ReturnedKeepsTask DEF CancelWrite, AllTypes, RequestsTypeOK
    <3>2. CASE DeleteRow(d)
      BY <3>2 DEF DeleteRow, IdleReq, AllTypes, RequestsTypeOK
    <3>3. QED
      BY <1>5, <3>1, <3>2
  <2>5. UNCHANGED <<launchVars, run>> /\ Inside' = Inside
    BY <1>5 DEF CancelWrite, DeleteRow, Inside
  <2>6. \A e \in Clients : req[e].pc # "idle" => req[e].task \in Tasks
    BY DEF AllTypes, RequestsTypeOK
  <2>7. RequestsKnown'
    BY <2>1, <2>2, <2>3, <2>4, <2>6 DEF RequestsKnown
  <2>8. QED
    BY <2>3, <2>5, <2>7
<1>6. CASE UNCHANGED vars
  BY <1>6 DEF Inside, RequestsKnown
<1>7. QED
  BY <1>1, <1>2, <1>3, <1>4, <1>5, <1>6 DEF Request

\* The steps of the handler that launches a task.
LEMMA HandlerSteps ==
  ASSUME AllTypes, AdmissionInv, NEW t \in Tasks,
         CreateTask(t) \/ DropHandler(t) \/ CheckPending(t) \/ Register(t)
  PROVE  AdmissionInv'
<1>1. UNCHANGED <<permits, run, req>> /\ Inside' = Inside
  BY DEF CreateTask, DropHandler, CheckPending, Register, Inside
<1>2. LaunchedOnce'
  BY DEF CreateTask, DropHandler, CheckPending, Register, LaunchedOnce,
         AdmissionInv, AllTypes, LaunchTypeOK
<1>3. \A u \in Tasks : row[u] # "none" => row'[u] # "none"
  BY DEF CreateTask, DropHandler, CheckPending, Register, AllTypes, LaunchTypeOK
<1>4. RequestsKnown'
  BY <1>1, <1>3 DEF RequestsKnown, AdmissionInv, AllTypes, RequestsTypeOK
<1>5. QED
  BY <1>1, <1>2, <1>4 DEF AdmissionInv, PermitsConserved

\* Acquiring and spawning adds one task to those inside and takes one permit.
LEMMA SpawnStep ==
  ASSUME AllTypes, AdmissionInv, NEW t \in Tasks, AcquireAndSpawn(t)
  PROVE  /\ t \notin Inside /\ Inside' = Inside \cup {t}
         /\ AdmissionInv'
<1>1. t \notin Inside /\ Inside' = Inside \cup {t}
  BY DEF AcquireAndSpawn, AdmissionInv, LaunchedOnce, Inside, Active, AllTypes,
         RunnerTypeOK
<1>2. IsFiniteSet(Inside') /\ Cardinality(Inside') = Cardinality(Inside) + 1
  BY <1>1, FS_AddElement DEF AdmissionInv
<1>3. Cardinality(Inside) \in Nat
  BY FS_CardinalityType DEF AdmissionInv
<1>4. PermitsConserved'
  BY <1>2, <1>3, MaxConcurrentAssumption
  DEF AcquireAndSpawn, PermitsConserved, AdmissionInv, AllTypes, LaunchTypeOK
<1>5. LaunchedOnce' /\ RequestsKnown'
  BY DEF AcquireAndSpawn, LaunchedOnce, RequestsKnown, AdmissionInv, AllTypes,
         LaunchTypeOK, RunnerTypeOK
<1>6. QED
  BY <1>1, <1>2, <1>4, <1>5 DEF AdmissionInv

\* A runner that gives its permit back leaves those inside and frees one permit.
LEMMA ReleaseStep ==
  ASSUME AllTypes, AdmissionInv, NEW t \in Tasks, ReleasePermit(t)
  PROVE  /\ t \in Inside /\ Inside' = Inside \ {t}
         /\ AdmissionInv'
<1>1. t \in Inside /\ Inside' = Inside \ {t}
  BY DEF ReleasePermit, Inside, Active, AllTypes, RunnerTypeOK
<1>2. IsFiniteSet(Inside') /\ Cardinality(Inside') = Cardinality(Inside) - 1
  BY <1>1, FS_RemoveElement DEF AdmissionInv
<1>3. Cardinality(Inside) \in Nat
  BY FS_CardinalityType DEF AdmissionInv
<1>4. PermitsConserved'
  BY <1>2, <1>3, MaxConcurrentAssumption
  DEF ReleasePermit, PermitsConserved, AdmissionInv, AllTypes, LaunchTypeOK
<1>5. LaunchedOnce' /\ RequestsKnown'
  BY DEF ReleasePermit, LaunchedOnce, RequestsKnown, AdmissionInv, AllTypes,
         LaunchTypeOK, RunnerTypeOK
<1>6. QED
  BY <1>1, <1>2, <1>4, <1>5 DEF AdmissionInv

\* After a restart nothing is inside and every permit is free.
LEMMA RestartStep ==
  ASSUME AllTypes, AdmissionInv, Restart
  PROVE  Inside' = {} /\ AdmissionInv'
<1>1. Inside' = {}
  BY DEF Restart, Inside, Active
<1>2. IsFiniteSet(Inside') /\ Cardinality(Inside') = 0
  BY <1>1, FS_EmptySet
<1>3. PermitsConserved'
  BY <1>2, MaxConcurrentAssumption DEF Restart, PermitsConserved
<1>4. LaunchedOnce' /\ RequestsKnown'
  BY DEF Restart, LaunchedOnce, RequestsKnown, AdmissionInv, IdleReq
<1>5. QED
  BY <1>1, <1>2, <1>3, <1>4 DEF AdmissionInv

\* The inductive invariant of admission.
LEMMA AdmissionInvariant == Spec => []AdmissionInv
<1>1. Init => AdmissionInv
  <2> SUFFICES ASSUME Init
               PROVE  AdmissionInv
    OBVIOUS
  <2>1. Inside = {}
    BY DEF Init, Inside, Active
  <2>2. IsFiniteSet(Inside) /\ Cardinality(Inside) = 0
    BY <2>1, FS_EmptySet
  <2>3. LaunchedOnce /\ RequestsKnown
    BY DEF Init, LaunchedOnce, RequestsKnown, IdleReq
  <2>4. QED
    BY <2>2, <2>3, MaxConcurrentAssumption DEF Init, AdmissionInv, PermitsConserved
<1>2. TypeOK /\ AdmissionInv /\ [Next]_vars => AdmissionInv'
  <2> SUFFICES ASSUME AllTypes, AdmissionInv, [Next]_vars
               PROVE  AdmissionInv'
    BY DEF TypeOK, AllTypes
  <2>1. ASSUME NEW t \in Tasks,
               \/ ReadRow(t, "readStart", "writeStart")
               \/ WriteRow(t, "writeStart", "confirmStart")
               \/ ConfirmRow(t, "confirmStart", "loop")
               \/ ReadRow(t, "readEnd", "writeEnd")
               \/ WriteRow(t, "writeEnd", "confirmEnd")
               \/ ConfirmRow(t, "confirmEnd", "unregister")
               \/ Unregister(t)
               \/ LoopHead(t)
               \/ ChatReturns(t)
               \/ ToolUse(t)
               \/ ResponseEnds(t)
               \/ RequestApproval(t)
               \/ AwaitEnds(t)
               \/ SettleApproval(t)
               \/ ExecuteTool(t)
               \/ StoreError(t)
        PROVE  AdmissionInv'
    <3>1. /\ UNCHANGED <<launchVars, req>>
          /\ Inside' = Inside
          /\ \A u \in Tasks : run'[u] = "off" <=> run[u] = "off"
          /\ \A u \in Tasks : row'[u] = "none" <=> row[u] = "none"
      BY <2>1, RunnerStaysInside
    <3>2. LaunchedOnce' /\ RequestsKnown'
      BY <3>1 DEF LaunchedOnce, RequestsKnown, AdmissionInv, AllTypes, RequestsTypeOK
    <3>3. QED
      BY <3>1, <3>2 DEF AdmissionInv, PermitsConserved
  <2>2. CASE \/ \E p \in pending, ans \in {"approve", "reject"} : TakePrompt(p, ans)
             \/ \E m \in sending : SendAnswer(m[1], m[2])
             \/ \E d \in Clients : Request(d)
             \/ UNCHANGED vars
    <3>1. /\ UNCHANGED <<launchVars, run>>
          /\ Inside' = Inside
          /\ \A u \in Tasks : row'[u] = "none" <=> row[u] = "none"
          /\ RequestsKnown'
      BY <2>2, UsersStayOutside DEF AdmissionInv
    <3>2. QED
      BY <3>1 DEF AdmissionInv, PermitsConserved, LaunchedOnce
  <2>3. ASSUME NEW t \in Tasks,
               CreateTask(t) \/ DropHandler(t) \/ CheckPending(t) \/ Register(t)
        PROVE  AdmissionInv'
    BY <2>3, HandlerSteps
  <2>4. ASSUME NEW t \in Tasks, AcquireAndSpawn(t)
        PROVE  AdmissionInv'
    BY <2>4, SpawnStep
  <2>5. ASSUME NEW t \in Tasks, ReleasePermit(t)
        PROVE  AdmissionInv'
    BY <2>5, ReleaseStep
  <2>6. CASE Restart
    BY <2>6, RestartStep
  <2>7. QED
    BY <2>1, <2>2, <2>3, <2>4, <2>5, <2>6
    DEF Next, Handler, Runner, StartTask, FinishTask
<1>3. QED
  BY <1>1, <1>2, TypeCorrect, PTL DEF Spec

\* Permits are conserved: however runners end, and through cancellations,
\* deletions, database errors, disconnects and restarts, the free permits and
\* the live runners add up to MaxConcurrent.
THEOREM PermitsAreConserved == Spec => []PermitsConserved
<1>1. AdmissionInv => PermitsConserved
  BY DEF AdmissionInv
<1>2. QED
  BY <1>1, AdmissionInvariant, PTL

\* Tasks pass the gate in order, at most MaxConcurrent at a time and each at most
\* once: every step of AgentTasks is a step of TaskGate or leaves it alone.
THEOREM GateIsImplemented == Spec => ImplementsGate
<1>1. Init => Gate!GateInit
  BY DEF Init, Gate!GateInit, Inside, Active
<1>2. TypeOK /\ AdmissionInv /\ [Next]_vars => [Gate!GateNext]_(Gate!gateVars)
  <2> SUFFICES ASSUME AllTypes, AdmissionInv, [Next]_vars
               PROVE  Gate!GateNext \/ UNCHANGED Gate!gateVars
    BY DEF TypeOK, AllTypes
  <2>1. ASSUME NEW t \in Tasks,
               \/ ReadRow(t, "readStart", "writeStart")
               \/ WriteRow(t, "writeStart", "confirmStart")
               \/ ConfirmRow(t, "confirmStart", "loop")
               \/ ReadRow(t, "readEnd", "writeEnd")
               \/ WriteRow(t, "writeEnd", "confirmEnd")
               \/ ConfirmRow(t, "confirmEnd", "unregister")
               \/ Unregister(t)
               \/ LoopHead(t)
               \/ ChatReturns(t)
               \/ ToolUse(t)
               \/ ResponseEnds(t)
               \/ RequestApproval(t)
               \/ AwaitEnds(t)
               \/ SettleApproval(t)
               \/ ExecuteTool(t)
               \/ StoreError(t)
        PROVE  UNCHANGED Gate!gateVars
    <3>1. /\ UNCHANGED launchVars /\ Inside' = Inside
          /\ \A u \in Tasks : run'[u] = "off" <=> run[u] = "off"
      BY <2>1, RunnerStaysInside
    <3>2. QED
      BY <3>1 DEF Gate!gateVars
  <2>2. CASE \/ \E p \in pending, ans \in {"approve", "reject"} : TakePrompt(p, ans)
             \/ \E m \in sending : SendAnswer(m[1], m[2])
             \/ \E d \in Clients : Request(d)
             \/ UNCHANGED vars
    <3>1. UNCHANGED <<launchVars, run>> /\ Inside' = Inside
      BY <2>2, UsersStayOutside DEF AdmissionInv
    <3>2. QED
      BY <3>1 DEF Gate!gateVars
  <2>3. ASSUME NEW t \in Tasks, CreateTask(t) \/ Register(t)
        PROVE  UNCHANGED Gate!gateVars
    BY <2>3 DEF CreateTask, Register, Inside, Gate!gateVars
  <2>4. ASSUME NEW t \in Tasks, CheckPending(t)
        PROVE  Gate!Join(t) \/ UNCHANGED Gate!gateVars
    BY <2>4 DEF CheckPending, Inside, AdmissionInv, LaunchedOnce, Gate!Join,
                Gate!gateVars
  <2>5. ASSUME NEW t \in Tasks, DropHandler(t)
        PROVE  Gate!Abandon(t) \/ UNCHANGED Gate!gateVars
    <3>1. UNCHANGED <<Inside, {u \in Tasks : run[u] # "off"}>>
      BY <2>5 DEF DropHandler, Inside, runnerVars
    <3>2. QED
      BY <2>5, <3>1 DEF DropHandler, Gate!Abandon, Gate!gateVars, RemoveAt, Gate!RemoveAt
  <2>6. ASSUME NEW t \in Tasks, AcquireAndSpawn(t)
        PROVE  Gate!Enter(t)
    <3>1. run[t] = "off"
      BY <2>6 DEF AcquireAndSpawn, AdmissionInv, LaunchedOnce
    <3>2. Inside' = Inside \cup {t}
      BY <2>6, SpawnStep
    <3>3. {u \in Tasks : run'[u] # "off"} = {u \in Tasks : run[u] # "off"} \cup {t}
      BY <2>6 DEF AcquireAndSpawn, AllTypes, RunnerTypeOK
    <3>4. Cardinality(Inside) < MaxConcurrent
      <4>1. Cardinality(Inside) \in Nat
        BY FS_CardinalityType DEF AdmissionInv
      <4>2. QED
        BY <2>6, <4>1, MaxConcurrentAssumption
        DEF AcquireAndSpawn, AdmissionInv, PermitsConserved, AllTypes, LaunchTypeOK
    <3>5. Gate!Cardinality(Inside) = Cardinality(Inside)
      BY DEF Cardinality, Gate!Cardinality
    <3>6. QED
      BY <2>6, <3>1, <3>2, <3>3, <3>4, <3>5 DEF AcquireAndSpawn, Gate!Enter
  <2>7. ASSUME NEW t \in Tasks, ReleasePermit(t)
        PROVE  Gate!Leave(t)
    <3>1. t \in Inside /\ Inside' = Inside \ {t}
      BY <2>7, ReleaseStep
    <3>2. {u \in Tasks : run'[u] # "off"} = {u \in Tasks : run[u] # "off"}
      BY <2>7 DEF ReleasePermit, AllTypes, RunnerTypeOK
    <3>3. QED
      BY <2>7, <3>1, <3>2 DEF ReleasePermit, Gate!Leave
  <2>8. CASE Restart
    <3>1. Inside' = {}
      BY <2>8, RestartStep
    <3>2. {u \in Tasks : run'[u] # "off"} = {u \in Tasks : run[u] # "off"}
      BY <2>8 DEF Restart
    <3>3. QED
      BY <2>8, <3>1, <3>2 DEF Restart, Gate!GateNext, Gate!Restart
  <2>9. QED
    BY <2>1, <2>2, <2>3, <2>4, <2>5, <2>6, <2>7, <2>8
    DEF Next, Handler, Runner, StartTask, FinishTask, Gate!GateNext
<1>3. QED
  BY <1>1, <1>2, TypeCorrect, AdmissionInvariant, PTL
  DEF Spec, ImplementsGate, Gate!GateSpec

-----------------------------------------------------------------------------
(* Approvals.                                                               *)

\* Where a runner stands between raising a prompt and acting on its answer.
PromptSteps == {"await", "settle", "execMutating"}

\* Every "approve" on its way to a tool was given by a user for that very prompt:
\* in the channel, received, or about to be acted upon.
ApprovalInv ==
  /\ MutationsWereApproved
  /\ PromptsHaveAWaiter
  /\ \A t \in Tasks : run[t] = "execMutating" => Prompt(t) \in granted
  /\ \A t \in Tasks :
       run[t] \in {"await", "settle"} /\ answer[t] = "approve" => Prompt(t) \in granted
  /\ \A m \in sending : m[2] = "approve" => m[1] \in granted

\* Steps that touch neither prompts nor a runner waiting on one.
PromptsUntouched ==
  /\ UNCHANGED <<promptVars, ghostVars, prompts>>
  /\ \A u \in Tasks :
       \/ run'[u] = run[u]
       \/ run[u] \notin PromptSteps /\ run'[u] \notin PromptSteps

\* A step that leaves the prompts and every runner waiting on one alone keeps
\* ApprovalInv.
LEMMA UntouchedPromptsStay ==
  ASSUME PromptsTypeOK, ApprovalInv, PromptsUntouched
  PROVE  ApprovalInv'
<1>1. \A u \in Tasks : Prompt(u)' = Prompt(u)
  BY DEF PromptsUntouched, Prompt
<1>2. PromptsHaveAWaiter'
  <2> SUFFICES ASSUME NEW p \in pending
               PROVE  p = Prompt(p[1])' /\ run'[p[1]] \in {"await", "settle"}
    BY DEF PromptsHaveAWaiter, PromptsUntouched
  <2>1. p[1] \in Tasks
    BY DEF PromptsTypeOK, PromptId
  <2>2. p = Prompt(p[1]) /\ run[p[1]] \in {"await", "settle"}
    BY DEF ApprovalInv, PromptsHaveAWaiter
  <2>3. QED
    BY <1>1, <2>1, <2>2 DEF PromptsUntouched, PromptSteps
<1>3. QED
  BY <1>1, <1>2 DEF ApprovalInv, PromptsUntouched, PromptSteps, MutationsWereApproved

\* The steps that are not about prompts leave every prompt and its waiting runner alone.
LEMMA OtherStepsLeavePrompts ==
  ASSUME TypeOK, AdmissionInv,
         \/ \E t \in Tasks :
              \/ ReadRow(t, "readStart", "writeStart")
              \/ WriteRow(t, "writeStart", "confirmStart")
              \/ ConfirmRow(t, "confirmStart", "loop")
              \/ ReadRow(t, "readEnd", "writeEnd")
              \/ WriteRow(t, "writeEnd", "confirmEnd")
              \/ ConfirmRow(t, "confirmEnd", "unregister")
              \/ Unregister(t)
              \/ ReleasePermit(t)
              \/ LoopHead(t)
              \/ ChatReturns(t)
              \/ ToolUse(t)
              \/ ResponseEnds(t)
              \/ StoreError(t)
              \/ CreateTask(t) \/ DropHandler(t) \/ CheckPending(t) \/ Register(t)
              \/ AcquireAndSpawn(t)
         \/ \E c \in Clients : Request(c)
         \/ UNCHANGED vars
  PROVE  PromptsUntouched
<1> USE DEF PromptsUntouched, PromptSteps
<1>1. ASSUME NEW t \in Tasks, ReadRow(t, "readStart", "writeStart")
      PROVE  PromptsUntouched
  BY <1>1 DEF ReadRow, TypeOK, RunnerTypeOK
<1>2. ASSUME NEW t \in Tasks, WriteRow(t, "writeStart", "confirmStart")
      PROVE  PromptsUntouched
  BY <1>2 DEF WriteRow, TypeOK, RunnerTypeOK
<1>3. ASSUME NEW t \in Tasks, ConfirmRow(t, "confirmStart", "loop")
      PROVE  PromptsUntouched
  BY <1>3 DEF ConfirmRow, TypeOK, RunnerTypeOK
<1>4. ASSUME NEW t \in Tasks, ReadRow(t, "readEnd", "writeEnd")
      PROVE  PromptsUntouched
  BY <1>4 DEF ReadRow, TypeOK, RunnerTypeOK
<1>5. ASSUME NEW t \in Tasks, WriteRow(t, "writeEnd", "confirmEnd")
      PROVE  PromptsUntouched
  BY <1>5 DEF WriteRow, TypeOK, RunnerTypeOK
<1>6. ASSUME NEW t \in Tasks, ConfirmRow(t, "confirmEnd", "unregister")
      PROVE  PromptsUntouched
  BY <1>6 DEF ConfirmRow, TypeOK, RunnerTypeOK
<1>7. ASSUME NEW t \in Tasks, Unregister(t)
      PROVE  PromptsUntouched
  BY <1>7 DEF Unregister, TypeOK, RunnerTypeOK
<1>8. ASSUME NEW t \in Tasks, ReleasePermit(t)
      PROVE  PromptsUntouched
  BY <1>8 DEF ReleasePermit, TypeOK, RunnerTypeOK
<1>9. ASSUME NEW t \in Tasks, LoopHead(t)
      PROVE  PromptsUntouched
  BY <1>9 DEF LoopHead, LeaveLoop, TypeOK, RunnerTypeOK
<1>10. ASSUME NEW t \in Tasks, ChatReturns(t)
      PROVE  PromptsUntouched
  BY <1>10 DEF ChatReturns, LeaveLoop, TypeOK, RunnerTypeOK
<1>11. ASSUME NEW t \in Tasks, ToolUse(t)
      PROVE  PromptsUntouched
  BY <1>11 DEF ToolUse, TypeOK, RunnerTypeOK
<1>12. ASSUME NEW t \in Tasks, ResponseEnds(t)
      PROVE  PromptsUntouched
  BY <1>12 DEF ResponseEnds, LeaveLoop, TypeOK, RunnerTypeOK
<1>13. ASSUME NEW t \in Tasks, StoreError(t)
      PROVE  PromptsUntouched
  BY <1>13 DEF StoreError, TypeOK, RunnerTypeOK, StoreStep
<1>14. ASSUME NEW t \in Tasks,
             CreateTask(t) \/ DropHandler(t) \/ CheckPending(t) \/ Register(t)
      PROVE  PromptsUntouched
  BY <1>14 DEF CreateTask, DropHandler, CheckPending, Register
<1>15. ASSUME NEW t \in Tasks, AcquireAndSpawn(t)
      PROVE  PromptsUntouched
  BY <1>15 DEF AcquireAndSpawn, TypeOK, RunnerTypeOK, AdmissionInv, LaunchedOnce
<1>16. ASSUME NEW c \in Clients, Request(c)
      PROVE  PromptsUntouched
  BY <1>16 DEF Request, BeginRequest, SignalHandle, CheckUnregistered, CancelRead,
              CancelWrite, DeleteRow
<1>17. CASE UNCHANGED vars
  BY <1>17
<1>18. QED
  BY <1>1, <1>2, <1>3, <1>4, <1>5, <1>6, <1>7, <1>8, <1>9, <1>10, <1>11,
     <1>12, <1>13, <1>14, <1>15, <1>16, <1>17

\* The steps of a prompt's life.
LEMMA PromptStepsKeepApprovals ==
  ASSUME TypeOK, ApprovalInv, NEW t \in Tasks,
         RequestApproval(t) \/ AwaitEnds(t) \/ SettleApproval(t) \/ ExecuteTool(t)
  PROVE  ApprovalInv'
<1> USE DEF TypeOK, RunnerTypeOK, CountersTypeOK, PromptsTypeOK, PromptId,
            ApprovalInv, MutationsWereApproved, PromptsHaveAWaiter, Prompt
<1>1. CASE RequestApproval(t)
  BY <1>1 DEF RequestApproval
<1>2. CASE AwaitEnds(t)
  BY <1>2 DEF AwaitEnds
<1>3. CASE SettleApproval(t)
  BY <1>3 DEF SettleApproval
<1>4. CASE ExecuteTool(t)
  BY <1>4 DEF ExecuteTool
<1>5. QED
  BY <1>1, <1>2, <1>3, <1>4

\* What users do to prompts, answering them or asking to auto-approve, keeps ApprovalInv.
LEMMA UsersKeepApprovals ==
  ASSUME TypeOK, ApprovalInv,
         \/ \E p \in pending, ans \in {"approve", "reject"} : TakePrompt(p, ans)
         \/ \E m \in sending : SendAnswer(m[1], m[2])
         \/ Restart
  PROVE  ApprovalInv'
<1> USE DEF TypeOK, RunnerTypeOK, PromptsTypeOK, PromptId, ApprovalInv,
            MutationsWereApproved, PromptsHaveAWaiter, Prompt
<1>1. ASSUME NEW p \in pending, NEW ans \in {"approve", "reject"}, TakePrompt(p, ans)
      PROVE  ApprovalInv'
  BY <1>1 DEF TakePrompt
<1>2. ASSUME NEW m \in sending, SendAnswer(m[1], m[2])
      PROVE  ApprovalInv'
  BY <1>2 DEF SendAnswer
<1>3. CASE Restart
  BY <1>3 DEF Restart
<1>4. QED
  BY <1>1, <1>2, <1>3

\* The inductive invariant of approvals.
LEMMA ApprovalInvariant == Spec => []ApprovalInv
<1>1. Init => ApprovalInv
  BY DEF Init, ApprovalInv, MutationsWereApproved, PromptsHaveAWaiter
<1>2. TypeOK /\ AdmissionInv /\ ApprovalInv /\ [Next]_vars => ApprovalInv'
  <2> SUFFICES ASSUME TypeOK, AdmissionInv, ApprovalInv, [Next]_vars
               PROVE  ApprovalInv'
    OBVIOUS
  <2>1. CASE PromptsUntouched
    BY <2>1, UntouchedPromptsStay DEF TypeOK
  <2>2. ASSUME NEW t \in Tasks,
               RequestApproval(t) \/ AwaitEnds(t) \/ SettleApproval(t) \/ ExecuteTool(t)
        PROVE  ApprovalInv'
    BY <2>2, PromptStepsKeepApprovals
  <2>3. CASE \/ \E p \in pending, ans \in {"approve", "reject"} : TakePrompt(p, ans)
             \/ \E m \in sending : SendAnswer(m[1], m[2])
             \/ Restart
    BY <2>3, UsersKeepApprovals
  <2>4. QED
    BY <2>1, <2>2, <2>3, OtherStepsLeavePrompts
    DEF Next, Handler, Runner, StartTask, FinishTask
<1>3. QED
  BY <1>1, <1>2, TypeCorrect, AdmissionInvariant, PTL DEF Spec

\* A mutating tool runs only for a prompt a user approved, for every number of
\* tasks, iterations and tool calls.
THEOREM OnlyApprovedMutations == Spec => []MutationsWereApproved
<1>1. ApprovalInv => MutationsWereApproved
  BY DEF ApprovalInv
<1>2. QED
  BY <1>1, ApprovalInvariant, PTL

\* Every prompt a user can see is the current question of a runner waiting for
\* its answer.
THEOREM EveryPromptHasAWaiter == Spec => []PromptsHaveAWaiter
<1>1. ApprovalInv => PromptsHaveAWaiter
  BY DEF ApprovalInv
<1>2. QED
  BY <1>1, ApprovalInvariant, PTL

-----------------------------------------------------------------------------
(* Results: what a row, and the last event, say of the runner.              *)

\* Where a runner stands before it has decided, while it records its decision,
\* and once nothing of it is left to be recorded.
Starting == {"off", "readStart", "writeStart", "confirmStart"}
Working == {"loop", "chat", "blocks", "request", "await", "settle", "exec",
            "execMutating"}
Ending == {"readEnd", "writeEnd", "confirmEnd"}
Over == {"unregister", "release", "ended"}

\* A runner writes "running" when it starts and its result when it ends.
GoalsFollowTheRun ==
  \A t \in Tasks : /\ run[t] \in Starting \cup Working => goal[t] = "running"
                   /\ run[t] \in Ending => goal[t] \in Terminal

\* A result in the table was written at the runner's end, a terminal event sent
\* after that.
ResultsComeLast ==
  \A t \in Tasks :
    /\ row[t] \in {"completed", "failed"} =>
         goal[t] = row[t] /\ run[t] \in Over \cup {"confirmEnd"}
    /\ lastEvent[t] \in Terminal => run[t] \in Over

\* A row reads "running" only between the two writes, unless a restart or a
\* database error came in between.
RunningIsWorking ==
  restarts = 0 /\ storeErrors = 0 =>
    \A t \in Tasks : row[t] = "running" =>
      run[t] \in Working \cup {"confirmStart", "readEnd", "writeEnd"}

ResultInv == GoalsFollowTheRun /\ ResultsComeLast /\ RunningIsWorking

\* No event replaces a terminal one.
EventsStay ==
  \A t \in Tasks : lastEvent[t] \in Terminal => lastEvent'[t] = lastEvent[t]

ResultsKept == ResultInv' /\ EventsStay

\* The runner's reads and writes of its row keep ResultInv.
LEMMA StoreStepsKeepResults ==
  ASSUME AllTypes, CountersTypeOK, ResultInv, NEW t \in Tasks,
         StartTask(t) \/ FinishTask(t) \/ StoreError(t)
  PROVE  ResultsKept
<1> USE DEF AllTypes, LaunchTypeOK, RunnerTypeOK, CountersTypeOK, ResultsKept, ResultInv,
            GoalsFollowTheRun, ResultsComeLast, RunningIsWorking, EventsStay,
            Starting, Working, Ending, Over, Terminal
<1>1. CASE ReadRow(t, "readStart", "writeStart")
  BY <1>1 DEF ReadRow, CanTransition
<1>2. CASE WriteRow(t, "writeStart", "confirmStart")
  BY <1>2 DEF WriteRow, Updated
<1>3. CASE ConfirmRow(t, "confirmStart", "loop")
  <2>1. /\ run[t] = "confirmStart" /\ run'[t] \in {"loop", "unregister"}
        /\ run'[t] = "loop" => row[t] \in Status
        /\ row[t] \in Status => run'[t] = "loop" /\ lastEvent'[t] = goal[t]
        /\ row[t] \notin Status => UNCHANGED lastEvent
        /\ \A u \in Tasks \ {t} : run'[u] = run[u] /\ lastEvent'[u] = lastEvent[u]
        /\ UNCHANGED <<row, goal, restarts, storeErrors>>
    BY <1>3 DEF ConfirmRow
  <2>2. row[t] = "running" => row[t] \in Status
    BY DEF Status
  <2>3. lastEvent[t] \notin Terminal
    BY <2>1
  <2>4. GoalsFollowTheRun' /\ RunningIsWorking'
    BY <2>1, <2>2
  <2>5. ResultsComeLast'
    BY <2>1, <2>3
  <2>6. EventsStay
    BY <2>1, <2>3
  <2>7. QED
    BY <2>4, <2>5, <2>6
<1>4. CASE ReadRow(t, "readEnd", "writeEnd")
  BY <1>4 DEF ReadRow, CanTransition
<1>5. CASE WriteRow(t, "writeEnd", "confirmEnd")
  BY <1>5 DEF WriteRow, Updated, Status
<1>6. CASE ConfirmRow(t, "confirmEnd", "unregister")
  <2>1. /\ run[t] = "confirmEnd" /\ run'[t] \in {"unregister", "unregister"}
        /\ run'[t] = "loop" => row[t] \in Status
        /\ row[t] \in Status => run'[t] = "unregister" /\ lastEvent'[t] = goal[t]
        /\ row[t] \notin Status => UNCHANGED lastEvent
        /\ \A u \in Tasks \ {t} : run'[u] = run[u] /\ lastEvent'[u] = lastEvent[u]
        /\ UNCHANGED <<row, goal, restarts, storeErrors>>
    BY <1>6 DEF ConfirmRow
  <2>2. row[t] = "running" => row[t] \in Status
    BY DEF Status
  <2>3. lastEvent[t] \notin Terminal
    BY <2>1
  <2>4. GoalsFollowTheRun' /\ RunningIsWorking'
    BY <2>1, <2>2
  <2>5. ResultsComeLast'
    BY <2>1, <2>3
  <2>6. EventsStay
    BY <2>1, <2>3
  <2>7. QED
    BY <2>4, <2>5, <2>6
<1>7. CASE StoreError(t)
  BY <1>7 DEF StoreError, StoreStep
<1>8. QED
  BY <1>1, <1>2, <1>3, <1>4, <1>5, <1>6, <1>7 DEF StartTask, FinishTask

\* The steps of the ReAct loop keep ResultInv.
LEMMA LoopStepsKeepResults ==
  ASSUME AllTypes, ResultInv, NEW t \in Tasks,
         \/ LoopHead(t) \/ ChatReturns(t) \/ ToolUse(t) \/ ResponseEnds(t)
         \/ RequestApproval(t) \/ AwaitEnds(t) \/ SettleApproval(t) \/ ExecuteTool(t)
  PROVE  ResultsKept
<1> USE DEF AllTypes, LaunchTypeOK, RunnerTypeOK, ResultsKept, ResultInv,
            GoalsFollowTheRun, ResultsComeLast, RunningIsWorking, EventsStay,
            Starting, Working, Ending, Over, Terminal
<1>1. CASE LoopHead(t)
  BY <1>1 DEF LoopHead, LeaveLoop
<1>2. CASE ChatReturns(t)
  BY <1>2, SMTT(30) DEF ChatReturns, LeaveLoop
<1>3. CASE ToolUse(t)
  BY <1>3 DEF ToolUse
<1>4. CASE ResponseEnds(t)
  BY <1>4, SMTT(30) DEF ResponseEnds, LeaveLoop
<1>5. CASE RequestApproval(t)
  BY <1>5 DEF RequestApproval
<1>6. CASE AwaitEnds(t)
  BY <1>6 DEF AwaitEnds
<1>7. CASE SettleApproval(t)
  BY <1>7 DEF SettleApproval
<1>8. CASE ExecuteTool(t)
  BY <1>8 DEF ExecuteTool
<1>9. QED
  BY <1>1, <1>2, <1>3, <1>4, <1>5, <1>6, <1>7, <1>8

\* Launching a runner and burying it keep ResultInv.
LEMMA HandlerStepsKeepResults ==
  ASSUME AllTypes, LaunchedOnce, ResultInv, NEW t \in Tasks,
         \/ CreateTask(t) \/ DropHandler(t) \/ Handler(t)
         \/ Unregister(t) \/ ReleasePermit(t)
  PROVE  ResultsKept
<1> USE DEF AllTypes, LaunchTypeOK, RunnerTypeOK, ResultsKept, ResultInv,
            GoalsFollowTheRun, ResultsComeLast, RunningIsWorking, EventsStay,
            Starting, Working, Ending, Over, Terminal
<1>1. CASE CreateTask(t)
  BY <1>1 DEF CreateTask
<1>2. CASE DropHandler(t) \/ CheckPending(t) \/ Register(t)
  BY <1>2 DEF DropHandler, CheckPending, Register
<1>3. CASE AcquireAndSpawn(t)
  BY <1>3 DEF AcquireAndSpawn, LaunchedOnce
<1>4. CASE Unregister(t)
  BY <1>4 DEF Unregister
<1>5. CASE ReleasePermit(t)
  BY <1>5 DEF ReleasePermit
<1>6. QED
  BY <1>1, <1>2, <1>3, <1>4, <1>5 DEF Handler

\* Users and restarts keep ResultInv: a cancelled or a deleted row says nothing
\* of the run.
LEMMA UsersKeepResults ==
  ASSUME AllTypes, CountersTypeOK, ResultInv,
         \/ \E p \in pending, ans \in {"approve", "reject"} : TakePrompt(p, ans)
         \/ \E m \in sending : SendAnswer(m[1], m[2])
         \/ \E c \in Clients : Request(c)
         \/ Restart
         \/ UNCHANGED vars
  PROVE  ResultsKept
<1> USE DEF AllTypes, LaunchTypeOK, RunnerTypeOK, CountersTypeOK, RequestsTypeOK,
            ResultsKept, ResultInv, GoalsFollowTheRun, ResultsComeLast,
            RunningIsWorking, EventsStay, Starting, Working, Ending, Over, Terminal
<1>1. ASSUME UNCHANGED <<row, run, goal, lastEvent, restarts, storeErrors>>
      PROVE  ResultsKept
  BY <1>1
<1>2. ASSUME NEW c \in Clients, CancelWrite(c) \/ DeleteRow(c)
      PROVE  ResultsKept
  BY <1>2, SMTT(30) DEF CancelWrite, DeleteRow, Updated
<1>3. CASE Restart
  <2>1. /\ \A t \in Tasks : run'[t] = IF run[t] = "off" THEN "off" ELSE "ended"
        /\ restarts' = restarts + 1 /\ restarts' # 0
        /\ UNCHANGED <<row, goal, lastEvent>>
    BY <1>3 DEF Restart
  <2>2. GoalsFollowTheRun' /\ ResultsComeLast' /\ EventsStay
    BY <2>1
  <2>3. RunningIsWorking'
    BY <2>1
  <2>4. QED
    BY <2>2, <2>3
<1>4. QED
  BY <1>1, <1>2, <1>3
  DEF TakePrompt, SendAnswer, Request, BeginRequest, SignalHandle, CheckUnregistered,
      CancelRead

\* Every step keeps the results in order.
LEMMA ResultStep ==
  ASSUME TypeOK, AdmissionInv, ResultInv, [Next]_vars
  PROVE  ResultsKept
BY StoreStepsKeepResults, LoopStepsKeepResults, HandlerStepsKeepResults, UsersKeepResults
DEF TypeOK, AllTypes, AdmissionInv, Next, Handler, Runner

\* The inductive invariant of results.
LEMMA ResultInvariant == Spec => []ResultInv
<1>1. Init => ResultInv
  BY DEF Init, ResultInv, GoalsFollowTheRun, ResultsComeLast, RunningIsWorking,
         Starting, Working, Ending, Over, Terminal
<1>2. TypeOK /\ AdmissionInv /\ ResultInv /\ [Next]_vars => ResultInv'
  BY ResultStep DEF ResultsKept
<1>3. QED
  BY <1>1, <1>2, TypeCorrect, AdmissionInvariant, PTL DEF Spec

\* A task reads completed or failed only if its own runner decided exactly that,
\* whatever cancellations and deletions do to its row meanwhile.
THEOREM ResultsComeFromTheRunner == Spec => []ResultsAreTheRunners
<1>1. ResultInv => ResultsAreTheRunners
  BY DEF ResultInv, ResultsComeLast, ResultsAreTheRunners
<1>2. QED
  BY <1>1, ResultInvariant, PTL

\* Short of restarts and database errors, a row reads running only while a
\* runner works on it.
THEOREM RunningRowsAreWorkedOn == Spec => []RunningHasARunner
<1>1. ResultInv => RunningHasARunner
  BY DEF ResultInv, RunningIsWorking, RunningHasARunner, Working, Active
<1>2. QED
  BY <1>1, ResultInvariant, PTL

\* A terminal event is the last event of its task.
THEOREM NothingFollowsATerminalEvent == Spec => TerminalEventIsLast
<1>1. TypeOK /\ AdmissionInv /\ ResultInv /\ [Next]_vars =>
        [\A t \in Tasks : lastEvent[t] \in Terminal => lastEvent'[t] = lastEvent[t]]_vars
  BY ResultStep DEF ResultsKept, EventsStay
<1>2. QED
  BY <1>1, TypeCorrect, AdmissionInvariant, ResultInvariant, PTL
  DEF Spec, TerminalEventIsLast
=============================================================================
