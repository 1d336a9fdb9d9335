------------------------- MODULE WakeDeliveryProofs -------------------------
(***************************************************************************)
(* Proofs about WakeDelivery, for any agents, wakes and engines.           *)
(***************************************************************************)
EXTENDS WakeDelivery, TLAPS

\* The tasks inside a kick are exactly the holders of their agent's kick lock.
KickLock == \A w \in Wakes : pc[w] \in Kicking <=> lock[Target[w]] = w

\* A keystroke kick that has claimed anything is past the point of failing.
ClaimNotFailed ==
    \A r, w \in Wakes :
        w \in by[r] /\ Engine[Target[w]] = "keystroke" => pc[w] \in {"claimed", "done"}

\* A row is inserted once, by its own task.
RowFresh == \A w \in Wakes : pc[w] \in {"idle", "spawned", "insert"} => mail[w] = "none"

\* A kick of an opencode agent types nothing, and claims before it delivers.
PreClaimLeads ==
    \A w \in Wakes : Engine[Target[w]] = "opencode" =>
        /\ pc[w] \notin {"typed", "sent"}
        /\ \A r \in Wakes : w \in by[r] => pc[w] \in {"deliver", "claimed", "done", "failed"}

\* The inductive invariant.
IInv ==
    /\ TypeOK
    /\ KickLock
    /\ ClaimNotFailed
    /\ ComposerIntact
    /\ RowFresh

-----------------------------------------------------------------------------

\* A step keeps every variable in its type.
LEMMA TypeStep == ASSUME TypeOK, [Next]_vars PROVE TypeOK'
<1>1. ASSUME NEW w \in Wakes, SpawnDeliverWake(w) PROVE TypeOK'
  BY <1>1, WakeConstants DEF SpawnDeliverWake, Goto, mailVars, slotVars,
     cliVars, hookVars, TypeOK, MailTypes, TaskTypes, SlotTypes, CliTypes, PCs,
     Kicking, Ended
<1>2. ASSUME NEW w \in Wakes, WakeAgent(w) PROVE TypeOK'
  BY <1>2, WakeConstants DEF WakeAgent, Goto, mailVars, slotVars, cliVars,
     hookVars, TypeOK, MailTypes, TaskTypes, SlotTypes, CliTypes, PCs, Kicking,
     Ended
<1>3. ASSUME NEW w \in Wakes, Resume(w) PROVE TypeOK'
  BY <1>3, WakeConstants DEF Resume, Goto, mailVars, cliVars, hookVars, TypeOK,
     MailTypes, TaskTypes, SlotTypes, CliTypes, PCs, Kicking, Ended
<1>4. ASSUME NEW w \in Wakes, CheckPaused(w) PROVE TypeOK'
  BY <1>4, WakeConstants DEF CheckPaused, Goto, mailVars, slotVars, cliVars,
     hookVars, TypeOK, MailTypes, TaskTypes, SlotTypes, CliTypes, PCs, Kicking,
     Ended
<1>5. ASSUME NEW w \in Wakes, InsertRow(w) PROVE TypeOK'
  BY <1>5, WakeConstants DEF InsertRow, Goto, slotVars, cliVars, hookVars,
     TypeOK, MailTypes, TaskTypes, SlotTypes, CliTypes, PCs, Kicking, Ended
<1>6. ASSUME NEW w \in Wakes, InsertRowFails(w) PROVE TypeOK'
  BY <1>6, WakeConstants DEF InsertRowFails, Goto, mailVars, slotVars, cliVars,
     hookVars, TypeOK, MailTypes, TaskTypes, SlotTypes, CliTypes, PCs, Kicking,
     Ended
<1>7. ASSUME NEW w \in Wakes, TryLock(w) PROVE TypeOK'
  BY <1>7, WakeConstants DEF TryLock, Goto, mailVars, slotVars, cliVars,
     hookVars, TypeOK, MailTypes, TaskTypes, SlotTypes, CliTypes, PCs, Kicking,
     Ended
<1>8. ASSUME NEW w \in Wakes, Coalesce(w) PROVE TypeOK'
  BY <1>8, WakeConstants DEF Coalesce, Goto, mailVars, slotVars, cliVars,
     hookVars, TypeOK, MailTypes, TaskTypes, SlotTypes, CliTypes, PCs, Kicking,
     Ended
<1>9. ASSUME NEW w \in Wakes, AcquirePermit(w) PROVE TypeOK'
  BY <1>9, WakeConstants DEF AcquirePermit, Goto, mailVars, slotVars, cliVars,
     hookVars, TypeOK, MailTypes, TaskTypes, SlotTypes, CliTypes, PCs, Kicking,
     Ended
<1>10. ASSUME NEW w \in Wakes, KickGone(w) PROVE TypeOK'
  BY <1>10, WakeConstants DEF KickGone, Goto, Unlock, mailVars, cliVars,
     hookVars, TypeOK, MailTypes, TaskTypes, SlotTypes, CliTypes, PCs, Kicking,
     Ended
<1>11. ASSUME NEW w \in Wakes, Peek(w) PROVE TypeOK'
  BY <1>11, WakeConstants DEF Peek, Goto, KickText, Unread, mailVars, slotVars,
     cliVars, hookVars, TypeOK, MailTypes, TaskTypes, SlotTypes, CliTypes, PCs,
     Kicking, Ended
<1>12. ASSUME NEW w \in Wakes, PreClaim(w) PROVE TypeOK'
  BY <1>12, WakeConstants DEF PreClaim, Goto, Consume, KickText, Unread,
     slotVars, cliVars, hookVars, TypeOK, MailTypes, TaskTypes, SlotTypes,
     CliTypes, PCs, Kicking, Ended
<1>13. ASSUME NEW w \in Wakes, NoBacklog(w) PROVE TypeOK'
  BY <1>13, WakeConstants DEF NoBacklog, Goto, mailVars, slotVars, cliVars,
     hookVars, TypeOK, MailTypes, TaskTypes, SlotTypes, CliTypes, PCs, Kicking,
     Ended
<1>14. ASSUME NEW w \in Wakes, DeliverTurn(w) PROVE TypeOK'
  <2>1. MailTypes'
    BY <1>14, WakeConstants DEF DeliverTurn, Goto, Carry, StartTurn, slotVars,
       hookVars, TypeOK, MailTypes, TaskTypes, SlotTypes, CliTypes
  <2>2. TaskTypes'
    BY <1>14, WakeConstants DEF DeliverTurn, Goto, Carry, StartTurn, slotVars,
       hookVars, TypeOK, MailTypes, TaskTypes, SlotTypes, CliTypes, PCs,
       Kicking, Ended
  <2>3. SlotTypes'
    BY <1>14, WakeConstants DEF DeliverTurn, Goto, Carry, StartTurn, slotVars,
       hookVars, TypeOK, MailTypes, TaskTypes, SlotTypes, CliTypes
  <2>4. CliTypes'
    BY <1>14, WakeConstants DEF DeliverTurn, Goto, Carry, StartTurn, slotVars,
       hookVars, TypeOK, MailTypes, TaskTypes, SlotTypes, CliTypes
  <2>5. QED
    BY <2>1, <2>2, <2>3, <2>4 DEF TypeOK
<1>15. ASSUME NEW w \in Wakes, TypeBody(w) PROVE TypeOK'
  BY <1>15, WakeConstants DEF TypeBody, Goto, mailVars, slotVars, hookVars,
     TypeOK, MailTypes, TaskTypes, SlotTypes, CliTypes, PCs, Kicking, Ended
<1>16. ASSUME NEW w \in Wakes, Submit(w) PROVE TypeOK'
  <2>1. /\ Target[w] \in Agents
        /\ composer[Target[w]] \in Wakes
    BY <1>16, WakeConstants DEF Submit, TypeOK, CliTypes
  <2>2. carriers' \in [Wakes -> SUBSET (Wakes \cup Agents)]
    BY <1>16, <2>1 DEF Submit, Carry, TypeOK, MailTypes
  <2>3. MailTypes'
    BY <1>16, <2>2 DEF Submit, TypeOK, MailTypes
  <2>4. TaskTypes' /\ SlotTypes'
    BY <1>16, WakeConstants DEF Submit, Goto, slotVars, TypeOK,
       TaskTypes, SlotTypes, PCs, Kicking, Ended
  <2>5. CliTypes'
    BY <1>16, <2>1 DEF Submit, StartTurn, hookVars, TypeOK, CliTypes
  <2>6. QED
    BY <2>3, <2>4, <2>5 DEF TypeOK
<1>17. ASSUME NEW w \in Wakes, SubmitNothing(w) PROVE TypeOK'
  BY <1>17, WakeConstants DEF SubmitNothing, Goto, mailVars, slotVars, cliVars,
     hookVars, TypeOK, MailTypes, TaskTypes, SlotTypes, CliTypes, PCs, Kicking,
     Ended
<1>18. ASSUME NEW w \in Wakes, DeliverFails(w) PROVE TypeOK'
  <2>1. MailTypes'
    BY <1>18, WakeConstants DEF DeliverFails, Unlock, mailVars, cliVars,
       hookVars, TypeOK, MailTypes, TaskTypes, SlotTypes, CliTypes
  <2>2. TaskTypes'
    BY <1>18, WakeConstants DEF DeliverFails, Unlock, mailVars, cliVars,
       hookVars, TypeOK, MailTypes, TaskTypes, SlotTypes, CliTypes, PCs,
       Kicking, Ended
  <2>3. SlotTypes'
    BY <1>18, WakeConstants DEF DeliverFails, Unlock, mailVars, cliVars,
       hookVars, TypeOK, MailTypes, TaskTypes, SlotTypes, CliTypes
  <2>4. CliTypes'
    BY <1>18, WakeConstants DEF DeliverFails, Unlock, mailVars, cliVars,
       hookVars, TypeOK, MailTypes, TaskTypes, SlotTypes, CliTypes
  <2>5. QED
    BY <2>1, <2>2, <2>3, <2>4 DEF TypeOK
<1>19. ASSUME NEW w \in Wakes, PostClaim(w) PROVE TypeOK'
  BY <1>19, WakeConstants DEF PostClaim, Goto, Consume, Unread, slotVars,
     cliVars, hookVars, TypeOK, MailTypes, TaskTypes, SlotTypes, CliTypes, PCs,
     Kicking, Ended
<1>20. ASSUME NEW w \in Wakes, PostClaimFails(w) PROVE TypeOK'
  BY <1>20, WakeConstants DEF PostClaimFails, Goto, mailVars, slotVars, cliVars,
     hookVars, TypeOK, MailTypes, TaskTypes, SlotTypes, CliTypes, PCs, Kicking,
     Ended
<1>21. ASSUME NEW w \in Wakes, Release(w) PROVE TypeOK'
  BY <1>21, WakeConstants DEF Release, Goto, Unlock, mailVars, slotVars,
     cliVars, hookVars, TypeOK, MailTypes, TaskTypes, SlotTypes, CliTypes, PCs,
     Kicking, Ended
<1>22. ASSUME NEW a \in Agents, EndTurn(a) PROVE TypeOK'
  BY <1>22, WakeConstants DEF EndTurn, mailVars, taskVars, slotVars, hookVars,
     TypeOK, MailTypes, TaskTypes, SlotTypes, CliTypes, PCs, Kicking, Ended
<1>23. ASSUME NEW a \in Agents, HookSkips(a) PROVE TypeOK'
  BY <1>23, WakeConstants DEF HookSkips, Rest, mailVars, taskVars, slotVars,
     TypeOK, MailTypes, TaskTypes, SlotTypes, CliTypes, PCs, Kicking, Ended
<1>24. ASSUME NEW a \in Agents, HookClaims(a) PROVE TypeOK'
  BY <1>24, WakeConstants DEF HookClaims, Consume, Unread, taskVars, slotVars,
     TypeOK, MailTypes, TaskTypes, SlotTypes, CliTypes, PCs, Kicking, Ended
<1>25. ASSUME NEW a \in Agents, HookNoop(a) PROVE TypeOK'
  BY <1>25, WakeConstants DEF HookNoop, Rest, mailVars, taskVars, slotVars,
     TypeOK, MailTypes, TaskTypes, SlotTypes, CliTypes, PCs, Kicking, Ended
<1>26. ASSUME NEW a \in Agents, HookBlocks(a) PROVE TypeOK'
  <2>1. MailTypes'
    BY <1>26, WakeConstants DEF HookBlocks, Carry, taskVars, slotVars, TypeOK,
       MailTypes, TaskTypes, SlotTypes, CliTypes
  <2>2. TaskTypes'
    BY <1>26, WakeConstants DEF HookBlocks, Carry, taskVars, slotVars, TypeOK,
       MailTypes, TaskTypes, SlotTypes, CliTypes, PCs, Kicking, Ended
  <2>3. SlotTypes'
    BY <1>26, WakeConstants DEF HookBlocks, Carry, taskVars, slotVars, TypeOK,
       MailTypes, TaskTypes, SlotTypes, CliTypes
  <2>4. CliTypes'
    BY <1>26, WakeConstants DEF HookBlocks, Carry, taskVars, slotVars, TypeOK,
       MailTypes, TaskTypes, SlotTypes, CliTypes
  <2>5. QED
    BY <2>1, <2>2, <2>3, <2>4 DEF TypeOK
<1>27. ASSUME NEW a \in Agents, PluginPrompts(a) PROVE TypeOK'
  <2>1. MailTypes'
    BY <1>27, WakeConstants DEF PluginPrompts, Carry, taskVars, slotVars,
       TypeOK, MailTypes, TaskTypes, SlotTypes, CliTypes
  <2>2. TaskTypes'
    BY <1>27, WakeConstants DEF PluginPrompts, Carry, taskVars, slotVars,
       TypeOK, MailTypes, TaskTypes, SlotTypes, CliTypes, PCs, Kicking, Ended
  <2>3. SlotTypes'
    BY <1>27, WakeConstants DEF PluginPrompts, Carry, taskVars, slotVars,
       TypeOK, MailTypes, TaskTypes, SlotTypes, CliTypes
  <2>4. CliTypes'
    BY <1>27, WakeConstants DEF PluginPrompts, Carry, taskVars, slotVars,
       TypeOK, MailTypes, TaskTypes, SlotTypes, CliTypes
  <2>5. QED
    BY <2>1, <2>2, <2>3, <2>4 DEF TypeOK
<1>28. ASSUME NEW a \in Agents, HookLosesAnswer(a) PROVE TypeOK'
  BY <1>28, WakeConstants DEF HookLosesAnswer, Rest, mailVars, taskVars,
     slotVars, TypeOK, MailTypes, TaskTypes, SlotTypes, CliTypes, PCs, Kicking,
     Ended
<1>29. ASSUME NEW a \in Agents, WindowExpires(a) PROVE TypeOK'
  BY <1>29, WakeConstants DEF WindowExpires, mailVars, taskVars, slotVars,
     TypeOK, MailTypes, TaskTypes, SlotTypes, CliTypes, PCs, Kicking, Ended
<1>30. ASSUME NEW a \in Agents, Pause(a) PROVE TypeOK'
  BY <1>30, WakeConstants DEF Pause, mailVars, taskVars, cliVars, hookVars,
     TypeOK, MailTypes, TaskTypes, SlotTypes, CliTypes, PCs, Kicking, Ended
<1>31. ASSUME NEW a \in Agents, SendCtrlC(a) PROVE TypeOK'
  <2>1. MailTypes'
    BY <1>31, WakeConstants DEF SendCtrlC, mailVars, taskVars, TypeOK,
       MailTypes, TaskTypes, SlotTypes, CliTypes
  <2>2. TaskTypes'
    BY <1>31, WakeConstants DEF SendCtrlC, mailVars, taskVars, TypeOK,
       MailTypes, TaskTypes, SlotTypes, CliTypes, PCs, Kicking, Ended
  <2>3. SlotTypes'
    BY <1>31, WakeConstants DEF SendCtrlC, mailVars, taskVars, TypeOK,
       MailTypes, TaskTypes, SlotTypes, CliTypes
  <2>4. CliTypes'
    BY <1>31, WakeConstants DEF SendCtrlC, mailVars, taskVars, TypeOK,
       MailTypes, TaskTypes, SlotTypes, CliTypes
  <2>5. QED
    BY <2>1, <2>2, <2>3, <2>4 DEF TypeOK
<1>32. ASSUME NEW a \in Agents, SendCtrlCFails(a) PROVE TypeOK'
  BY <1>32, WakeConstants DEF SendCtrlCFails, mailVars, taskVars, cliVars,
     hookVars, TypeOK, MailTypes, TaskTypes, SlotTypes, CliTypes, PCs, Kicking,
     Ended
<1>33. ASSUME NEW a \in Agents, RemoveSlot(a) PROVE TypeOK'
  BY <1>33, WakeConstants DEF RemoveSlot, mailVars, taskVars, cliVars, hookVars,
     TypeOK, MailTypes, TaskTypes, SlotTypes, CliTypes, PCs, Kicking, Ended
<1>34. ASSUME NEW a \in Agents, KillAndUnsubscribe(a) PROVE TypeOK'
  BY <1>34, WakeConstants DEF KillAndUnsubscribe, mailVars, taskVars, hookVars,
     TypeOK, MailTypes, TaskTypes, SlotTypes, CliTypes, PCs, Kicking, Ended
<1>35. ASSUME UNCHANGED vars PROVE TypeOK'
  BY <1>35 DEF TypeOK, MailTypes, TaskTypes, SlotTypes, CliTypes, PCs, Kicking,
     Ended, vars, mailVars, taskVars, slotVars, cliVars, hookVars
<1>36. QED
  BY <1>1, <1>2, <1>3, <1>4, <1>5, <1>6, <1>7, <1>8, <1>9, <1>10, <1>11, <1>12,
     <1>13, <1>14, <1>15, <1>16, <1>17, <1>18, <1>19, <1>20, <1>21, <1>22,
     <1>23, <1>24, <1>25, <1>26, <1>27, <1>28, <1>29, <1>30, <1>31, <1>32,
     <1>33, <1>34, <1>35
  DEF Next, Task, Cli, Operator

\* Only the tasks themselves touch the tasks and the kick locks.
LEMMA TaskFrame ==
  ASSUME NEW a \in Agents, Cli(a) \/ Operator(a) PROVE UNCHANGED taskVars
  BY DEF Cli, Operator, EndTurn, HookSkips, HookClaims, HookNoop, HookBlocks,
     PluginPrompts, HookLosesAnswer, WindowExpires, Pause, SendCtrlC,
     SendCtrlCFails, RemoveSlot, KillAndUnsubscribe, Rest

\* A step keeps the kick locks with the tasks inside their kicks.
LEMMA LockStep == ASSUME TaskTypes, KickLock, [Next]_vars PROVE KickLock'
<1>1. ASSUME NEW w \in Wakes, SpawnDeliverWake(w) PROVE KickLock'
  BY <1>1, WakeConstants DEF SpawnDeliverWake, Goto, mailVars, slotVars,
     cliVars, hookVars, KickLock, TaskTypes, PCs, Kicking, Ended
<1>2. ASSUME NEW w \in Wakes, WakeAgent(w) PROVE KickLock'
  BY <1>2, WakeConstants DEF WakeAgent, Goto, mailVars, slotVars, cliVars,
     hookVars, KickLock, TaskTypes, PCs, Kicking, Ended
<1>3. ASSUME NEW w \in Wakes, Resume(w) PROVE KickLock'
  BY <1>3, WakeConstants DEF Resume, Goto, mailVars, cliVars, hookVars,
     KickLock, TaskTypes, PCs, Kicking, Ended
<1>4. ASSUME NEW w \in Wakes, CheckPaused(w) PROVE KickLock'
  BY <1>4, WakeConstants DEF CheckPaused, Goto, mailVars, slotVars, cliVars,
     hookVars, KickLock, TaskTypes, PCs, Kicking, Ended
<1>5. ASSUME NEW w \in Wakes, InsertRow(w) PROVE KickLock'
  BY <1>5, WakeConstants DEF InsertRow, Goto, slotVars, cliVars, hookVars,
     KickLock, TaskTypes, PCs, Kicking, Ended
<1>6. ASSUME NEW w \in Wakes, InsertRowFails(w) PROVE KickLock'
  BY <1>6, WakeConstants DEF InsertRowFails, Goto, mailVars, slotVars, cliVars,
     hookVars, KickLock, TaskTypes, PCs, Kicking, Ended
<1>7. ASSUME NEW w \in Wakes, TryLock(w) PROVE KickLock'
  <2> SUFFICES ASSUME NEW v \in Wakes PROVE pc'[v] \in Kicking <=> lock'[Target[v]] = v
    BY DEF KickLock
  <2>1. Target[w] \in Agents /\ Target[v] \in Agents /\ v # NoTask
    BY WakeConstants
  <2>2. CASE v = w
    BY <1>7, <2>1, <2>2, WakeConstants DEF TryLock, Goto, mailVars, slotVars,
       cliVars, hookVars, KickLock, TaskTypes, PCs, Kicking, Ended
  <2>3. CASE v # w
    <3>1. pc'[v] = pc[v]
      BY <1>7, <2>3 DEF TryLock, Goto, mailVars, slotVars, cliVars, hookVars,
         TaskTypes
    <3>2. QED
      BY <1>7, <2>1, <2>3, <3>1 DEF TryLock, Goto, mailVars, slotVars, cliVars,
         hookVars, KickLock, TaskTypes, PCs, Kicking, Ended
  <2>4. QED
    BY <2>2, <2>3
<1>8. ASSUME NEW w \in Wakes, Coalesce(w) PROVE KickLock'
  BY <1>8, WakeConstants DEF Coalesce, Goto, mailVars, slotVars, cliVars,
     hookVars, KickLock, TaskTypes, PCs, Kicking, Ended
<1>9. ASSUME NEW w \in Wakes, AcquirePermit(w) PROVE KickLock'
  BY <1>9, WakeConstants DEF AcquirePermit, Goto, mailVars, slotVars, cliVars,
     hookVars, KickLock, TaskTypes, PCs, Kicking, Ended
<1>10. ASSUME NEW w \in Wakes, KickGone(w) PROVE KickLock'
  <2> SUFFICES ASSUME NEW v \in Wakes PROVE pc'[v] \in Kicking <=> lock'[Target[v]] = v
    BY DEF KickLock
  <2>1. Target[w] \in Agents /\ Target[v] \in Agents /\ v # NoTask
    BY WakeConstants
  <2>2. CASE v = w
    BY <1>10, <2>1, <2>2, WakeConstants DEF KickGone, Goto, Unlock, mailVars,
       cliVars, hookVars, KickLock, TaskTypes, PCs, Kicking, Ended
  <2>3. CASE v # w
    <3>1. pc'[v] = pc[v]
      BY <1>10, <2>3 DEF KickGone, Goto, Unlock, mailVars, cliVars, hookVars,
         TaskTypes
    <3>2. QED
      BY <1>10, <2>1, <2>3, <3>1 DEF KickGone, Goto, Unlock, mailVars, cliVars,
         hookVars, KickLock, TaskTypes, PCs, Kicking, Ended
  <2>4. QED
    BY <2>2, <2>3
<1>11. ASSUME NEW w \in Wakes, Peek(w) PROVE KickLock'
  BY <1>11, WakeConstants DEF Peek, Goto, KickText, Unread, mailVars, slotVars,
     cliVars, hookVars, KickLock, TaskTypes, PCs, Kicking, Ended
<1>12. ASSUME NEW w \in Wakes, PreClaim(w) PROVE KickLock'
  BY <1>12, WakeConstants DEF PreClaim, Goto, Consume, KickText, Unread,
     slotVars, cliVars, hookVars, KickLock, TaskTypes, PCs, Kicking, Ended
<1>13. ASSUME NEW w \in Wakes, NoBacklog(w) PROVE KickLock'
  BY <1>13, WakeConstants DEF NoBacklog, Goto, mailVars, slotVars, cliVars,
     hookVars, KickLock, TaskTypes, PCs, Kicking, Ended
<1>14. ASSUME NEW w \in Wakes, DeliverTurn(w) PROVE KickLock'
  BY <1>14, WakeConstants DEF DeliverTurn, Goto, Carry, StartTurn, slotVars,
     hookVars, KickLock, TaskTypes, PCs, Kicking, Ended
<1>15. ASSUME NEW w \in Wakes, TypeBody(w) PROVE KickLock'
  BY <1>15, WakeConstants DEF TypeBody, Goto, mailVars, slotVars, hookVars,
     KickLock, TaskTypes, PCs, Kicking, Ended
<1>16. ASSUME NEW w \in Wakes, Submit(w) PROVE KickLock'
  BY <1>16, WakeConstants DEF Submit, Goto, Carry, StartTurn, slotVars,
     hookVars, KickLock, TaskTypes, PCs, Kicking, Ended
<1>17. ASSUME NEW w \in Wakes, SubmitNothing(w) PROVE KickLock'
  BY <1>17, WakeConstants DEF SubmitNothing, Goto, mailVars, slotVars, cliVars,
     hookVars, KickLock, TaskTypes, PCs, Kicking, Ended
<1>18. ASSUME NEW w \in Wakes, DeliverFails(w) PROVE KickLock'
  <2> SUFFICES ASSUME NEW v \in Wakes PROVE pc'[v] \in Kicking <=> lock'[Target[v]] = v
    BY DEF KickLock
  <2>1. Target[w] \in Agents /\ Target[v] \in Agents /\ v # NoTask
    BY WakeConstants
  <2>2. CASE v = w
    BY <1>18, <2>1, <2>2, WakeConstants DEF DeliverFails, Unlock, mailVars,
       cliVars, hookVars, KickLock, TaskTypes, PCs, Kicking, Ended
  <2>3. CASE v # w
    <3>1. pc'[v] = pc[v]
      BY <1>18, <2>3 DEF DeliverFails, Unlock, mailVars, cliVars, hookVars,
         TaskTypes
    <3>2. QED
      BY <1>18, <2>1, <2>3, <3>1 DEF DeliverFails, Unlock, mailVars, cliVars,
         hookVars, KickLock, TaskTypes, PCs, Kicking, Ended
  <2>4. QED
    BY <2>2, <2>3
<1>19. ASSUME NEW w \in Wakes, PostClaim(w) PROVE KickLock'
  BY <1>19, WakeConstants DEF PostClaim, Goto, Consume, Unread, slotVars,
     cliVars, hookVars, KickLock, TaskTypes, PCs, Kicking, Ended
<1>20. ASSUME NEW w \in Wakes, PostClaimFails(w) PROVE KickLock'
  BY <1>20, WakeConstants DEF PostClaimFails, Goto, mailVars, slotVars, cliVars,
     hookVars, KickLock, TaskTypes, PCs, Kicking, Ended
<1>21. ASSUME NEW w \in Wakes, Release(w) PROVE KickLock'
  <2> SUFFICES ASSUME NEW v \in Wakes PROVE pc'[v] \in Kicking <=> lock'[Target[v]] = v
    BY DEF KickLock
  <2>1. Target[w] \in Agents /\ Target[v] \in Agents /\ v # NoTask
    BY WakeConstants
  <2>2. CASE v = w
    BY <1>21, <2>1, <2>2, WakeConstants DEF Release, Goto, Unlock, mailVars,
       slotVars, cliVars, hookVars, KickLock, TaskTypes, PCs, Kicking, Ended
  <2>3. CASE v # w
    <3>1. pc'[v] = pc[v]
      BY <1>21, <2>3 DEF Release, Goto, Unlock, mailVars, slotVars, cliVars,
         hookVars, TaskTypes
    <3>2. QED
      BY <1>21, <2>1, <2>3, <3>1 DEF Release, Goto, Unlock, mailVars, slotVars,
         cliVars, hookVars, KickLock, TaskTypes, PCs, Kicking, Ended
  <2>4. QED
    BY <2>2, <2>3
<1>22. ASSUME NEW a \in Agents, Cli(a) \/ Operator(a) PROVE KickLock'
  BY <1>22, TaskFrame DEF KickLock, TaskTypes, PCs, Kicking, Ended, taskVars
<1>23. ASSUME UNCHANGED vars PROVE KickLock'
  BY <1>23 DEF KickLock, TaskTypes, PCs, Kicking, Ended, vars, mailVars,
     taskVars, slotVars, cliVars, hookVars
<1>24. QED
  BY <1>1, <1>2, <1>3, <1>4, <1>5, <1>6, <1>7, <1>8, <1>9, <1>10, <1>11, <1>12,
     <1>13, <1>14, <1>15, <1>16, <1>17, <1>18, <1>19, <1>20, <1>21, <1>22, <1>23
  DEF Next, Task, Cli, Operator

\* A step leaves the claims of keystroke kicks behind their prompts.
LEMMA ClaimStep == ASSUME TypeOK, ClaimNotFailed, [Next]_vars PROVE ClaimNotFailed'
<1>1. ASSUME NEW w \in Wakes, SpawnDeliverWake(w) PROVE ClaimNotFailed'
  BY <1>1, WakeConstants DEF SpawnDeliverWake, Goto, mailVars, slotVars,
     cliVars, hookVars, MailTypes, TaskTypes, TypeOK, ClaimNotFailed
<1>2. ASSUME NEW w \in Wakes, WakeAgent(w) PROVE ClaimNotFailed'
  BY <1>2, WakeConstants DEF WakeAgent, Goto, mailVars, slotVars, cliVars,
     hookVars, MailTypes, TaskTypes, TypeOK, ClaimNotFailed
<1>3. ASSUME NEW w \in Wakes, Resume(w) PROVE ClaimNotFailed'
  BY <1>3, WakeConstants DEF Resume, Goto, mailVars, cliVars, hookVars,
     MailTypes, TaskTypes, TypeOK, ClaimNotFailed
<1>4. ASSUME NEW w \in Wakes, CheckPaused(w) PROVE ClaimNotFailed'
  BY <1>4, WakeConstants DEF CheckPaused, Goto, mailVars, slotVars, cliVars,
     hookVars, MailTypes, TaskTypes, TypeOK, ClaimNotFailed
<1>5. ASSUME NEW w \in Wakes, InsertRow(w) PROVE ClaimNotFailed'
  BY <1>5, WakeConstants DEF InsertRow, Goto, slotVars, cliVars, hookVars,
     MailTypes, TaskTypes, TypeOK, ClaimNotFailed
<1>6. ASSUME NEW w \in Wakes, InsertRowFails(w) PROVE ClaimNotFailed'
  BY <1>6, WakeConstants DEF InsertRowFails, Goto, mailVars, slotVars, cliVars,
     hookVars, MailTypes, TaskTypes, TypeOK, ClaimNotFailed
<1>7. ASSUME NEW w \in Wakes, TryLock(w) PROVE ClaimNotFailed'
  BY <1>7, WakeConstants DEF TryLock, Goto, mailVars, slotVars, cliVars,
     hookVars, MailTypes, TaskTypes, TypeOK, ClaimNotFailed
<1>8. ASSUME NEW w \in Wakes, Coalesce(w) PROVE ClaimNotFailed'
  BY <1>8, WakeConstants DEF Coalesce, Goto, mailVars, slotVars, cliVars,
     hookVars, MailTypes, TaskTypes, TypeOK, ClaimNotFailed
<1>9. ASSUME NEW w \in Wakes, AcquirePermit(w) PROVE ClaimNotFailed'
  BY <1>9, WakeConstants DEF AcquirePermit, Goto, mailVars, slotVars, cliVars,
     hookVars, MailTypes, TaskTypes, TypeOK, ClaimNotFailed
<1>10. ASSUME NEW w \in Wakes, KickGone(w) PROVE ClaimNotFailed'
  BY <1>10, WakeConstants DEF KickGone, Goto, Unlock, mailVars, cliVars,
     hookVars, MailTypes, TaskTypes, TypeOK, ClaimNotFailed
<1>11. ASSUME NEW w \in Wakes, Peek(w) PROVE ClaimNotFailed'
  BY <1>11, WakeConstants DEF Peek, Goto, KickText, Unread, mailVars, slotVars,
     cliVars, hookVars, MailTypes, TaskTypes, TypeOK, ClaimNotFailed
<1>12. ASSUME NEW w \in Wakes, PreClaim(w) PROVE ClaimNotFailed'
  BY <1>12, WakeConstants DEF PreClaim, Goto, Consume, KickText, Unread,
     slotVars, cliVars, hookVars, MailTypes, TaskTypes, TypeOK, ClaimNotFailed
<1>13. ASSUME NEW w \in Wakes, NoBacklog(w) PROVE ClaimNotFailed'
  BY <1>13, WakeConstants DEF NoBacklog, Goto, mailVars, slotVars, cliVars,
     hookVars, MailTypes, TaskTypes, TypeOK, ClaimNotFailed
<1>14. ASSUME NEW w \in Wakes, DeliverTurn(w) PROVE ClaimNotFailed'
  BY <1>14, WakeConstants DEF DeliverTurn, Goto, Carry, StartTurn, slotVars,
     hookVars, MailTypes, TaskTypes, TypeOK, ClaimNotFailed
<1>15. ASSUME NEW w \in Wakes, TypeBody(w) PROVE ClaimNotFailed'
  BY <1>15, WakeConstants DEF TypeBody, Goto, mailVars, slotVars, hookVars,
     MailTypes, TaskTypes, TypeOK, ClaimNotFailed
<1>16. ASSUME NEW w \in Wakes, Submit(w) PROVE ClaimNotFailed'
  BY <1>16, WakeConstants DEF Submit, Goto, Carry, StartTurn, slotVars,
     hookVars, MailTypes, TaskTypes, TypeOK, ClaimNotFailed
<1>17. ASSUME NEW w \in Wakes, SubmitNothing(w) PROVE ClaimNotFailed'
  BY <1>17, WakeConstants DEF SubmitNothing, Goto, mailVars, slotVars, cliVars,
     hookVars, MailTypes, TaskTypes, TypeOK, ClaimNotFailed
<1>18. ASSUME NEW w \in Wakes, DeliverFails(w) PROVE ClaimNotFailed'
  BY <1>18, WakeConstants DEF DeliverFails, Unlock, mailVars, cliVars, hookVars,
     MailTypes, TaskTypes, TypeOK, ClaimNotFailed
<1>19. ASSUME NEW w \in Wakes, PostClaim(w) PROVE ClaimNotFailed'
  BY <1>19, WakeConstants DEF PostClaim, Goto, Consume, Unread, slotVars,
     cliVars, hookVars, MailTypes, TaskTypes, TypeOK, ClaimNotFailed
<1>20. ASSUME NEW w \in Wakes, PostClaimFails(w) PROVE ClaimNotFailed'
  BY <1>20, WakeConstants DEF PostClaimFails, Goto, mailVars, slotVars, cliVars,
     hookVars, MailTypes, TaskTypes, TypeOK, ClaimNotFailed
<1>21. ASSUME NEW w \in Wakes, Release(w) PROVE ClaimNotFailed'
  BY <1>21, WakeConstants DEF Release, Goto, Unlock, mailVars, slotVars,
     cliVars, hookVars, MailTypes, TaskTypes, TypeOK, ClaimNotFailed
<1>22. ASSUME NEW a \in Agents, EndTurn(a) PROVE ClaimNotFailed'
  BY <1>22, WakeConstants DEF EndTurn, mailVars, taskVars, slotVars, hookVars,
     MailTypes, TaskTypes, TypeOK, ClaimNotFailed
<1>23. ASSUME NEW a \in Agents, HookSkips(a) PROVE ClaimNotFailed'
  BY <1>23, WakeConstants DEF HookSkips, Rest, mailVars, taskVars, slotVars,
     MailTypes, TaskTypes, TypeOK, ClaimNotFailed
<1>24. ASSUME NEW a \in Agents, HookClaims(a) PROVE ClaimNotFailed'
  BY <1>24, WakeConstants DEF HookClaims, Consume, Unread, taskVars, slotVars,
     MailTypes, TaskTypes, TypeOK, ClaimNotFailed
<1>25. ASSUME NEW a \in Agents, HookNoop(a) PROVE ClaimNotFailed'
  BY <1>25, WakeConstants DEF HookNoop, Rest, mailVars, taskVars, slotVars,
     MailTypes, TaskTypes, TypeOK, ClaimNotFailed
<1>26. ASSUME NEW a \in Agents, HookBlocks(a) PROVE ClaimNotFailed'
  BY <1>26, WakeConstants DEF HookBlocks, Carry, taskVars, slotVars, MailTypes,
     TaskTypes, TypeOK, ClaimNotFailed
<1>27. ASSUME NEW a \in Agents, PluginPrompts(a) PROVE ClaimNotFailed'
  BY <1>27, WakeConstants DEF PluginPrompts, Carry, taskVars, slotVars,
     MailTypes, TaskTypes, TypeOK, ClaimNotFailed
<1>28. ASSUME NEW a \in Agents, HookLosesAnswer(a) PROVE ClaimNotFailed'
  BY <1>28, WakeConstants DEF HookLosesAnswer, Rest, mailVars, taskVars,
     slotVars, MailTypes, TaskTypes, TypeOK, ClaimNotFailed
<1>29. ASSUME NEW a \in Agents, WindowExpires(a) PROVE ClaimNotFailed'
  BY <1>29, WakeConstants DEF WindowExpires, mailVars, taskVars, slotVars,
     MailTypes, TaskTypes, TypeOK, ClaimNotFailed
<1>30. ASSUME NEW a \in Agents, Pause(a) PROVE ClaimNotFailed'
  BY <1>30, WakeConstants DEF Pause, mailVars, taskVars, cliVars, hookVars,
     MailTypes, TaskTypes, TypeOK, ClaimNotFailed
<1>31. ASSUME NEW a \in Agents, SendCtrlC(a) PROVE ClaimNotFailed'
  BY <1>31, WakeConstants DEF SendCtrlC, mailVars, taskVars, MailTypes,
     TaskTypes, TypeOK, ClaimNotFailed
<1>32. ASSUME NEW a \in Agents, SendCtrlCFails(a) PROVE ClaimNotFailed'
  BY <1>32, WakeConstants DEF SendCtrlCFails, mailVars, taskVars, cliVars,
     hookVars, MailTypes, TaskTypes, TypeOK, ClaimNotFailed
<1>33. ASSUME NEW a \in Agents, RemoveSlot(a) PROVE ClaimNotFailed'
  BY <1>33, WakeConstants DEF RemoveSlot, mailVars, taskVars, cliVars, hookVars,
     MailTypes, TaskTypes, TypeOK, ClaimNotFailed
<1>34. ASSUME NEW a \in Agents, KillAndUnsubscribe(a) PROVE ClaimNotFailed'
  BY <1>34, WakeConstants DEF KillAndUnsubscribe, mailVars, taskVars, hookVars,
     MailTypes, TaskTypes, TypeOK, ClaimNotFailed
<1>35. ASSUME UNCHANGED vars PROVE ClaimNotFailed'
  BY <1>35 DEF MailTypes, TaskTypes, TypeOK, ClaimNotFailed, vars, mailVars,
     taskVars, slotVars, cliVars, hookVars
<1>36. QED
  BY <1>1, <1>2, <1>3, <1>4, <1>5, <1>6, <1>7, <1>8, <1>9, <1>10, <1>11, <1>12,
     <1>13, <1>14, <1>15, <1>16, <1>17, <1>18, <1>19, <1>20, <1>21, <1>22,
     <1>23, <1>24, <1>25, <1>26, <1>27, <1>28, <1>29, <1>30, <1>31, <1>32,
     <1>33, <1>34, <1>35
  DEF Next, Task, Cli, Operator

\* A step keeps typed text with the kick that typed it.
LEMMA ComposerStep == ASSUME TypeOK, SingleFlight, ComposerIntact, [Next]_vars PROVE ComposerIntact'
<1>1. ASSUME NEW w \in Wakes, SpawnDeliverWake(w) PROVE ComposerIntact'
  BY <1>1, WakeConstants DEF SpawnDeliverWake, Goto, mailVars, slotVars,
     cliVars, hookVars, TypeOK, TaskTypes, CliTypes, SingleFlight,
     ComposerIntact, Kicking
<1>2. ASSUME NEW w \in Wakes, WakeAgent(w) PROVE ComposerIntact'
  BY <1>2, WakeConstants DEF WakeAgent, Goto, mailVars, slotVars, cliVars,
     hookVars, TypeOK, TaskTypes, CliTypes, SingleFlight, ComposerIntact,
     Kicking
<1>3. ASSUME NEW w \in Wakes, Resume(w) PROVE ComposerIntact'
  BY <1>3, WakeConstants DEF Resume, Goto, mailVars, cliVars, hookVars, TypeOK,
     TaskTypes, CliTypes, SingleFlight, ComposerIntact, Kicking
<1>4. ASSUME NEW w \in Wakes, CheckPaused(w) PROVE ComposerIntact'
  BY <1>4, WakeConstants DEF CheckPaused, Goto, mailVars, slotVars, cliVars,
     hookVars, TypeOK, TaskTypes, CliTypes, SingleFlight, ComposerIntact,
     Kicking
<1>5. ASSUME NEW w \in Wakes, InsertRow(w) PROVE ComposerIntact'
  BY <1>5, WakeConstants DEF InsertRow, Goto, slotVars, cliVars, hookVars,
     TypeOK, TaskTypes, CliTypes, SingleFlight, ComposerIntact, Kicking
<1>6. ASSUME NEW w \in Wakes, InsertRowFails(w) PROVE ComposerIntact'
  BY <1>6, WakeConstants DEF InsertRowFails, Goto, mailVars, slotVars, cliVars,
     hookVars, TypeOK, TaskTypes, CliTypes, SingleFlight, ComposerIntact,
     Kicking
<1>7. ASSUME NEW w \in Wakes, TryLock(w) PROVE ComposerIntact'
  BY <1>7, WakeConstants DEF TryLock, Goto, mailVars, slotVars, cliVars,
     hookVars, TypeOK, TaskTypes, CliTypes, SingleFlight, ComposerIntact,
     Kicking
<1>8. ASSUME NEW w \in Wakes, Coalesce(w) PROVE ComposerIntact'
  BY <1>8, WakeConstants DEF Coalesce, Goto, mailVars, slotVars, cliVars,
     hookVars, TypeOK, TaskTypes, CliTypes, SingleFlight, ComposerIntact,
     Kicking
<1>9. ASSUME NEW w \in Wakes, AcquirePermit(w) PROVE ComposerIntact'
  BY <1>9, WakeConstants DEF AcquirePermit, Goto, mailVars, slotVars, cliVars,
     hookVars, TypeOK, TaskTypes, CliTypes, SingleFlight, ComposerIntact,
     Kicking
<1>10. ASSUME NEW w \in Wakes, KickGone(w) PROVE ComposerIntact'
  BY <1>10, WakeConstants DEF KickGone, Goto, Unlock, mailVars, cliVars,
     hookVars, TypeOK, TaskTypes, CliTypes, SingleFlight, ComposerIntact,
     Kicking
<1>11. ASSUME NEW w \in Wakes, Peek(w) PROVE ComposerIntact'
  BY <1>11, WakeConstants DEF Peek, Goto, KickText, Unread, mailVars, slotVars,
     cliVars, hookVars, TypeOK, TaskTypes, CliTypes, SingleFlight,
     ComposerIntact, Kicking
<1>12. ASSUME NEW w \in Wakes, PreClaim(w) PROVE ComposerIntact'
  BY <1>12, WakeConstants DEF PreClaim, Goto, Consume, KickText, Unread,
     slotVars, cliVars, hookVars, TypeOK, TaskTypes, CliTypes, SingleFlight,
     ComposerIntact, Kicking
<1>13. ASSUME NEW w \in Wakes, NoBacklog(w) PROVE ComposerIntact'
  BY <1>13, WakeConstants DEF NoBacklog, Goto, mailVars, slotVars, cliVars,
     hookVars, TypeOK, TaskTypes, CliTypes, SingleFlight, ComposerIntact,
     Kicking
<1>14. ASSUME NEW w \in Wakes, DeliverTurn(w) PROVE ComposerIntact'
  BY <1>14, WakeConstants DEF DeliverTurn, Goto, Carry, StartTurn, slotVars,
     hookVars, TypeOK, TaskTypes, CliTypes, SingleFlight, ComposerIntact,
     Kicking
<1>15. ASSUME NEW w \in Wakes, TypeBody(w) PROVE ComposerIntact'
  BY <1>15, WakeConstants DEF TypeBody, Goto, mailVars, slotVars, hookVars,
     TypeOK, TaskTypes, CliTypes, SingleFlight, ComposerIntact, Kicking
<1>16. ASSUME NEW w \in Wakes, Submit(w) PROVE ComposerIntact'
  BY <1>16, WakeConstants DEF Submit, Goto, Carry, StartTurn, slotVars,
     hookVars, TypeOK, TaskTypes, CliTypes, SingleFlight, ComposerIntact,
     Kicking
<1>17. ASSUME NEW w \in Wakes, SubmitNothing(w) PROVE ComposerIntact'
  BY <1>17, WakeConstants DEF SubmitNothing, Goto, mailVars, slotVars, cliVars,
     hookVars, TypeOK, TaskTypes, CliTypes, SingleFlight, ComposerIntact,
     Kicking
<1>18. ASSUME NEW w \in Wakes, DeliverFails(w) PROVE ComposerIntact'
  BY <1>18, WakeConstants DEF DeliverFails, Unlock, mailVars, cliVars, hookVars,
     TypeOK, TaskTypes, CliTypes, SingleFlight, ComposerIntact, Kicking
<1>19. ASSUME NEW w \in Wakes, PostClaim(w) PROVE ComposerIntact'
  BY <1>19, WakeConstants DEF PostClaim, Goto, Consume, Unread, slotVars,
     cliVars, hookVars, TypeOK, TaskTypes, CliTypes, SingleFlight,
     ComposerIntact, Kicking
<1>20. ASSUME NEW w \in Wakes, PostClaimFails(w) PROVE ComposerIntact'
  BY <1>20, WakeConstants DEF PostClaimFails, Goto, mailVars, slotVars, cliVars,
     hookVars, TypeOK, TaskTypes, CliTypes, SingleFlight, ComposerIntact,
     Kicking
<1>21. ASSUME NEW w \in Wakes, Release(w) PROVE ComposerIntact'
  BY <1>21, WakeConstants DEF Release, Goto, Unlock, mailVars, slotVars,
     cliVars, hookVars, TypeOK, TaskTypes, CliTypes, SingleFlight,
     ComposerIntact, Kicking
<1>22. ASSUME NEW a \in Agents, EndTurn(a) PROVE ComposerIntact'
  BY <1>22, WakeConstants DEF EndTurn, mailVars, taskVars, slotVars, hookVars,
     TypeOK, TaskTypes, CliTypes, SingleFlight, ComposerIntact, Kicking
<1>23. ASSUME NEW a \in Agents, HookSkips(a) PROVE ComposerIntact'
  BY <1>23, WakeConstants DEF HookSkips, Rest, mailVars, taskVars, slotVars,
     TypeOK, TaskTypes, CliTypes, SingleFlight, ComposerIntact, Kicking
<1>24. ASSUME NEW a \in Agents, HookClaims(a) PROVE ComposerIntact'
  BY <1>24, WakeConstants DEF HookClaims, Consume, Unread, taskVars, slotVars,
     TypeOK, TaskTypes, CliTypes, SingleFlight, ComposerIntact, Kicking
<1>25. ASSUME NEW a \in Agents, HookNoop(a) PROVE ComposerIntact'
  BY <1>25, WakeConstants DEF HookNoop, Rest, mailVars, taskVars, slotVars,
     TypeOK, TaskTypes, CliTypes, SingleFlight, ComposerIntact, Kicking
<1>26. ASSUME NEW a \in Agents, HookBlocks(a) PROVE ComposerIntact'
  BY <1>26, WakeConstants DEF HookBlocks, Carry, taskVars, slotVars, TypeOK,
     TaskTypes, CliTypes, SingleFlight, ComposerIntact, Kicking
<1>27. ASSUME NEW a \in Agents, PluginPrompts(a) PROVE ComposerIntact'
  BY <1>27, WakeConstants DEF PluginPrompts, Carry, taskVars, slotVars, TypeOK,
     TaskTypes, CliTypes, SingleFlight, ComposerIntact, Kicking
<1>28. ASSUME NEW a \in Agents, HookLosesAnswer(a) PROVE ComposerIntact'
  BY <1>28, WakeConstants DEF HookLosesAnswer, Rest, mailVars, taskVars,
     slotVars, TypeOK, TaskTypes, CliTypes, SingleFlight, ComposerIntact,
     Kicking
<1>29. ASSUME NEW a \in Agents, WindowExpires(a) PROVE ComposerIntact'
  BY <1>29, WakeConstants DEF WindowExpires, mailVars, taskVars, slotVars,
     TypeOK, TaskTypes, CliTypes, SingleFlight, ComposerIntact, Kicking
<1>30. ASSUME NEW a \in Agents, Pause(a) PROVE ComposerIntact'
  BY <1>30, WakeConstants DEF Pause, mailVars, taskVars, cliVars, hookVars,
     TypeOK, TaskTypes, CliTypes, SingleFlight, ComposerIntact, Kicking
<1>31. ASSUME NEW a \in Agents, SendCtrlC(a) PROVE ComposerIntact'
  BY <1>31, WakeConstants DEF SendCtrlC, mailVars, taskVars, TypeOK, TaskTypes,
     CliTypes, SingleFlight, ComposerIntact, Kicking
<1>32. ASSUME NEW a \in Agents, SendCtrlCFails(a) PROVE ComposerIntact'
  BY <1>32, WakeConstants DEF SendCtrlCFails, mailVars, taskVars, cliVars,
     hookVars, TypeOK, TaskTypes, CliTypes, SingleFlight, ComposerIntact,
     Kicking
<1>33. ASSUME NEW a \in Agents, RemoveSlot(a) PROVE ComposerIntact'
  BY <1>33, WakeConstants DEF RemoveSlot, mailVars, taskVars, cliVars, hookVars,
     TypeOK, TaskTypes, CliTypes, SingleFlight, ComposerIntact, Kicking
<1>34. ASSUME NEW a \in Agents, KillAndUnsubscribe(a) PROVE ComposerIntact'
  BY <1>34, WakeConstants DEF KillAndUnsubscribe, mailVars, taskVars, hookVars,
     TypeOK, TaskTypes, CliTypes, SingleFlight, ComposerIntact, Kicking
<1>35. ASSUME UNCHANGED vars PROVE ComposerIntact'
  BY <1>35 DEF TypeOK, TaskTypes, CliTypes, SingleFlight, ComposerIntact,
     Kicking, vars, mailVars, taskVars, slotVars, cliVars, hookVars
<1>36. QED
  BY <1>1, <1>2, <1>3, <1>4, <1>5, <1>6, <1>7, <1>8, <1>9, <1>10, <1>11, <1>12,
     <1>13, <1>14, <1>15, <1>16, <1>17, <1>18, <1>19, <1>20, <1>21, <1>22,
     <1>23, <1>24, <1>25, <1>26, <1>27, <1>28, <1>29, <1>30, <1>31, <1>32,
     <1>33, <1>34, <1>35
  DEF Next, Task, Cli, Operator

\* A step inserts no row before its task does.
LEMMA RowStep == ASSUME TypeOK, RowFresh, [Next]_vars PROVE RowFresh'
<1>1. ASSUME NEW w \in Wakes, SpawnDeliverWake(w) PROVE RowFresh'
  BY <1>1 DEF SpawnDeliverWake, Goto, mailVars, slotVars, cliVars, hookVars,
     TypeOK, MailTypes, TaskTypes, RowFresh
<1>2. ASSUME NEW w \in Wakes, WakeAgent(w) PROVE RowFresh'
  BY <1>2 DEF WakeAgent, Goto, mailVars, slotVars, cliVars, hookVars, TypeOK,
     MailTypes, TaskTypes, RowFresh
<1>3. ASSUME NEW w \in Wakes, Resume(w) PROVE RowFresh'
  BY <1>3 DEF Resume, Goto, mailVars, cliVars, hookVars, TypeOK, MailTypes,
     TaskTypes, RowFresh
<1>4. ASSUME NEW w \in Wakes, CheckPaused(w) PROVE RowFresh'
  BY <1>4 DEF CheckPaused, Goto, mailVars, slotVars, cliVars, hookVars, TypeOK,
     MailTypes, TaskTypes, RowFresh
<1>5. ASSUME NEW w \in Wakes, InsertRow(w) PROVE RowFresh'
  BY <1>5 DEF InsertRow, Goto, slotVars, cliVars, hookVars, TypeOK, MailTypes,
     TaskTypes, RowFresh
<1>6. ASSUME NEW w \in Wakes, InsertRowFails(w) PROVE RowFresh'
  BY <1>6 DEF InsertRowFails, Goto, mailVars, slotVars, cliVars, hookVars,
     TypeOK, MailTypes, TaskTypes, RowFresh
<1>7. ASSUME NEW w \in Wakes, TryLock(w) PROVE RowFresh'
  BY <1>7 DEF TryLock, Goto, mailVars, slotVars, cliVars, hookVars, TypeOK,
     MailTypes, TaskTypes, RowFresh
<1>8. ASSUME NEW w \in Wakes, Coalesce(w) PROVE RowFresh'
  BY <1>8 DEF Coalesce, Goto, mailVars, slotVars, cliVars, hookVars, TypeOK,
     MailTypes, TaskTypes, RowFresh
<1>9. ASSUME NEW w \in Wakes, AcquirePermit(w) PROVE RowFresh'
  BY <1>9 DEF AcquirePermit, Goto, mailVars, slotVars, cliVars, hookVars,
     TypeOK, MailTypes, TaskTypes, RowFresh
<1>10. ASSUME NEW w \in Wakes, KickGone(w) PROVE RowFresh'
  BY <1>10 DEF KickGone, Goto, Unlock, mailVars, cliVars, hookVars, TypeOK,
     MailTypes, TaskTypes, RowFresh
<1>11. ASSUME NEW w \in Wakes, Peek(w) PROVE RowFresh'
  BY <1>11 DEF Peek, Goto, KickText, Unread, mailVars, slotVars, cliVars,
     hookVars, TypeOK, MailTypes, TaskTypes, RowFresh
<1>12. ASSUME NEW w \in Wakes, PreClaim(w) PROVE RowFresh'
  BY <1>12 DEF PreClaim, Goto, Consume, KickText, Unread, slotVars, cliVars,
     hookVars, TypeOK, MailTypes, TaskTypes, RowFresh
<1>13. ASSUME NEW w \in Wakes, NoBacklog(w) PROVE RowFresh'
  BY <1>13 DEF NoBacklog, Goto, mailVars, slotVars, cliVars, hookVars, TypeOK,
     MailTypes, TaskTypes, RowFresh
<1>14. ASSUME NEW w \in Wakes, DeliverTurn(w) PROVE RowFresh'
  BY <1>14 DEF DeliverTurn, Goto, Carry, StartTurn, slotVars, hookVars, TypeOK,
     MailTypes, TaskTypes, RowFresh
<1>15. ASSUME NEW w \in Wakes, TypeBody(w) PROVE RowFresh'
  BY <1>15 DEF TypeBody, Goto, mailVars, slotVars, hookVars, TypeOK, MailTypes,
     TaskTypes, RowFresh
<1>16. ASSUME NEW w \in Wakes, Submit(w) PROVE RowFresh'
  BY <1>16 DEF Submit, Goto, Carry, StartTurn, slotVars, hookVars, TypeOK,
     MailTypes, TaskTypes, RowFresh
<1>17. ASSUME NEW w \in Wakes, SubmitNothing(w) PROVE RowFresh'
  BY <1>17 DEF SubmitNothing, Goto, mailVars, slotVars, cliVars, hookVars,
     TypeOK, MailTypes, TaskTypes, RowFresh
<1>18. ASSUME NEW w \in Wakes, DeliverFails(w) PROVE RowFresh'
  BY <1>18 DEF DeliverFails, Unlock, mailVars, cliVars, hookVars, TypeOK,
     MailTypes, TaskTypes, RowFresh
<1>19. ASSUME NEW w \in Wakes, PostClaim(w) PROVE RowFresh'
  BY <1>19 DEF PostClaim, Goto, Consume, Unread, slotVars, cliVars, hookVars,
     TypeOK, MailTypes, TaskTypes, RowFresh
<1>20. ASSUME NEW w \in Wakes, PostClaimFails(w) PROVE RowFresh'
  BY <1>20 DEF PostClaimFails, Goto, mailVars, slotVars, cliVars, hookVars,
     TypeOK, MailTypes, TaskTypes, RowFresh
<1>21. ASSUME NEW w \in Wakes, Release(w) PROVE RowFresh'
  BY <1>21 DEF Release, Goto, Unlock, mailVars, slotVars, cliVars, hookVars,
     TypeOK, MailTypes, TaskTypes, RowFresh
<1>22. ASSUME NEW a \in Agents, Cli(a) \/ Operator(a) PROVE RowFresh'
  BY <1>22, TaskFrame DEF TypeOK, MailTypes, RowFresh, taskVars, mailVars, Cli,
     Operator, EndTurn, HookSkips, HookClaims, HookNoop, HookBlocks,
     PluginPrompts, HookLosesAnswer, WindowExpires, Pause, SendCtrlC,
     SendCtrlCFails, RemoveSlot, KillAndUnsubscribe, Rest, Consume, Unread
<1>23. ASSUME UNCHANGED vars PROVE RowFresh'
  BY <1>23 DEF TypeOK, MailTypes, TaskTypes, RowFresh, vars, mailVars, taskVars,
     slotVars, cliVars, hookVars
<1>24. QED
  BY <1>1, <1>2, <1>3, <1>4, <1>5, <1>6, <1>7, <1>8, <1>9, <1>10, <1>11, <1>12,
     <1>13, <1>14, <1>15, <1>16, <1>17, <1>18, <1>19, <1>20, <1>21, <1>22, <1>23
  DEF Next, Task, Cli, Operator

\* A step that leaves claims, prompts and texts alone keeps advance claims carried,
\* if it moves no kick back and no opencode kick past its delivery.
LEMMA QuietKick ==
  ASSUME TypeOK, PreClaimLeads, PreClaimCarries, UNCHANGED <<by, carriers, text>>,
         NEW w \in Wakes, \A v \in Wakes \ {w} : pc'[v] = pc[v],
         Engine[Target[w]] = "opencode" =>
           /\ pc'[w] \notin {"typed", "sent"}
           /\ pc[w] \in {"idle", "spawned", "insert", "posted", "locked", "kick"}
              \/ pc'[w] = "failed" \/ (pc[w] = "claimed" /\ pc'[w] = "done")
  PROVE  PreClaimLeads' /\ PreClaimCarries'
<1>1. PreClaimLeads'
  BY DEF PreClaimLeads
<1>2. PreClaimCarries'
  BY DEF PreClaimLeads, PreClaimCarries
<1>3. QED
  BY <1>1, <1>2

\* A step keeps the rows of advance claims in a prompt.
LEMMA PreClaimStep ==
  ASSUME TypeOK, PreClaimLeads, PreClaimCarries, [Next]_vars
  PROVE  PreClaimLeads' /\ PreClaimCarries'
<1>1. ASSUME NEW w \in Wakes,
             \/ SpawnDeliverWake(w) \/ WakeAgent(w) \/ Resume(w) \/ CheckPaused(w) \/ InsertRow(w)
             \/ InsertRowFails(w) \/ TryLock(w) \/ Coalesce(w) \/ AcquirePermit(w) \/ KickGone(w)
      PROVE PreClaimLeads' /\ PreClaimCarries'
  <2>1. UNCHANGED <<by, carriers, text>>
    BY <1>1 DEF SpawnDeliverWake, WakeAgent, Resume, CheckPaused, InsertRow, InsertRowFails, TryLock,
       Coalesce, AcquirePermit, KickGone, mailVars
  <2>2. \A v \in Wakes \ {w} : pc'[v] = pc[v]
    BY <1>1 DEF SpawnDeliverWake, WakeAgent, Resume, CheckPaused, InsertRow, InsertRowFails, TryLock,
       Coalesce, AcquirePermit, KickGone, Goto, TypeOK, TaskTypes
  <2>3. /\ pc[w] \in {"idle", "spawned", "insert", "posted", "locked", "kick"}
        /\ pc'[w] \notin {"typed", "sent"}
    BY <1>1 DEF SpawnDeliverWake, WakeAgent, Resume, CheckPaused, InsertRow, InsertRowFails, TryLock,
       Coalesce, AcquirePermit, KickGone, Goto, TypeOK, TaskTypes
  <2>4. Engine[Target[w]] = "opencode" =>
          /\ pc'[w] \notin {"typed", "sent"}
          /\ pc[w] \in {"idle", "spawned", "insert", "posted", "locked", "kick"}
             \/ pc'[w] = "failed" \/ (pc[w] = "claimed" /\ pc'[w] = "done")
    BY <2>3
  <2>5. QED
    BY <2>1, <2>2, <2>4, QuietKick
<1>2. ASSUME NEW w \in Wakes, Peek(w) \/ NoBacklog(w) PROVE PreClaimLeads' /\ PreClaimCarries'
  <2>1. /\ pc[w] = "kick" /\ pc' = [pc EXCEPT ![w] = "deliver"] /\ UNCHANGED <<by, carriers>>
        /\ \A v \in Wakes \ {w} : text'[v] = text[v]
    BY <1>2 DEF Peek, NoBacklog, Goto, mailVars, TypeOK, TaskTypes
  <2>2. QED
    BY <2>1 DEF PreClaimLeads, PreClaimCarries, TypeOK, TaskTypes
<1>3. ASSUME NEW w \in Wakes, PreClaim(w) PROVE PreClaimLeads' /\ PreClaimCarries'
  <2>1. /\ pc[w] = "kick" /\ pc' = [pc EXCEPT ![w] = "deliver"] /\ UNCHANGED carriers
        /\ Engine[Target[w]] = "opencode"
        /\ \A v \in Wakes \ {w} : text'[v] = text[v]
        /\ text'[w] = KickText(w, Unread(Target[w]))
        /\ \A r \in Wakes : by'[r] = IF r \in Unread(Target[w]) THEN by[r] \cup {w} ELSE by[r]
    BY <1>3 DEF PreClaim, Consume, Goto, TypeOK, TaskTypes
  <2>2. \A r \in Wakes : w \notin by[r]
    BY <2>1 DEF PreClaimLeads
  <2>3. \A r \in Unread(Target[w]) : w \notin Manual => r \in text'[w]
    BY <2>1 DEF KickText
  <2>4. \A r, v \in Wakes : v \in by'[r] => v \in by[r] \/ (v = w /\ r \in Unread(Target[w]))
    BY <2>1
  <2>5. \A v \in Wakes : pc'[v] = IF v = w THEN "deliver" ELSE pc[v]
    BY <2>1 DEF TypeOK, TaskTypes
  <2>6. PreClaimLeads'
    BY <2>1, <2>4, <2>5 DEF PreClaimLeads
  <2>7. PreClaimCarries'
    BY <2>1, <2>2, <2>3, <2>4, <2>5 DEF PreClaimCarries
  <2>8. QED
    BY <2>6, <2>7
<1>4. ASSUME NEW w \in Wakes, DeliverTurn(w) PROVE PreClaimLeads' /\ PreClaimCarries'
  <2>1. /\ pc[w] = "deliver" /\ UNCHANGED <<by, text>>
        /\ \A v \in Wakes : pc'[v] = IF v = w THEN "claimed" ELSE pc[v]
        /\ \A r \in Wakes : carriers'[r] = IF r \in text[w] THEN carriers[r] \cup {w} ELSE carriers[r]
    BY <1>4 DEF DeliverTurn, Carry, Goto, TypeOK, TaskTypes
  <2>2. PreClaimLeads'
    BY <2>1 DEF PreClaimLeads
  <2>3. PreClaimCarries'
    BY <2>1 DEF PreClaimCarries
  <2>4. QED
    BY <2>2, <2>3
<1>5. ASSUME NEW w \in Wakes, TypeBody(w) \/ SubmitNothing(w) \/ DeliverFails(w) \/ PostClaimFails(w) \/ Release(w)
      PROVE PreClaimLeads' /\ PreClaimCarries'
  <2>1. UNCHANGED <<by, carriers, text>>
    BY <1>5 DEF TypeBody, SubmitNothing, DeliverFails, PostClaimFails, Release, mailVars
  <2>2. \A v \in Wakes \ {w} : pc'[v] = pc[v]
    BY <1>5 DEF TypeBody, SubmitNothing, DeliverFails, PostClaimFails, Release, Goto, TypeOK, TaskTypes
  <2>3. Engine[Target[w]] = "opencode" =>
          /\ pc'[w] \notin {"typed", "sent"}
          /\ pc[w] \in {"idle", "spawned", "insert", "posted", "locked", "kick"}
             \/ pc'[w] = "failed" \/ (pc[w] = "claimed" /\ pc'[w] = "done")
    <3>1. CASE TypeBody(w) \/ SubmitNothing(w) \/ PostClaimFails(w)
      BY <3>1 DEF TypeBody, SubmitNothing, PostClaimFails, Goto, PreClaimLeads
    <3>2. CASE DeliverFails(w) \/ Release(w)
      BY <3>2 DEF DeliverFails, Release, Goto, TypeOK, TaskTypes
    <3>3. QED
      BY <1>5, <3>1, <3>2
  <2>4. QED
    BY <2>1, <2>2, <2>3, QuietKick
<1>6. ASSUME NEW w \in Wakes, Submit(w) PROVE PreClaimLeads' /\ PreClaimCarries'
  <2>1. /\ pc[w] = "typed" /\ UNCHANGED <<by, text>>
        /\ \A v \in Wakes : pc'[v] = IF v = w THEN "sent" ELSE pc[v]
        /\ \A r \in Wakes : carriers[r] \subseteq carriers'[r]
    BY <1>6 DEF Submit, Carry, Goto, TypeOK, TaskTypes
  <2>2. Engine[Target[w]] # "opencode"
    BY <2>1 DEF PreClaimLeads
  <2>3. QED
    BY <2>1, <2>2 DEF PreClaimLeads, PreClaimCarries
<1>7. ASSUME NEW w \in Wakes, PostClaim(w) PROVE PreClaimLeads' /\ PreClaimCarries'
  <2>1. /\ pc[w] = "sent" /\ UNCHANGED <<carriers, text>>
        /\ \A v \in Wakes : pc'[v] = IF v = w THEN "claimed" ELSE pc[v]
        /\ \A r, v \in Wakes : v # w /\ v \in by'[r] => v \in by[r]
    BY <1>7 DEF PostClaim, Consume, Goto, TypeOK, TaskTypes
  <2>2. Engine[Target[w]] # "opencode"
    BY <2>1 DEF PreClaimLeads
  <2>3. QED
    BY <2>1, <2>2 DEF PreClaimLeads, PreClaimCarries
<1>8. ASSUME NEW a \in Agents, Cli(a) \/ Operator(a) PROVE PreClaimLeads' /\ PreClaimCarries'
  <2>1. UNCHANGED <<pc, text>>
    BY <1>8, TaskFrame DEF taskVars
  <2>2. \A r, v \in Wakes : v \in by'[r] => v \in by[r]
    <3>1. CASE HookClaims(a)
      BY <3>1, WakeConstants DEF HookClaims, Consume
    <3>2. CASE ~HookClaims(a)
      BY <1>8, <3>2 DEF Cli, Operator, EndTurn, HookSkips, HookNoop, HookBlocks, PluginPrompts,
         HookLosesAnswer, WindowExpires, Pause, SendCtrlC, SendCtrlCFails, RemoveSlot,
         KillAndUnsubscribe, mailVars
    <3>3. QED
      BY <3>1, <3>2
  <2>3. \A r \in Wakes : carriers[r] \subseteq carriers'[r]
    BY <1>8 DEF Cli, Operator, EndTurn, HookSkips, HookClaims, HookNoop, HookBlocks, PluginPrompts,
       HookLosesAnswer, WindowExpires, Pause, SendCtrlC, SendCtrlCFails, RemoveSlot,
       KillAndUnsubscribe, mailVars, Carry
  <2>4. QED
    BY <2>1, <2>2, <2>3 DEF PreClaimLeads, PreClaimCarries
<1>9. ASSUME UNCHANGED vars PROVE PreClaimLeads' /\ PreClaimCarries'
  BY <1>9 DEF PreClaimLeads, PreClaimCarries, vars, mailVars, taskVars
<1>10. QED
  BY <1>1, <1>2, <1>3, <1>4, <1>5, <1>6, <1>7, <1>8, <1>9 DEF Next, Task

\* A step posts a row, claims a backlog, or leaves the mailbox alone.
LEMMA MailboxStep ==
  ASSUME RowFresh, [Next]_vars PROVE [Mailbox!Next]_(Mailbox!vars)
<1>1. ASSUME NEW w \in Wakes, InsertRow(w) PROVE Mailbox!Post(w)
  BY <1>1 DEF InsertRow, Goto, RowFresh, Mailbox!Post
<1>2. ASSUME NEW w \in Wakes, PreClaim(w) PROVE Mailbox!Consume(Target[w], w)
  BY <1>2 DEF PreClaim, Consume, Unread, Mailbox!Consume, Mailbox!Unread
<1>3. ASSUME NEW w \in Wakes, PostClaim(w) PROVE Mailbox!Consume(Target[w], w)
  BY <1>3 DEF PostClaim, Consume, Unread, Mailbox!Consume, Mailbox!Unread
<1>4. ASSUME NEW a \in Agents, HookClaims(a) PROVE Mailbox!Consume(a, a)
  BY <1>4 DEF HookClaims, Consume, Unread, Mailbox!Consume, Mailbox!Unread
<1>5. ASSUME NEW w \in Wakes, Task(w) PROVE [Mailbox!Next]_(Mailbox!vars)
  <2>1. CASE InsertRow(w)
    BY <1>1, <2>1 DEF Mailbox!Next
  <2>2. CASE PreClaim(w) \/ PostClaim(w)
    BY <1>2, <1>3, <2>2, WakeConstants DEF Mailbox!Next
  <2>3. CASE Task(w) /\ ~InsertRow(w) /\ ~PreClaim(w) /\ ~PostClaim(w)
    BY <2>3 DEF Mailbox!vars, mailVars, Carry, Task, SpawnDeliverWake,
       WakeAgent, Resume, CheckPaused, InsertRowFails, TryLock, Coalesce,
       AcquirePermit, KickGone, Peek, NoBacklog, DeliverTurn, TypeBody, Submit,
       SubmitNothing, DeliverFails, PostClaimFails, Release
  <2>4. QED
    BY <1>5, <2>1, <2>2, <2>3
<1>6. ASSUME NEW a \in Agents, Cli(a) \/ Operator(a) PROVE [Mailbox!Next]_(Mailbox!vars)
  <2>1. CASE HookClaims(a)
    BY <1>4, <2>1 DEF Mailbox!Next
  <2>2. CASE ~HookClaims(a)
    BY <1>6, <2>2 DEF Mailbox!vars, mailVars, Carry, Cli, Operator, EndTurn,
       HookSkips, HookNoop, HookBlocks, PluginPrompts, HookLosesAnswer,
       WindowExpires, Pause, SendCtrlC, SendCtrlCFails, RemoveSlot,
       KillAndUnsubscribe
  <2>3. QED
    BY <2>1, <2>2
<1>7. ASSUME UNCHANGED vars PROVE UNCHANGED Mailbox!vars
  BY <1>7 DEF vars, mailVars, Mailbox!vars
<1>8. QED
  BY <1>5, <1>6, <1>7 DEF Next

-----------------------------------------------------------------------------
(* The theorems.                                                           *)

\* With every kick holding its agent's lock, no two kicks meet.
LEMMA LockSingle == ASSUME KickLock PROVE SingleFlight
  BY DEF KickLock, SingleFlight

\* With every keystroke claim behind its prompt, a failed kick has none.
LEMMA FailedSingle == ASSUME ClaimNotFailed PROVE FailedKickKeepsMail
  BY DEF ClaimNotFailed, FailedKickKeepsMail

\* The initial states satisfy the invariant.
LEMMA InitInv == ASSUME Init PROVE IInv
<1>1. TypeOK
  BY WakeConstants DEF Init, TypeOK, MailTypes, TaskTypes, SlotTypes, CliTypes, PCs
<1>2. KickLock
  BY WakeConstants DEF Init, KickLock, Kicking
<1>3. ClaimNotFailed /\ ComposerIntact /\ RowFresh
  BY DEF Init, ClaimNotFailed, ComposerIntact, RowFresh
<1>4. QED
  BY <1>1, <1>2, <1>3 DEF IInv

\* Every step preserves the invariant.
LEMMA NextInv == ASSUME IInv, [Next]_vars PROVE IInv'
<1>1. TypeOK'
  BY TypeStep DEF IInv
<1>2. KickLock'
  BY LockStep DEF IInv, TypeOK
<1>3. ClaimNotFailed'
  BY ClaimStep DEF IInv
<1>4. ComposerIntact'
  BY ComposerStep, LockSingle DEF IInv
<1>5. RowFresh'
  BY RowStep DEF IInv
<1>6. QED
  BY <1>1, <1>2, <1>3, <1>4, <1>5 DEF IInv

\* The invariant holds in every reachable state.
THEOREM Invariant == Spec => []IInv
  BY InitInv, NextInv, PTL DEF Spec

\* Every variable keeps its type, whatever the agents, wakes and engines.
THEOREM TypeCorrect == Spec => []TypeOK
<1>1. IInv => TypeOK
  BY DEF IInv
<1>2. QED
  BY Invariant, <1>1, PTL

\* kick_locks is single-flight: two wakes never kick one agent at the same time.
THEOREM OneKickAtATime == Spec => []SingleFlight
<1>1. IInv => SingleFlight
  BY LockSingle DEF IInv
<1>2. QED
  BY Invariant, <1>1, PTL

\* A kick's carriage return never submits what another kick typed.
THEOREM NoMixedPrompt == Spec => []ComposerIntact
<1>1. IInv => ComposerIntact
  BY DEF IInv
<1>2. QED
  BY Invariant, <1>1, PTL

\* A keystroke kick that fails leaves its backlog to the Stop hook.
THEOREM FailureKeepsMail == Spec => []FailedKickKeepsMail
<1>1. IInv => FailedKickKeepsMail
  BY FailedSingle DEF IInv
<1>2. QED
  BY Invariant, <1>1, PTL

\* What a kick of an opencode agent claims in advance reaches the engine, unless the
\* engine refused the turn (wake_claim's consume before deliver_wake_turn).
THEOREM AdvanceClaimsCarry == Spec => []PreClaimCarries
<1>1. Init => PreClaimLeads /\ PreClaimCarries
  BY DEF Init, PreClaimLeads, PreClaimCarries
<1>2. TypeOK /\ PreClaimLeads /\ PreClaimCarries /\ [Next]_vars => PreClaimLeads' /\ PreClaimCarries'
  BY PreClaimStep
<1>3. QED
  BY <1>1, <1>2, TypeCorrect, PTL DEF Spec

\* Kicks, hooks and plugins together refine the mailbox of WakeMailbox.
THEOREM Refinement == Spec => ImplementsMailbox
<1>1. Init => Mailbox!Init
  BY DEF Init, Mailbox!Init
<1>2. IInv /\ [Next]_vars => [Mailbox!Next]_(Mailbox!vars)
  BY MailboxStep DEF IInv
<1>3. QED
  BY <1>1, <1>2, Invariant, PTL DEF Spec, Mailbox!Spec, ImplementsMailbox

\* The mailbox gives every row to one claimer only.
THEOREM MailboxClaims == Mailbox!Spec => []Mailbox!ClaimedByOne
<1> DEFINE Inv == /\ mail \in [Wakes -> {"none", "unread", "read"}]
                  /\ by \in [Wakes -> SUBSET (Wakes \cup Agents)]
                  /\ Mailbox!ClaimedByOne
<1>1. Mailbox!Init => Inv
  BY DEF Mailbox!Init, Mailbox!ClaimedByOne
<1>2. ASSUME Inv, [Mailbox!Next]_(Mailbox!vars) PROVE Inv'
  <2>1. ASSUME NEW w \in Wakes, Mailbox!Post(w) PROVE Inv'
    BY <1>2, <2>1 DEF Mailbox!Post, Mailbox!ClaimedByOne
  <2>2. ASSUME NEW a \in Agents, NEW c \in Wakes \cup Agents, Mailbox!Consume(a, c)
        PROVE Inv'
    BY <1>2, <2>2 DEF Mailbox!Consume, Mailbox!Unread, Mailbox!ClaimedByOne
  <2>3. CASE UNCHANGED Mailbox!vars
    BY <1>2, <2>3 DEF Mailbox!vars, Mailbox!ClaimedByOne
  <2>4. QED
    BY <1>2, <2>1, <2>2, <2>3 DEF Mailbox!Next
<1>3. Inv => Mailbox!ClaimedByOne
  OBVIOUS
<1>4. QED
  BY <1>1, <1>2, <1>3, PTL DEF Mailbox!Spec

\* No wake is ever claimed by two of the kicks, hooks and plugins that race for it.
THEOREM EveryRowClaimedOnce == Spec => []ClaimedByOne
  BY Refinement, MailboxClaims DEF ClaimedByOne, ImplementsMailbox
=============================================================================
