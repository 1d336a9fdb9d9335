------------------------ MODULE EngineDriversProofs ------------------------
(***************************************************************************)
(* Proofs about EngineDrivers, for any wakes, engines and faults.          *)
(***************************************************************************)
EXTENDS EngineDrivers, FiniteSetTheorems, TLAPS

\* TypeOK without the bounds of the counters, which no safety property needs.
Shapes ==
  /\ engine \in Engines
  /\ slot \in BOOLEAN /\ serve \in BOOLEAN /\ busy \in BOOLEAN /\ stream \in BOOLEAN
  /\ mail \in [Wakes -> {"none", "unread", "read"}]
  /\ by \in [Wakes -> SUBSET Drivers]
  /\ told \in [Wakes -> SUBSET Drivers]
  /\ kick \in [Wakes -> KickStages]
  /\ drv \in [Drivers -> DriverStages]
  /\ prompt \in [Drivers -> SUBSET Wakes]
  /\ turns \in Nat /\ events \in Nat
  /\ seen \subseteq {"failure", "race", "overlap"}

\* Each engine passes through stages of its own, and the driver of a wake
\* starts when its kick has ended.
EngineStages ==
  /\ engine = "zulu" => turns = 0 /\ \A d \in Drivers : drv[d] \notin {"submit", "stream"}
  /\ engine = "reasonix" => /\ \A w \in Wakes : drv[w] = "none"
                            /\ drv[Boot] \notin {"check", "post", "turn"}
  /\ \A w \in Wakes : kick[w] # "ended" => drv[w] = "none"

\* A row is there once its wake is posted, and read once somebody owns it.
RowsAreOwned ==
  /\ \A w \in Wakes : kick[w] = "idle" => mail[w] = "none"
  /\ \A w \in Wakes : IF mail[w] = "read" THEN \E d \in Drivers : by[w] = {d}
                                          ELSE by[w] = {}

\* A prompt holds rows its driver owns, and is empty where the next claim comes.
PromptsAreOwned ==
  /\ \A d \in Drivers : \A w \in prompt[d] : mail[w] = "read" /\ by[w] = {d}
  /\ \A d \in Drivers : drv[d] \in {"turn", "drain", "stream"} => prompt[d] = {}
  /\ \A w \in Wakes : kick[w] \notin {"claimed", "ended"} => prompt[w] = {}
  /\ drv[Boot] = "none" => prompt[Boot] = {}

\* Only the owner of a row tells of it.
TellsAreOwned ==
  \A w \in Wakes : engine = "zulu" \/ w \notin Manual => told[w] \subseteq by[w]

\* busy has one holder: a kick on its way to a driver, or a driver.
Claiming(w) == kick[w] \in {"probe", "claim", "claimed"}
BusyIsHeld ==
  engine = "zulu" /\ "overlap" \notin seen =>
    /\ \A v, w \in Wakes : Claiming(v) /\ Claiming(w) => v = w
    /\ \A c, d \in Drivers : Running(c) /\ Running(d) => c = d
    /\ \A w \in Wakes, d \in Drivers : ~(Claiming(w) /\ Running(d))
    /\ \A w \in Wakes : Claiming(w) => busy
    /\ \A d \in Drivers : Running(d) => busy

\* Nothing is claimed and no driver starts before the service has answered.
ServiceWasUp ==
  \/ serve \/ "failure" \in seen \/ ~slot
  \/ /\ \A w \in Wakes : kick[w] \notin {"claim", "claimed"}
     /\ \A d \in Drivers : drv[d] = "none"

\* d has claimed the row of w and is on its way to tell of it: a witness of Pending(w).
Holds(d, w) ==
  /\ w \in prompt[d]
  /\ \/ drv[d] \in {"drained", "check", "post", "submit"}
     \/ d \in Wakes /\ kick[d] = "claimed"

\* The inductive invariant.
DInv ==
  /\ Shapes
  /\ EngineStages
  /\ RowsAreOwned
  /\ PromptsAreOwned
  /\ TellsAreOwned
  /\ BusyIsHeld
  /\ ServiceWasUp
  /\ ClaimedIsPrompted

-----------------------------------------------------------------------------
(* The steps.                                                              *)

\* A claim, granted or refused, keeps rows and prompts in their shapes.
LEMMA ConsumeShape ==
  ASSUME Shapes, NEW d \in Drivers, Consume(d) \/ ConsumeFails(d)
  PROVE  /\ mail' \in [Wakes -> {"none", "unread", "read"}]
         /\ by' \in [Wakes -> SUBSET Drivers]
         /\ told' \in [Wakes -> SUBSET Drivers]
         /\ prompt' \in [Drivers -> SUBSET Wakes]
         /\ seen' \subseteq {"failure", "race", "overlap"}
<1>1. CASE Consume(d)
  <2>1. Unread \in SUBSET Wakes
    BY DEF Unread
  <2>2. mail' \in [Wakes -> {"none", "unread", "read"}]
    BY <1>1 DEF Consume, Shapes
  <2>3. by' \in [Wakes -> SUBSET Drivers]
    BY <1>1 DEF Consume, Shapes
  <2>4. /\ told' \in [Wakes -> SUBSET Drivers]
        /\ prompt' \in [Drivers -> SUBSET Wakes]
        /\ seen' \subseteq {"failure", "race", "overlap"}
    BY <1>1, <2>1 DEF Consume, Shapes
  <2>5. QED
    BY <2>2, <2>3, <2>4
<1>2. CASE ConsumeFails(d)
  BY <1>2 DEF ConsumeFails, mailVars, Shapes
<1>3. QED
  BY <1>1, <1>2

\* A step keeps every variable in its shape.
LEMMA ShapeStep == ASSUME Shapes, [Next]_vars PROVE Shapes'
<1>1. ASSUME NEW w \in Wakes, Post(w) PROVE Shapes'
  BY <1>1, DriverConstants DEF Post, KickTo, agentVars, mailVars, turnVars,
     Shapes, Drivers, KickStages, DriverStages
<1>2. ASSUME NEW w \in Wakes, Coalesce(w) PROVE Shapes'
  BY <1>2, DriverConstants DEF Coalesce, KickTo, HasKickLock, agentVars,
     mailVars, turnVars, Shapes, Drivers, KickStages, DriverStages
<1>3. ASSUME NEW w \in Wakes, KickZulu(w) PROVE Shapes'
  BY <1>3, DriverConstants DEF KickZulu, KickTo, HasKickLock, Running,
     agentVars, mailVars, turnVars, Shapes, Drivers, KickStages, DriverStages
<1>4. ASSUME NEW w \in Wakes, KickReasonix(w) PROVE Shapes'
  BY <1>4, DriverConstants DEF KickReasonix, KickTo, HasKickLock, agentVars,
     mailVars, turnVars, Shapes, Drivers, KickStages, DriverStages
<1>5. ASSUME NEW w \in Wakes, KickGone(w) PROVE Shapes'
  BY <1>5, DriverConstants DEF KickGone, KickTo, HasKickLock, agentVars,
     mailVars, turnVars, Shapes, Drivers, KickStages, DriverStages
<1>6. ASSUME NEW w \in Wakes, Probe(w) PROVE Shapes'
  BY <1>6, DriverConstants DEF Probe, KickTo, agentVars, mailVars, turnVars,
     Shapes, Drivers, KickStages, DriverStages
<1>7. ASSUME NEW w \in Wakes, KickClaims(w) PROVE Shapes'
  BY <1>7, ConsumeShape, DriverConstants DEF KickClaims, KickTo, agentVars, turnVars,
     Shapes, Drivers, KickStages
<1>8. ASSUME NEW w \in Wakes, KickFindsNothing(w) PROVE Shapes'
  BY <1>8, DriverConstants DEF KickFindsNothing, KickTo, agentVars, mailVars,
     turnVars, Shapes, Drivers, KickStages, DriverStages
<1>9. ASSUME NEW w \in Wakes, KickStartsDriver(w) PROVE Shapes'
  BY <1>9, DriverConstants DEF KickStartsDriver, KickTo, agentVars, mailVars,
     turnVars, Shapes, Drivers, KickStages, DriverStages
<1>10. ASSUME NEW w \in Wakes, KickSubmits(w) PROVE Shapes'
  BY <1>10, DriverConstants DEF KickSubmits, KickTo, Tell, agentVars,
     mailVars, turnVars, Shapes, Drivers, KickStages, DriverStages
<1>11. ASSUME NEW w \in Wakes, KickReturns(w) PROVE Shapes'
  BY <1>11, DriverConstants DEF KickReturns, KickTo, agentVars, mailVars,
     turnVars, Shapes, Drivers, KickStages, DriverStages
<1>12. ASSUME NEW d \in Drivers, CheckSlot(d) PROVE Shapes'
  BY <1>12, DriverConstants DEF CheckSlot, DriverTo, agentVars, mailVars,
     turnVars, Shapes, Drivers, KickStages, DriverStages
<1>13. ASSUME NEW d \in Drivers, PostSession(d) PROVE Shapes'
  BY <1>13, DriverConstants DEF PostSession, DriverTo, Tell, agentVars,
     mailVars, turnVars, Shapes, Drivers, KickStages, DriverStages
<1>14. ASSUME NEW d \in Drivers, TurnEnds(d) PROVE Shapes'
  BY <1>14, DriverConstants DEF TurnEnds, DriverTo, agentVars, mailVars,
     turnVars, Shapes, Drivers, KickStages, DriverStages
<1>15. ASSUME NEW d \in Drivers, Drain(d) PROVE Shapes'
  BY <1>15, ConsumeShape, DriverConstants DEF Drain, DriverTo, agentVars, turnVars,
     Shapes, Drivers, DriverStages
<1>16. ASSUME NEW d \in Drivers, NextTurn(d) PROVE Shapes'
  BY <1>16, DriverConstants DEF NextTurn, DriverTo, agentVars, mailVars,
     turnVars, Shapes, Drivers, KickStages, DriverStages
<1>17. ASSUME NEW d \in Drivers, GoIdle(d) PROVE Shapes'
  BY <1>17, DriverConstants DEF GoIdle, DriverTo, agentVars, mailVars,
     turnVars, Shapes, Drivers, KickStages, DriverStages
<1>18. ASSUME BootZulu PROVE Shapes'
  BY <1>18, DriverConstants DEF BootZulu, DriverTo, agentVars, mailVars,
     turnVars, Shapes, Drivers, KickStages, DriverStages
<1>19. ASSUME BootGivesUp PROVE Shapes'
  BY <1>19, DriverConstants DEF BootGivesUp, DriverTo, agentVars, mailVars,
     turnVars, Shapes, Drivers, KickStages, DriverStages
<1>20. ASSUME BootReasonix PROVE Shapes'
  BY <1>20, DriverConstants DEF BootReasonix, DriverTo, agentVars, mailVars,
     turnVars, Shapes, Drivers, KickStages, DriverStages
<1>21. ASSUME Submit PROVE Shapes'
  BY <1>21, DriverConstants DEF Submit, DriverTo, Tell, agentVars, mailVars,
     turnVars, Shapes, Drivers, KickStages, DriverStages
<1>22. ASSUME Connect PROVE Shapes'
  BY <1>22, DriverConstants DEF Connect, agentVars, mailVars, turnVars,
     Shapes, Drivers, KickStages, DriverStages
<1>23. ASSUME TurnDone PROVE Shapes'
  BY <1>23, DriverConstants DEF TurnDone, DriverTo, agentVars, mailVars,
     turnVars, Shapes, Drivers, KickStages, DriverStages
<1>24. ASSUME AfterDrain PROVE Shapes'
  BY <1>24, DriverConstants DEF AfterDrain, DriverTo, agentVars, mailVars,
     turnVars, Shapes, Drivers, KickStages, DriverStages
<1>25. ASSUME DriverExits PROVE Shapes'
  BY <1>25, DriverConstants DEF DriverExits, DriverTo, agentVars, mailVars,
     turnVars, Shapes, Drivers, KickStages, DriverStages
<1>26. ASSUME BreakStream PROVE Shapes'
  BY <1>26, DriverConstants DEF BreakStream, agentVars, mailVars, turnVars,
     Shapes, Drivers, KickStages, DriverStages
<1>27. ASSUME EngineEndsTurn PROVE Shapes'
  BY <1>27, DriverConstants DEF EngineEndsTurn, agentVars, mailVars, turnVars,
     Shapes, Drivers, KickStages, DriverStages
<1>28. ASSUME ServeUp PROVE Shapes'
  BY <1>28, DriverConstants DEF ServeUp, agentVars, mailVars, turnVars,
     Shapes, Drivers, KickStages, DriverStages
<1>29. ASSUME ServeDown PROVE Shapes'
  BY <1>29, DriverConstants DEF ServeDown, agentVars, mailVars, turnVars,
     Shapes, Drivers, KickStages, DriverStages
<1>30. ASSUME Teardown PROVE Shapes'
  BY <1>30, DriverConstants DEF Teardown, agentVars, mailVars, turnVars,
     Shapes, Drivers, KickStages, DriverStages
<1>31. CASE UNCHANGED vars
  BY <1>31 DEF vars, agentVars, mailVars, turnVars, Shapes
<1>32. QED
  BY <1>1, <1>2, <1>3, <1>4, <1>5, <1>6, <1>7, <1>8, <1>9, <1>10, <1>11,
     <1>12, <1>13, <1>14, <1>15, <1>16, <1>17, <1>18, <1>19, <1>20, <1>21,
     <1>22, <1>23, <1>24, <1>25, <1>26, <1>27, <1>28, <1>29, <1>30, <1>31 DEF
     Next, Kick, Driver, Follower

\* A step stays within the stages of its engine.
LEMMA EngineStep == ASSUME Shapes, EngineStages, [Next]_vars PROVE EngineStages'
<1>1. ASSUME NEW w \in Wakes, Post(w) PROVE EngineStages'
  BY <1>1, DriverConstants DEF Post, KickTo, agentVars, mailVars, turnVars,
     Shapes, Drivers, EngineStages
<1>2. ASSUME NEW w \in Wakes, Coalesce(w) PROVE EngineStages'
  BY <1>2, DriverConstants DEF Coalesce, KickTo, HasKickLock, agentVars,
     mailVars, turnVars, Shapes, Drivers, EngineStages
<1>3. ASSUME NEW w \in Wakes, KickZulu(w) PROVE EngineStages'
  BY <1>3, DriverConstants DEF KickZulu, KickTo, HasKickLock, Running,
     agentVars, mailVars, turnVars, Shapes, Drivers, EngineStages
<1>4. ASSUME NEW w \in Wakes, KickReasonix(w) PROVE EngineStages'
  BY <1>4, DriverConstants DEF KickReasonix, KickTo, HasKickLock, agentVars,
     mailVars, turnVars, Shapes, Drivers, EngineStages
<1>5. ASSUME NEW w \in Wakes, KickGone(w) PROVE EngineStages'
  BY <1>5, DriverConstants DEF KickGone, KickTo, HasKickLock, agentVars,
     mailVars, turnVars, Shapes, Drivers, EngineStages
<1>6. ASSUME NEW w \in Wakes, Probe(w) PROVE EngineStages'
  BY <1>6, DriverConstants DEF Probe, KickTo, agentVars, mailVars, turnVars,
     Shapes, Drivers, EngineStages
<1>7. ASSUME NEW w \in Wakes, KickClaims(w) PROVE EngineStages'
  BY <1>7, DriverConstants DEF KickClaims, KickTo, Consume, ConsumeFails,
     Unread, agentVars, mailVars, turnVars, Shapes, Drivers, EngineStages
<1>8. ASSUME NEW w \in Wakes, KickFindsNothing(w) PROVE EngineStages'
  BY <1>8, DriverConstants DEF KickFindsNothing, KickTo, agentVars, mailVars,
     turnVars, Shapes, Drivers, EngineStages
<1>9. ASSUME NEW w \in Wakes, KickStartsDriver(w) PROVE EngineStages'
  BY <1>9, DriverConstants DEF KickStartsDriver, KickTo, agentVars, mailVars,
     turnVars, Shapes, Drivers, EngineStages
<1>10. ASSUME NEW w \in Wakes, KickSubmits(w) PROVE EngineStages'
  BY <1>10, DriverConstants DEF KickSubmits, KickTo, Tell, agentVars,
     mailVars, turnVars, Shapes, Drivers, EngineStages
<1>11. ASSUME NEW w \in Wakes, KickReturns(w) PROVE EngineStages'
  BY <1>11, DriverConstants DEF KickReturns, KickTo, agentVars, mailVars,
     turnVars, Shapes, Drivers, EngineStages
<1>12. ASSUME NEW d \in Drivers, CheckSlot(d) PROVE EngineStages'
  BY <1>12, DriverConstants DEF CheckSlot, DriverTo, agentVars, mailVars,
     turnVars, Shapes, Drivers, EngineStages
<1>13. ASSUME NEW d \in Drivers, PostSession(d) PROVE EngineStages'
  BY <1>13, DriverConstants DEF PostSession, DriverTo, Tell, agentVars,
     mailVars, turnVars, Shapes, Drivers, EngineStages
<1>14. ASSUME NEW d \in Drivers, TurnEnds(d) PROVE EngineStages'
  BY <1>14, DriverConstants DEF TurnEnds, DriverTo, agentVars, mailVars,
     turnVars, Shapes, Drivers, EngineStages
<1>15. ASSUME NEW d \in Drivers, Drain(d) PROVE EngineStages'
  BY <1>15, DriverConstants DEF Drain, DriverTo, Consume, ConsumeFails,
     Unread, agentVars, mailVars, turnVars, Shapes, Drivers, EngineStages
<1>16. ASSUME NEW d \in Drivers, NextTurn(d) PROVE EngineStages'
  BY <1>16, DriverConstants DEF NextTurn, DriverTo, agentVars, mailVars,
     turnVars, Shapes, Drivers, EngineStages
<1>17. ASSUME NEW d \in Drivers, GoIdle(d) PROVE EngineStages'
  BY <1>17, DriverConstants DEF GoIdle, DriverTo, agentVars, mailVars,
     turnVars, Shapes, Drivers, EngineStages
<1>18. ASSUME BootZulu PROVE EngineStages'
  BY <1>18, DriverConstants DEF BootZulu, DriverTo, agentVars, mailVars,
     turnVars, Shapes, Drivers, EngineStages
<1>19. ASSUME BootGivesUp PROVE EngineStages'
  BY <1>19, DriverConstants DEF BootGivesUp, DriverTo, agentVars, mailVars,
     turnVars, Shapes, Drivers, EngineStages
<1>20. ASSUME BootReasonix PROVE EngineStages'
  BY <1>20, DriverConstants DEF BootReasonix, DriverTo, agentVars, mailVars,
     turnVars, Shapes, Drivers, EngineStages
<1>21. ASSUME Submit PROVE EngineStages'
  BY <1>21, DriverConstants DEF Submit, DriverTo, Tell, agentVars, mailVars,
     turnVars, Shapes, Drivers, EngineStages
<1>22. ASSUME Connect PROVE EngineStages'
  BY <1>22, DriverConstants DEF Connect, agentVars, mailVars, turnVars,
     Shapes, Drivers, EngineStages
<1>23. ASSUME TurnDone PROVE EngineStages'
  BY <1>23, DriverConstants DEF TurnDone, DriverTo, agentVars, mailVars,
     turnVars, Shapes, Drivers, EngineStages
<1>24. ASSUME AfterDrain PROVE EngineStages'
  BY <1>24, DriverConstants DEF AfterDrain, DriverTo, agentVars, mailVars,
     turnVars, Shapes, Drivers, EngineStages
<1>25. ASSUME DriverExits PROVE EngineStages'
  BY <1>25, DriverConstants DEF DriverExits, DriverTo, agentVars, mailVars,
     turnVars, Shapes, Drivers, EngineStages
<1>26. ASSUME BreakStream PROVE EngineStages'
  BY <1>26, DriverConstants DEF BreakStream, agentVars, mailVars, turnVars,
     Shapes, Drivers, EngineStages
<1>27. ASSUME EngineEndsTurn PROVE EngineStages'
  BY <1>27, DriverConstants DEF EngineEndsTurn, agentVars, mailVars, turnVars,
     Shapes, Drivers, EngineStages
<1>28. ASSUME ServeUp PROVE EngineStages'
  BY <1>28, DriverConstants DEF ServeUp, agentVars, mailVars, turnVars,
     Shapes, Drivers, EngineStages
<1>29. ASSUME ServeDown PROVE EngineStages'
  BY <1>29, DriverConstants DEF ServeDown, agentVars, mailVars, turnVars,
     Shapes, Drivers, EngineStages
<1>30. ASSUME Teardown PROVE EngineStages'
  BY <1>30, DriverConstants DEF Teardown, agentVars, mailVars, turnVars,
     Shapes, Drivers, EngineStages
<1>31. CASE UNCHANGED vars
  BY <1>31 DEF vars, agentVars, mailVars, turnVars, Shapes, EngineStages
<1>32. QED
  BY <1>1, <1>2, <1>3, <1>4, <1>5, <1>6, <1>7, <1>8, <1>9, <1>10, <1>11,
     <1>12, <1>13, <1>14, <1>15, <1>16, <1>17, <1>18, <1>19, <1>20, <1>21,
     <1>22, <1>23, <1>24, <1>25, <1>26, <1>27, <1>28, <1>29, <1>30, <1>31 DEF
     Next, Kick, Driver, Follower

\* Claims take rows nobody owns.
LEMMA RowStep == ASSUME Shapes, RowsAreOwned, [Next]_vars PROVE RowsAreOwned'
<1>1. ASSUME NEW w \in Wakes, Post(w) PROVE RowsAreOwned'
  BY <1>1, DriverConstants DEF Post, KickTo, agentVars, mailVars, turnVars,
     Shapes, Drivers, RowsAreOwned
<1>2. ASSUME NEW w \in Wakes, Coalesce(w) PROVE RowsAreOwned'
  BY <1>2, DriverConstants DEF Coalesce, KickTo, HasKickLock, agentVars,
     mailVars, turnVars, Shapes, Drivers, RowsAreOwned
<1>3. ASSUME NEW w \in Wakes, KickZulu(w) PROVE RowsAreOwned'
  BY <1>3, DriverConstants DEF KickZulu, KickTo, HasKickLock, Running,
     agentVars, mailVars, turnVars, Shapes, Drivers, RowsAreOwned
<1>4. ASSUME NEW w \in Wakes, KickReasonix(w) PROVE RowsAreOwned'
  BY <1>4, DriverConstants DEF KickReasonix, KickTo, HasKickLock, agentVars,
     mailVars, turnVars, Shapes, Drivers, RowsAreOwned
<1>5. ASSUME NEW w \in Wakes, KickGone(w) PROVE RowsAreOwned'
  BY <1>5, DriverConstants DEF KickGone, KickTo, HasKickLock, agentVars,
     mailVars, turnVars, Shapes, Drivers, RowsAreOwned
<1>6. ASSUME NEW w \in Wakes, Probe(w) PROVE RowsAreOwned'
  BY <1>6, DriverConstants DEF Probe, KickTo, agentVars, mailVars, turnVars,
     Shapes, Drivers, RowsAreOwned
<1>7. ASSUME NEW w \in Wakes, KickClaims(w) PROVE RowsAreOwned'
  BY <1>7, DriverConstants DEF KickClaims, KickTo, Consume, ConsumeFails,
     Unread, agentVars, mailVars, turnVars, Shapes, Drivers, RowsAreOwned
<1>8. ASSUME NEW w \in Wakes, KickFindsNothing(w) PROVE RowsAreOwned'
  BY <1>8, DriverConstants DEF KickFindsNothing, KickTo, agentVars, mailVars,
     turnVars, Shapes, Drivers, RowsAreOwned
<1>9. ASSUME NEW w \in Wakes, KickStartsDriver(w) PROVE RowsAreOwned'
  BY <1>9, DriverConstants DEF KickStartsDriver, KickTo, agentVars, mailVars,
     turnVars, Shapes, Drivers, RowsAreOwned
<1>10. ASSUME NEW w \in Wakes, KickSubmits(w) PROVE RowsAreOwned'
  BY <1>10, DriverConstants DEF KickSubmits, KickTo, Tell, agentVars,
     mailVars, turnVars, Shapes, Drivers, RowsAreOwned
<1>11. ASSUME NEW w \in Wakes, KickReturns(w) PROVE RowsAreOwned'
  BY <1>11, DriverConstants DEF KickReturns, KickTo, agentVars, mailVars,
     turnVars, Shapes, Drivers, RowsAreOwned
<1>12. ASSUME NEW d \in Drivers, CheckSlot(d) PROVE RowsAreOwned'
  BY <1>12, DriverConstants DEF CheckSlot, DriverTo, agentVars, mailVars,
     turnVars, Shapes, Drivers, RowsAreOwned
<1>13. ASSUME NEW d \in Drivers, PostSession(d) PROVE RowsAreOwned'
  BY <1>13, DriverConstants DEF PostSession, DriverTo, Tell, agentVars,
     mailVars, turnVars, Shapes, Drivers, RowsAreOwned
<1>14. ASSUME NEW d \in Drivers, TurnEnds(d) PROVE RowsAreOwned'
  BY <1>14, DriverConstants DEF TurnEnds, DriverTo, agentVars, mailVars,
     turnVars, Shapes, Drivers, RowsAreOwned
<1>15. ASSUME NEW d \in Drivers, Drain(d) PROVE RowsAreOwned'
  BY <1>15, DriverConstants DEF Drain, DriverTo, Consume, ConsumeFails,
     Unread, agentVars, mailVars, turnVars, Shapes, Drivers, RowsAreOwned
<1>16. ASSUME NEW d \in Drivers, NextTurn(d) PROVE RowsAreOwned'
  BY <1>16, DriverConstants DEF NextTurn, DriverTo, agentVars, mailVars,
     turnVars, Shapes, Drivers, RowsAreOwned
<1>17. ASSUME NEW d \in Drivers, GoIdle(d) PROVE RowsAreOwned'
  BY <1>17, DriverConstants DEF GoIdle, DriverTo, agentVars, mailVars,
     turnVars, Shapes, Drivers, RowsAreOwned
<1>18. ASSUME BootZulu PROVE RowsAreOwned'
  BY <1>18, DriverConstants DEF BootZulu, DriverTo, agentVars, mailVars,
     turnVars, Shapes, Drivers, RowsAreOwned
<1>19. ASSUME BootGivesUp PROVE RowsAreOwned'
  BY <1>19, DriverConstants DEF BootGivesUp, DriverTo, agentVars, mailVars,
     turnVars, Shapes, Drivers, RowsAreOwned
<1>20. ASSUME BootReasonix PROVE RowsAreOwned'
  BY <1>20, DriverConstants DEF BootReasonix, DriverTo, agentVars, mailVars,
     turnVars, Shapes, Drivers, RowsAreOwned
<1>21. ASSUME Submit PROVE RowsAreOwned'
  BY <1>21, DriverConstants DEF Submit, DriverTo, Tell, agentVars, mailVars,
     turnVars, Shapes, Drivers, RowsAreOwned
<1>22. ASSUME Connect PROVE RowsAreOwned'
  BY <1>22, DriverConstants DEF Connect, agentVars, mailVars, turnVars,
     Shapes, Drivers, RowsAreOwned
<1>23. ASSUME TurnDone PROVE RowsAreOwned'
  BY <1>23, DriverConstants DEF TurnDone, DriverTo, agentVars, mailVars,
     turnVars, Shapes, Drivers, RowsAreOwned
<1>24. ASSUME AfterDrain PROVE RowsAreOwned'
  BY <1>24, DriverConstants DEF AfterDrain, DriverTo, agentVars, mailVars,
     turnVars, Shapes, Drivers, RowsAreOwned
<1>25. ASSUME DriverExits PROVE RowsAreOwned'
  BY <1>25, DriverConstants DEF DriverExits, DriverTo, agentVars, mailVars,
     turnVars, Shapes, Drivers, RowsAreOwned
<1>26. ASSUME BreakStream PROVE RowsAreOwned'
  BY <1>26, DriverConstants DEF BreakStream, agentVars, mailVars, turnVars,
     Shapes, Drivers, RowsAreOwned
<1>27. ASSUME EngineEndsTurn PROVE RowsAreOwned'
  BY <1>27, DriverConstants DEF EngineEndsTurn, agentVars, mailVars, turnVars,
     Shapes, Drivers, RowsAreOwned
<1>28. ASSUME ServeUp PROVE RowsAreOwned'
  BY <1>28, DriverConstants DEF ServeUp, agentVars, mailVars, turnVars,
     Shapes, Drivers, RowsAreOwned
<1>29. ASSUME ServeDown PROVE RowsAreOwned'
  BY <1>29, DriverConstants DEF ServeDown, agentVars, mailVars, turnVars,
     Shapes, Drivers, RowsAreOwned
<1>30. ASSUME Teardown PROVE RowsAreOwned'
  BY <1>30, DriverConstants DEF Teardown, agentVars, mailVars, turnVars,
     Shapes, Drivers, RowsAreOwned
<1>31. CASE UNCHANGED vars
  BY <1>31 DEF vars, agentVars, mailVars, turnVars, Shapes, RowsAreOwned
<1>32. QED
  BY <1>1, <1>2, <1>3, <1>4, <1>5, <1>6, <1>7, <1>8, <1>9, <1>10, <1>11,
     <1>12, <1>13, <1>14, <1>15, <1>16, <1>17, <1>18, <1>19, <1>20, <1>21,
     <1>22, <1>23, <1>24, <1>25, <1>26, <1>27, <1>28, <1>29, <1>30, <1>31 DEF
     Next, Kick, Driver, Follower

\* A claim fills an empty prompt with rows it owns; a submit empties it.
LEMMA PromptStep == ASSUME Shapes, EngineStages, RowsAreOwned, PromptsAreOwned, [Next]_vars PROVE PromptsAreOwned'
<1>1. ASSUME NEW w \in Wakes, Post(w) PROVE PromptsAreOwned'
  BY <1>1, DriverConstants DEF Post, KickTo, agentVars, mailVars, turnVars,
     Shapes, Drivers, EngineStages, RowsAreOwned, PromptsAreOwned
<1>2. ASSUME NEW w \in Wakes, Coalesce(w) PROVE PromptsAreOwned'
  BY <1>2, DriverConstants DEF Coalesce, KickTo, HasKickLock, agentVars,
     mailVars, turnVars, Shapes, Drivers, EngineStages, RowsAreOwned,
     PromptsAreOwned
<1>3. ASSUME NEW w \in Wakes, KickZulu(w) PROVE PromptsAreOwned'
  BY <1>3, DriverConstants DEF KickZulu, KickTo, HasKickLock, Running,
     agentVars, mailVars, turnVars, Shapes, Drivers, EngineStages,
     RowsAreOwned, PromptsAreOwned
<1>4. ASSUME NEW w \in Wakes, KickReasonix(w) PROVE PromptsAreOwned'
  BY <1>4, DriverConstants DEF KickReasonix, KickTo, HasKickLock, agentVars,
     mailVars, turnVars, Shapes, Drivers, EngineStages, RowsAreOwned,
     PromptsAreOwned
<1>5. ASSUME NEW w \in Wakes, KickGone(w) PROVE PromptsAreOwned'
  BY <1>5, DriverConstants DEF KickGone, KickTo, HasKickLock, agentVars,
     mailVars, turnVars, Shapes, Drivers, EngineStages, RowsAreOwned,
     PromptsAreOwned
<1>6. ASSUME NEW w \in Wakes, Probe(w) PROVE PromptsAreOwned'
  BY <1>6, DriverConstants DEF Probe, KickTo, agentVars, mailVars, turnVars,
     Shapes, Drivers, EngineStages, RowsAreOwned, PromptsAreOwned
<1>7. ASSUME NEW w \in Wakes, KickClaims(w) PROVE PromptsAreOwned'
  BY <1>7, DriverConstants DEF KickClaims, KickTo, Consume, ConsumeFails,
     Unread, agentVars, mailVars, turnVars, Shapes, Drivers, EngineStages,
     RowsAreOwned, PromptsAreOwned
<1>8. ASSUME NEW w \in Wakes, KickFindsNothing(w) PROVE PromptsAreOwned'
  BY <1>8, DriverConstants DEF KickFindsNothing, KickTo, agentVars, mailVars,
     turnVars, Shapes, Drivers, EngineStages, RowsAreOwned, PromptsAreOwned
<1>9. ASSUME NEW w \in Wakes, KickStartsDriver(w) PROVE PromptsAreOwned'
  BY <1>9, DriverConstants DEF KickStartsDriver, KickTo, agentVars, mailVars,
     turnVars, Shapes, Drivers, EngineStages, RowsAreOwned, PromptsAreOwned
<1>10. ASSUME NEW w \in Wakes, KickSubmits(w) PROVE PromptsAreOwned'
  BY <1>10, DriverConstants DEF KickSubmits, KickTo, Tell, agentVars,
     mailVars, turnVars, Shapes, Drivers, EngineStages, RowsAreOwned,
     PromptsAreOwned
<1>11. ASSUME NEW w \in Wakes, KickReturns(w) PROVE PromptsAreOwned'
  BY <1>11, DriverConstants DEF KickReturns, KickTo, agentVars, mailVars,
     turnVars, Shapes, Drivers, EngineStages, RowsAreOwned, PromptsAreOwned
<1>12. ASSUME NEW d \in Drivers, CheckSlot(d) PROVE PromptsAreOwned'
  BY <1>12, DriverConstants DEF CheckSlot, DriverTo, agentVars, mailVars,
     turnVars, Shapes, Drivers, EngineStages, RowsAreOwned, PromptsAreOwned
<1>13. ASSUME NEW d \in Drivers, PostSession(d) PROVE PromptsAreOwned'
  BY <1>13, DriverConstants DEF PostSession, DriverTo, Tell, agentVars,
     mailVars, turnVars, Shapes, Drivers, EngineStages, RowsAreOwned,
     PromptsAreOwned
<1>14. ASSUME NEW d \in Drivers, TurnEnds(d) PROVE PromptsAreOwned'
  BY <1>14, DriverConstants DEF TurnEnds, DriverTo, agentVars, mailVars,
     turnVars, Shapes, Drivers, EngineStages, RowsAreOwned, PromptsAreOwned
<1>15. ASSUME NEW d \in Drivers, Drain(d) PROVE PromptsAreOwned'
  BY <1>15, DriverConstants DEF Drain, DriverTo, Consume, ConsumeFails,
     Unread, agentVars, mailVars, turnVars, Shapes, Drivers, EngineStages,
     RowsAreOwned, PromptsAreOwned
<1>16. ASSUME NEW d \in Drivers, NextTurn(d) PROVE PromptsAreOwned'
  BY <1>16, DriverConstants DEF NextTurn, DriverTo, agentVars, mailVars,
     turnVars, Shapes, Drivers, EngineStages, RowsAreOwned, PromptsAreOwned
<1>17. ASSUME NEW d \in Drivers, GoIdle(d) PROVE PromptsAreOwned'
  BY <1>17, DriverConstants DEF GoIdle, DriverTo, agentVars, mailVars,
     turnVars, Shapes, Drivers, EngineStages, RowsAreOwned, PromptsAreOwned
<1>18. ASSUME BootZulu PROVE PromptsAreOwned'
  BY <1>18, DriverConstants DEF BootZulu, DriverTo, agentVars, mailVars,
     turnVars, Shapes, Drivers, EngineStages, RowsAreOwned, PromptsAreOwned
<1>19. ASSUME BootGivesUp PROVE PromptsAreOwned'
  BY <1>19, DriverConstants DEF BootGivesUp, DriverTo, agentVars, mailVars,
     turnVars, Shapes, Drivers, EngineStages, RowsAreOwned, PromptsAreOwned
<1>20. ASSUME BootReasonix PROVE PromptsAreOwned'
  BY <1>20, DriverConstants DEF BootReasonix, DriverTo, agentVars, mailVars,
     turnVars, Shapes, Drivers, EngineStages, RowsAreOwned, PromptsAreOwned
<1>21. ASSUME Submit PROVE PromptsAreOwned'
  BY <1>21, DriverConstants DEF Submit, DriverTo, Tell, agentVars, mailVars,
     turnVars, Shapes, Drivers, EngineStages, RowsAreOwned, PromptsAreOwned
<1>22. ASSUME Connect PROVE PromptsAreOwned'
  BY <1>22, DriverConstants DEF Connect, agentVars, mailVars, turnVars,
     Shapes, Drivers, EngineStages, RowsAreOwned, PromptsAreOwned
<1>23. ASSUME TurnDone PROVE PromptsAreOwned'
  BY <1>23, DriverConstants DEF TurnDone, DriverTo, agentVars, mailVars,
     turnVars, Shapes, Drivers, EngineStages, RowsAreOwned, PromptsAreOwned
<1>24. ASSUME AfterDrain PROVE PromptsAreOwned'
  BY <1>24, DriverConstants DEF AfterDrain, DriverTo, agentVars, mailVars,
     turnVars, Shapes, Drivers, EngineStages, RowsAreOwned, PromptsAreOwned
<1>25. ASSUME DriverExits PROVE PromptsAreOwned'
  BY <1>25, DriverConstants DEF DriverExits, DriverTo, agentVars, mailVars,
     turnVars, Shapes, Drivers, EngineStages, RowsAreOwned, PromptsAreOwned
<1>26. ASSUME BreakStream PROVE PromptsAreOwned'
  BY <1>26, DriverConstants DEF BreakStream, agentVars, mailVars, turnVars,
     Shapes, Drivers, EngineStages, RowsAreOwned, PromptsAreOwned
<1>27. ASSUME EngineEndsTurn PROVE PromptsAreOwned'
  BY <1>27, DriverConstants DEF EngineEndsTurn, agentVars, mailVars, turnVars,
     Shapes, Drivers, EngineStages, RowsAreOwned, PromptsAreOwned
<1>28. ASSUME ServeUp PROVE PromptsAreOwned'
  BY <1>28, DriverConstants DEF ServeUp, agentVars, mailVars, turnVars,
     Shapes, Drivers, EngineStages, RowsAreOwned, PromptsAreOwned
<1>29. ASSUME ServeDown PROVE PromptsAreOwned'
  BY <1>29, DriverConstants DEF ServeDown, agentVars, mailVars, turnVars,
     Shapes, Drivers, EngineStages, RowsAreOwned, PromptsAreOwned
<1>30. ASSUME Teardown PROVE PromptsAreOwned'
  BY <1>30, DriverConstants DEF Teardown, agentVars, mailVars, turnVars,
     Shapes, Drivers, EngineStages, RowsAreOwned, PromptsAreOwned
<1>31. CASE UNCHANGED vars
  BY <1>31 DEF vars, agentVars, mailVars, turnVars, Shapes, EngineStages,
     RowsAreOwned, PromptsAreOwned
<1>32. QED
  BY <1>1, <1>2, <1>3, <1>4, <1>5, <1>6, <1>7, <1>8, <1>9, <1>10, <1>11,
     <1>12, <1>13, <1>14, <1>15, <1>16, <1>17, <1>18, <1>19, <1>20, <1>21,
     <1>22, <1>23, <1>24, <1>25, <1>26, <1>27, <1>28, <1>29, <1>30, <1>31 DEF
     Next, Kick, Driver, Follower

\* A submit tells of rows its driver owns.
LEMMA TellStep == ASSUME Shapes, EngineStages, RowsAreOwned, PromptsAreOwned, TellsAreOwned, [Next]_vars PROVE TellsAreOwned'
<1>1. ASSUME NEW w \in Wakes, Post(w) PROVE TellsAreOwned'
  BY <1>1, DriverConstants DEF Post, KickTo, agentVars, mailVars, turnVars,
     Shapes, Drivers, EngineStages, RowsAreOwned, PromptsAreOwned,
     TellsAreOwned
<1>2. ASSUME NEW w \in Wakes, Coalesce(w) PROVE TellsAreOwned'
  BY <1>2, DriverConstants DEF Coalesce, KickTo, HasKickLock, agentVars,
     mailVars, turnVars, Shapes, Drivers, EngineStages, RowsAreOwned,
     PromptsAreOwned, TellsAreOwned
<1>3. ASSUME NEW w \in Wakes, KickZulu(w) PROVE TellsAreOwned'
  BY <1>3, DriverConstants DEF KickZulu, KickTo, HasKickLock, Running,
     agentVars, mailVars, turnVars, Shapes, Drivers, EngineStages,
     RowsAreOwned, PromptsAreOwned, TellsAreOwned
<1>4. ASSUME NEW w \in Wakes, KickReasonix(w) PROVE TellsAreOwned'
  BY <1>4, DriverConstants DEF KickReasonix, KickTo, HasKickLock, agentVars,
     mailVars, turnVars, Shapes, Drivers, EngineStages, RowsAreOwned,
     PromptsAreOwned, TellsAreOwned
<1>5. ASSUME NEW w \in Wakes, KickGone(w) PROVE TellsAreOwned'
  BY <1>5, DriverConstants DEF KickGone, KickTo, HasKickLock, agentVars,
     mailVars, turnVars, Shapes, Drivers, EngineStages, RowsAreOwned,
     PromptsAreOwned, TellsAreOwned
<1>6. ASSUME NEW w \in Wakes, Probe(w) PROVE TellsAreOwned'
  BY <1>6, DriverConstants DEF Probe, KickTo, agentVars, mailVars, turnVars,
     Shapes, Drivers, EngineStages, RowsAreOwned, PromptsAreOwned,
     TellsAreOwned
<1>7. ASSUME NEW w \in Wakes, KickClaims(w) PROVE TellsAreOwned'
  BY <1>7, DriverConstants DEF KickClaims, KickTo, Consume, ConsumeFails,
     Unread, agentVars, mailVars, turnVars, Shapes, Drivers, EngineStages,
     RowsAreOwned, PromptsAreOwned, TellsAreOwned
<1>8. ASSUME NEW w \in Wakes, KickFindsNothing(w) PROVE TellsAreOwned'
  BY <1>8, DriverConstants DEF KickFindsNothing, KickTo, agentVars, mailVars,
     turnVars, Shapes, Drivers, EngineStages, RowsAreOwned, PromptsAreOwned,
     TellsAreOwned
<1>9. ASSUME NEW w \in Wakes, KickStartsDriver(w) PROVE TellsAreOwned'
  BY <1>9, DriverConstants DEF KickStartsDriver, KickTo, agentVars, mailVars,
     turnVars, Shapes, Drivers, EngineStages, RowsAreOwned, PromptsAreOwned,
     TellsAreOwned
<1>10. ASSUME NEW w \in Wakes, KickSubmits(w) PROVE TellsAreOwned'
  BY <1>10, DriverConstants DEF KickSubmits, KickTo, Tell, agentVars,
     mailVars, turnVars, Shapes, Drivers, EngineStages, RowsAreOwned,
     PromptsAreOwned, TellsAreOwned
<1>11. ASSUME NEW w \in Wakes, KickReturns(w) PROVE TellsAreOwned'
  BY <1>11, DriverConstants DEF KickReturns, KickTo, agentVars, mailVars,
     turnVars, Shapes, Drivers, EngineStages, RowsAreOwned, PromptsAreOwned,
     TellsAreOwned
<1>12. ASSUME NEW d \in Drivers, CheckSlot(d) PROVE TellsAreOwned'
  BY <1>12, DriverConstants DEF CheckSlot, DriverTo, agentVars, mailVars,
     turnVars, Shapes, Drivers, EngineStages, RowsAreOwned, PromptsAreOwned,
     TellsAreOwned
<1>13. ASSUME NEW d \in Drivers, PostSession(d) PROVE TellsAreOwned'
  BY <1>13, DriverConstants DEF PostSession, DriverTo, Tell, agentVars,
     mailVars, turnVars, Shapes, Drivers, EngineStages, RowsAreOwned,
     PromptsAreOwned, TellsAreOwned
<1>14. ASSUME NEW d \in Drivers, TurnEnds(d) PROVE TellsAreOwned'
  BY <1>14, DriverConstants DEF TurnEnds, DriverTo, agentVars, mailVars,
     turnVars, Shapes, Drivers, EngineStages, RowsAreOwned, PromptsAreOwned,
     TellsAreOwned
<1>15. ASSUME NEW d \in Drivers, Drain(d) PROVE TellsAreOwned'
  BY <1>15, DriverConstants DEF Drain, DriverTo, Consume, ConsumeFails,
     Unread, agentVars, mailVars, turnVars, Shapes, Drivers, EngineStages,
     RowsAreOwned, PromptsAreOwned, TellsAreOwned
<1>16. ASSUME NEW d \in Drivers, NextTurn(d) PROVE TellsAreOwned'
  BY <1>16, DriverConstants DEF NextTurn, DriverTo, agentVars, mailVars,
     turnVars, Shapes, Drivers, EngineStages, RowsAreOwned, PromptsAreOwned,
     TellsAreOwned
<1>17. ASSUME NEW d \in Drivers, GoIdle(d) PROVE TellsAreOwned'
  BY <1>17, DriverConstants DEF GoIdle, DriverTo, agentVars, mailVars,
     turnVars, Shapes, Drivers, EngineStages, RowsAreOwned, PromptsAreOwned,
     TellsAreOwned
<1>18. ASSUME BootZulu PROVE TellsAreOwned'
  BY <1>18, DriverConstants DEF BootZulu, DriverTo, agentVars, mailVars,
     turnVars, Shapes, Drivers, EngineStages, RowsAreOwned, PromptsAreOwned,
     TellsAreOwned
<1>19. ASSUME BootGivesUp PROVE TellsAreOwned'
  BY <1>19, DriverConstants DEF BootGivesUp, DriverTo, agentVars, mailVars,
     turnVars, Shapes, Drivers, EngineStages, RowsAreOwned, PromptsAreOwned,
     TellsAreOwned
<1>20. ASSUME BootReasonix PROVE TellsAreOwned'
  BY <1>20, DriverConstants DEF BootReasonix, DriverTo, agentVars, mailVars,
     turnVars, Shapes, Drivers, EngineStages, RowsAreOwned, PromptsAreOwned,
     TellsAreOwned
<1>21. ASSUME Submit PROVE TellsAreOwned'
  BY <1>21, DriverConstants DEF Submit, DriverTo, Tell, agentVars, mailVars,
     turnVars, Shapes, Drivers, EngineStages, RowsAreOwned, PromptsAreOwned,
     TellsAreOwned
<1>22. ASSUME Connect PROVE TellsAreOwned'
  BY <1>22, DriverConstants DEF Connect, agentVars, mailVars, turnVars,
     Shapes, Drivers, EngineStages, RowsAreOwned, PromptsAreOwned,
     TellsAreOwned
<1>23. ASSUME TurnDone PROVE TellsAreOwned'
  BY <1>23, DriverConstants DEF TurnDone, DriverTo, agentVars, mailVars,
     turnVars, Shapes, Drivers, EngineStages, RowsAreOwned, PromptsAreOwned,
     TellsAreOwned
<1>24. ASSUME AfterDrain PROVE TellsAreOwned'
  BY <1>24, DriverConstants DEF AfterDrain, DriverTo, agentVars, mailVars,
     turnVars, Shapes, Drivers, EngineStages, RowsAreOwned, PromptsAreOwned,
     TellsAreOwned
<1>25. ASSUME DriverExits PROVE TellsAreOwned'
  BY <1>25, DriverConstants DEF DriverExits, DriverTo, agentVars, mailVars,
     turnVars, Shapes, Drivers, EngineStages, RowsAreOwned, PromptsAreOwned,
     TellsAreOwned
<1>26. ASSUME BreakStream PROVE TellsAreOwned'
  BY <1>26, DriverConstants DEF BreakStream, agentVars, mailVars, turnVars,
     Shapes, Drivers, EngineStages, RowsAreOwned, PromptsAreOwned,
     TellsAreOwned
<1>27. ASSUME EngineEndsTurn PROVE TellsAreOwned'
  BY <1>27, DriverConstants DEF EngineEndsTurn, agentVars, mailVars, turnVars,
     Shapes, Drivers, EngineStages, RowsAreOwned, PromptsAreOwned,
     TellsAreOwned
<1>28. ASSUME ServeUp PROVE TellsAreOwned'
  BY <1>28, DriverConstants DEF ServeUp, agentVars, mailVars, turnVars,
     Shapes, Drivers, EngineStages, RowsAreOwned, PromptsAreOwned,
     TellsAreOwned
<1>29. ASSUME ServeDown PROVE TellsAreOwned'
  BY <1>29, DriverConstants DEF ServeDown, agentVars, mailVars, turnVars,
     Shapes, Drivers, EngineStages, RowsAreOwned, PromptsAreOwned,
     TellsAreOwned
<1>30. ASSUME Teardown PROVE TellsAreOwned'
  BY <1>30, DriverConstants DEF Teardown, agentVars, mailVars, turnVars,
     Shapes, Drivers, EngineStages, RowsAreOwned, PromptsAreOwned,
     TellsAreOwned
<1>31. CASE UNCHANGED vars
  BY <1>31 DEF vars, agentVars, mailVars, turnVars, Shapes, EngineStages,
     RowsAreOwned, PromptsAreOwned, TellsAreOwned
<1>32. QED
  BY <1>1, <1>2, <1>3, <1>4, <1>5, <1>6, <1>7, <1>8, <1>9, <1>10, <1>11,
     <1>12, <1>13, <1>14, <1>15, <1>16, <1>17, <1>18, <1>19, <1>20, <1>21,
     <1>22, <1>23, <1>24, <1>25, <1>26, <1>27, <1>28, <1>29, <1>30, <1>31 DEF
     Next, Kick, Driver, Follower

\* busy passes from holder to holder.
LEMMA BusyStep == ASSUME Shapes, EngineStages, BusyIsHeld, [Next]_vars PROVE BusyIsHeld'
<1>1. ASSUME NEW w \in Wakes, Post(w) PROVE BusyIsHeld'
  BY <1>1, DriverConstants DEF Post, KickTo, agentVars, mailVars, turnVars,
     Shapes, Drivers, EngineStages, BusyIsHeld, Claiming, Running
<1>2. ASSUME NEW w \in Wakes, Coalesce(w) PROVE BusyIsHeld'
  BY <1>2, DriverConstants DEF Coalesce, KickTo, HasKickLock, agentVars,
     mailVars, turnVars, Shapes, Drivers, EngineStages, BusyIsHeld, Claiming,
     Running
<1>3. ASSUME NEW w \in Wakes, KickZulu(w) PROVE BusyIsHeld'
  BY <1>3, DriverConstants DEF KickZulu, KickTo, HasKickLock, Running,
     agentVars, mailVars, turnVars, Shapes, Drivers, EngineStages, BusyIsHeld,
     Claiming
<1>4. ASSUME NEW w \in Wakes, KickReasonix(w) PROVE BusyIsHeld'
  BY <1>4, DriverConstants DEF KickReasonix, KickTo, HasKickLock, agentVars,
     mailVars, turnVars, Shapes, Drivers, EngineStages, BusyIsHeld, Claiming,
     Running
<1>5. ASSUME NEW w \in Wakes, KickGone(w) PROVE BusyIsHeld'
  BY <1>5, DriverConstants DEF KickGone, KickTo, HasKickLock, agentVars,
     mailVars, turnVars, Shapes, Drivers, EngineStages, BusyIsHeld, Claiming,
     Running
<1>6. ASSUME NEW w \in Wakes, Probe(w) PROVE BusyIsHeld'
  BY <1>6, DriverConstants DEF Probe, KickTo, agentVars, mailVars, turnVars,
     Shapes, Drivers, EngineStages, BusyIsHeld, Claiming, Running
<1>7. ASSUME NEW w \in Wakes, KickClaims(w) PROVE BusyIsHeld'
  BY <1>7, DriverConstants DEF KickClaims, KickTo, Consume, ConsumeFails,
     Unread, agentVars, mailVars, turnVars, Shapes, Drivers, EngineStages,
     BusyIsHeld, Claiming, Running
<1>8. ASSUME NEW w \in Wakes, KickFindsNothing(w) PROVE BusyIsHeld'
  BY <1>8, DriverConstants DEF KickFindsNothing, KickTo, agentVars, mailVars,
     turnVars, Shapes, Drivers, EngineStages, BusyIsHeld, Claiming, Running
<1>9. ASSUME NEW w \in Wakes, KickStartsDriver(w) PROVE BusyIsHeld'
  BY <1>9, DriverConstants DEF KickStartsDriver, KickTo, agentVars, mailVars,
     turnVars, Shapes, Drivers, EngineStages, BusyIsHeld, Claiming, Running
<1>10. ASSUME NEW w \in Wakes, KickSubmits(w) PROVE BusyIsHeld'
  BY <1>10, DriverConstants DEF KickSubmits, KickTo, Tell, agentVars,
     mailVars, turnVars, Shapes, Drivers, EngineStages, BusyIsHeld, Claiming,
     Running
<1>11. ASSUME NEW w \in Wakes, KickReturns(w) PROVE BusyIsHeld'
  BY <1>11, DriverConstants DEF KickReturns, KickTo, agentVars, mailVars,
     turnVars, Shapes, Drivers, EngineStages, BusyIsHeld, Claiming, Running
<1>12. ASSUME NEW d \in Drivers, CheckSlot(d) PROVE BusyIsHeld'
  BY <1>12, DriverConstants DEF CheckSlot, DriverTo, agentVars, mailVars,
     turnVars, Shapes, Drivers, EngineStages, BusyIsHeld, Claiming, Running
<1>13. ASSUME NEW d \in Drivers, PostSession(d) PROVE BusyIsHeld'
  BY <1>13, DriverConstants DEF PostSession, DriverTo, Tell, agentVars,
     mailVars, turnVars, Shapes, Drivers, EngineStages, BusyIsHeld, Claiming,
     Running
<1>14. ASSUME NEW d \in Drivers, TurnEnds(d) PROVE BusyIsHeld'
  BY <1>14, DriverConstants DEF TurnEnds, DriverTo, agentVars, mailVars,
     turnVars, Shapes, Drivers, EngineStages, BusyIsHeld, Claiming, Running
<1>15. ASSUME NEW d \in Drivers, Drain(d) PROVE BusyIsHeld'
  BY <1>15, DriverConstants DEF Drain, DriverTo, Consume, ConsumeFails,
     Unread, agentVars, mailVars, turnVars, Shapes, Drivers, EngineStages,
     BusyIsHeld, Claiming, Running
<1>16. ASSUME NEW d \in Drivers, NextTurn(d) PROVE BusyIsHeld'
  BY <1>16, DriverConstants DEF NextTurn, DriverTo, agentVars, mailVars,
     turnVars, Shapes, Drivers, EngineStages, BusyIsHeld, Claiming, Running
<1>17. ASSUME NEW d \in Drivers, GoIdle(d) PROVE BusyIsHeld'
  BY <1>17, DriverConstants DEF GoIdle, DriverTo, agentVars, mailVars,
     turnVars, Shapes, Drivers, EngineStages, BusyIsHeld, Claiming, Running
<1>18. ASSUME BootZulu PROVE BusyIsHeld'
  BY <1>18, DriverConstants DEF BootZulu, DriverTo, agentVars, mailVars,
     turnVars, Shapes, Drivers, EngineStages, BusyIsHeld, Claiming, Running
<1>19. ASSUME BootGivesUp PROVE BusyIsHeld'
  BY <1>19, DriverConstants DEF BootGivesUp, DriverTo, agentVars, mailVars,
     turnVars, Shapes, Drivers, EngineStages, BusyIsHeld, Claiming, Running
<1>20. ASSUME BootReasonix PROVE BusyIsHeld'
  BY <1>20, DriverConstants DEF BootReasonix, DriverTo, agentVars, mailVars,
     turnVars, Shapes, Drivers, EngineStages, BusyIsHeld, Claiming, Running
<1>21. ASSUME Submit PROVE BusyIsHeld'
  BY <1>21, DriverConstants DEF Submit, DriverTo, Tell, agentVars, mailVars,
     turnVars, Shapes, Drivers, EngineStages, BusyIsHeld, Claiming, Running
<1>22. ASSUME Connect PROVE BusyIsHeld'
  BY <1>22, DriverConstants DEF Connect, agentVars, mailVars, turnVars,
     Shapes, Drivers, EngineStages, BusyIsHeld, Claiming, Running
<1>23. ASSUME TurnDone PROVE BusyIsHeld'
  BY <1>23, DriverConstants DEF TurnDone, DriverTo, agentVars, mailVars,
     turnVars, Shapes, Drivers, EngineStages, BusyIsHeld, Claiming, Running
<1>24. ASSUME AfterDrain PROVE BusyIsHeld'
  BY <1>24, DriverConstants DEF AfterDrain, DriverTo, agentVars, mailVars,
     turnVars, Shapes, Drivers, EngineStages, BusyIsHeld, Claiming, Running
<1>25. ASSUME DriverExits PROVE BusyIsHeld'
  BY <1>25, DriverConstants DEF DriverExits, DriverTo, agentVars, mailVars,
     turnVars, Shapes, Drivers, EngineStages, BusyIsHeld, Claiming, Running
<1>26. ASSUME BreakStream PROVE BusyIsHeld'
  BY <1>26, DriverConstants DEF BreakStream, agentVars, mailVars, turnVars,
     Shapes, Drivers, EngineStages, BusyIsHeld, Claiming, Running
<1>27. ASSUME EngineEndsTurn PROVE BusyIsHeld'
  BY <1>27, DriverConstants DEF EngineEndsTurn, agentVars, mailVars, turnVars,
     Shapes, Drivers, EngineStages, BusyIsHeld, Claiming, Running
<1>28. ASSUME ServeUp PROVE BusyIsHeld'
  BY <1>28, DriverConstants DEF ServeUp, agentVars, mailVars, turnVars,
     Shapes, Drivers, EngineStages, BusyIsHeld, Claiming, Running
<1>29. ASSUME ServeDown PROVE BusyIsHeld'
  BY <1>29, DriverConstants DEF ServeDown, agentVars, mailVars, turnVars,
     Shapes, Drivers, EngineStages, BusyIsHeld, Claiming, Running
<1>30. ASSUME Teardown PROVE BusyIsHeld'
  BY <1>30, DriverConstants DEF Teardown, agentVars, mailVars, turnVars,
     Shapes, Drivers, EngineStages, BusyIsHeld, Claiming, Running
<1>31. CASE UNCHANGED vars
  BY <1>31 DEF vars, agentVars, mailVars, turnVars, Shapes, EngineStages,
     BusyIsHeld, Claiming, Running
<1>32. QED
  BY <1>1, <1>2, <1>3, <1>4, <1>5, <1>6, <1>7, <1>8, <1>9, <1>10, <1>11,
     <1>12, <1>13, <1>14, <1>15, <1>16, <1>17, <1>18, <1>19, <1>20, <1>21,
     <1>22, <1>23, <1>24, <1>25, <1>26, <1>27, <1>28, <1>29, <1>30, <1>31 DEF
     Next, Kick, Driver, Follower

\* A probe or a bootstrap sees the service before anything else happens.
LEMMA ServiceStep == ASSUME Shapes, EngineStages, ServiceWasUp, [Next]_vars PROVE ServiceWasUp'
<1>1. ASSUME NEW w \in Wakes, Post(w) PROVE ServiceWasUp'
  BY <1>1, DriverConstants DEF Post, KickTo, agentVars, mailVars, turnVars,
     Shapes, Drivers, EngineStages, ServiceWasUp
<1>2. ASSUME NEW w \in Wakes, Coalesce(w) PROVE ServiceWasUp'
  BY <1>2, DriverConstants DEF Coalesce, KickTo, HasKickLock, agentVars,
     mailVars, turnVars, Shapes, Drivers, EngineStages, ServiceWasUp
<1>3. ASSUME NEW w \in Wakes, KickZulu(w) PROVE ServiceWasUp'
  BY <1>3, DriverConstants DEF KickZulu, KickTo, HasKickLock, Running,
     agentVars, mailVars, turnVars, Shapes, Drivers, EngineStages,
     ServiceWasUp
<1>4. ASSUME NEW w \in Wakes, KickReasonix(w) PROVE ServiceWasUp'
  BY <1>4, DriverConstants DEF KickReasonix, KickTo, HasKickLock, agentVars,
     mailVars, turnVars, Shapes, Drivers, EngineStages, ServiceWasUp
<1>5. ASSUME NEW w \in Wakes, KickGone(w) PROVE ServiceWasUp'
  BY <1>5, DriverConstants DEF KickGone, KickTo, HasKickLock, agentVars,
     mailVars, turnVars, Shapes, Drivers, EngineStages, ServiceWasUp
<1>6. ASSUME NEW w \in Wakes, Probe(w) PROVE ServiceWasUp'
  BY <1>6, DriverConstants DEF Probe, KickTo, agentVars, mailVars, turnVars,
     Shapes, Drivers, EngineStages, ServiceWasUp
<1>7. ASSUME NEW w \in Wakes, KickClaims(w) PROVE ServiceWasUp'
  BY <1>7, DriverConstants DEF KickClaims, KickTo, Consume, ConsumeFails,
     Unread, agentVars, mailVars, turnVars, Shapes, Drivers, EngineStages,
     ServiceWasUp
<1>8. ASSUME NEW w \in Wakes, KickFindsNothing(w) PROVE ServiceWasUp'
  BY <1>8, DriverConstants DEF KickFindsNothing, KickTo, agentVars, mailVars,
     turnVars, Shapes, Drivers, EngineStages, ServiceWasUp
<1>9. ASSUME NEW w \in Wakes, KickStartsDriver(w) PROVE ServiceWasUp'
  BY <1>9, DriverConstants DEF KickStartsDriver, KickTo, agentVars, mailVars,
     turnVars, Shapes, Drivers, EngineStages, ServiceWasUp
<1>10. ASSUME NEW w \in Wakes, KickSubmits(w) PROVE ServiceWasUp'
  BY <1>10, DriverConstants DEF KickSubmits, KickTo, Tell, agentVars,
     mailVars, turnVars, Shapes, Drivers, EngineStages, ServiceWasUp
<1>11. ASSUME NEW w \in Wakes, KickReturns(w) PROVE ServiceWasUp'
  BY <1>11, DriverConstants DEF KickReturns, KickTo, agentVars, mailVars,
     turnVars, Shapes, Drivers, EngineStages, ServiceWasUp
<1>12. ASSUME NEW d \in Drivers, CheckSlot(d) PROVE ServiceWasUp'
  BY <1>12, DriverConstants DEF CheckSlot, DriverTo, agentVars, mailVars,
     turnVars, Shapes, Drivers, EngineStages, ServiceWasUp
<1>13. ASSUME NEW d \in Drivers, PostSession(d) PROVE ServiceWasUp'
  BY <1>13, DriverConstants DEF PostSession, DriverTo, Tell, agentVars,
     mailVars, turnVars, Shapes, Drivers, EngineStages, ServiceWasUp
<1>14. ASSUME NEW d \in Drivers, TurnEnds(d) PROVE ServiceWasUp'
  BY <1>14, DriverConstants DEF TurnEnds, DriverTo, agentVars, mailVars,
     turnVars, Shapes, Drivers, EngineStages, ServiceWasUp
<1>15. ASSUME NEW d \in Drivers, Drain(d) PROVE ServiceWasUp'
  BY <1>15, DriverConstants DEF Drain, DriverTo, Consume, ConsumeFails,
     Unread, agentVars, mailVars, turnVars, Shapes, Drivers, EngineStages,
     ServiceWasUp
<1>16. ASSUME NEW d \in Drivers, NextTurn(d) PROVE ServiceWasUp'
  BY <1>16, DriverConstants DEF NextTurn, DriverTo, agentVars, mailVars,
     turnVars, Shapes, Drivers, EngineStages, ServiceWasUp
<1>17. ASSUME NEW d \in Drivers, GoIdle(d) PROVE ServiceWasUp'
  BY <1>17, DriverConstants DEF GoIdle, DriverTo, agentVars, mailVars,
     turnVars, Shapes, Drivers, EngineStages, ServiceWasUp
<1>18. ASSUME BootZulu PROVE ServiceWasUp'
  BY <1>18, DriverConstants DEF BootZulu, DriverTo, agentVars, mailVars,
     turnVars, Shapes, Drivers, EngineStages, ServiceWasUp
<1>19. ASSUME BootGivesUp PROVE ServiceWasUp'
  BY <1>19, DriverConstants DEF BootGivesUp, DriverTo, agentVars, mailVars,
     turnVars, Shapes, Drivers, EngineStages, ServiceWasUp
<1>20. ASSUME BootReasonix PROVE ServiceWasUp'
  BY <1>20, DriverConstants DEF BootReasonix, DriverTo, agentVars, mailVars,
     turnVars, Shapes, Drivers, EngineStages, ServiceWasUp
<1>21. ASSUME Submit PROVE ServiceWasUp'
  BY <1>21, DriverConstants DEF Submit, DriverTo, Tell, agentVars, mailVars,
     turnVars, Shapes, Drivers, EngineStages, ServiceWasUp
<1>22. ASSUME Connect PROVE ServiceWasUp'
  BY <1>22, DriverConstants DEF Connect, agentVars, mailVars, turnVars,
     Shapes, Drivers, EngineStages, ServiceWasUp
<1>23. ASSUME TurnDone PROVE ServiceWasUp'
  BY <1>23, DriverConstants DEF TurnDone, DriverTo, agentVars, mailVars,
     turnVars, Shapes, Drivers, EngineStages, ServiceWasUp
<1>24. ASSUME AfterDrain PROVE ServiceWasUp'
  BY <1>24, DriverConstants DEF AfterDrain, DriverTo, agentVars, mailVars,
     turnVars, Shapes, Drivers, EngineStages, ServiceWasUp
<1>25. ASSUME DriverExits PROVE ServiceWasUp'
  BY <1>25, DriverConstants DEF DriverExits, DriverTo, agentVars, mailVars,
     turnVars, Shapes, Drivers, EngineStages, ServiceWasUp
<1>26. ASSUME BreakStream PROVE ServiceWasUp'
  BY <1>26, DriverConstants DEF BreakStream, agentVars, mailVars, turnVars,
     Shapes, Drivers, EngineStages, ServiceWasUp
<1>27. ASSUME EngineEndsTurn PROVE ServiceWasUp'
  BY <1>27, DriverConstants DEF EngineEndsTurn, agentVars, mailVars, turnVars,
     Shapes, Drivers, EngineStages, ServiceWasUp
<1>28. ASSUME ServeUp PROVE ServiceWasUp'
  BY <1>28, DriverConstants DEF ServeUp, agentVars, mailVars, turnVars,
     Shapes, Drivers, EngineStages, ServiceWasUp
<1>29. ASSUME ServeDown PROVE ServiceWasUp'
  BY <1>29, DriverConstants DEF ServeDown, agentVars, mailVars, turnVars,
     Shapes, Drivers, EngineStages, ServiceWasUp
<1>30. ASSUME Teardown PROVE ServiceWasUp'
  BY <1>30, DriverConstants DEF Teardown, agentVars, mailVars, turnVars,
     Shapes, Drivers, EngineStages, ServiceWasUp
<1>31. CASE UNCHANGED vars
  BY <1>31 DEF vars, agentVars, mailVars, turnVars, Shapes, EngineStages,
     ServiceWasUp
<1>32. QED
  BY <1>1, <1>2, <1>3, <1>4, <1>5, <1>6, <1>7, <1>8, <1>9, <1>10, <1>11,
     <1>12, <1>13, <1>14, <1>15, <1>16, <1>17, <1>18, <1>19, <1>20, <1>21,
     <1>22, <1>23, <1>24, <1>25, <1>26, <1>27, <1>28, <1>29, <1>30, <1>31 DEF
     Next, Kick, Driver, Follower

\* A claimed row stays in a prompt until it is told.
LEMMA ClaimStep == ASSUME Shapes, EngineStages, RowsAreOwned, PromptsAreOwned, ServiceWasUp, ClaimedIsPrompted, [Next]_vars PROVE ClaimedIsPrompted'
<1>1. ASSUME NEW w \in Wakes, Post(w) PROVE ClaimedIsPrompted'
  BY <1>1, DriverConstants DEF Post, KickTo, agentVars, mailVars, turnVars,
     Shapes, Drivers, EngineStages, RowsAreOwned, PromptsAreOwned,
     ServiceWasUp, ClaimedIsPrompted, Pending
<1>2. ASSUME NEW w \in Wakes, Coalesce(w) PROVE ClaimedIsPrompted'
  BY <1>2, DriverConstants DEF Coalesce, KickTo, HasKickLock, agentVars,
     mailVars, turnVars, Shapes, Drivers, EngineStages, RowsAreOwned,
     PromptsAreOwned, ServiceWasUp, ClaimedIsPrompted, Pending
<1>3. ASSUME NEW w \in Wakes, KickZulu(w) PROVE ClaimedIsPrompted'
  BY <1>3, DriverConstants DEF KickZulu, KickTo, HasKickLock, Running,
     agentVars, mailVars, turnVars, Shapes, Drivers, EngineStages,
     RowsAreOwned, PromptsAreOwned, ServiceWasUp, ClaimedIsPrompted, Pending
<1>4. ASSUME NEW w \in Wakes, KickReasonix(w) PROVE ClaimedIsPrompted'
  BY <1>4, DriverConstants DEF KickReasonix, KickTo, HasKickLock, agentVars,
     mailVars, turnVars, Shapes, Drivers, EngineStages, RowsAreOwned,
     PromptsAreOwned, ServiceWasUp, ClaimedIsPrompted, Pending
<1>5. ASSUME NEW w \in Wakes, KickGone(w) PROVE ClaimedIsPrompted'
  BY <1>5, DriverConstants DEF KickGone, KickTo, HasKickLock, agentVars,
     mailVars, turnVars, Shapes, Drivers, EngineStages, RowsAreOwned,
     PromptsAreOwned, ServiceWasUp, ClaimedIsPrompted, Pending
<1>6. ASSUME NEW w \in Wakes, Probe(w) PROVE ClaimedIsPrompted'
  BY <1>6, DriverConstants DEF Probe, KickTo, agentVars, mailVars, turnVars,
     Shapes, Drivers, EngineStages, RowsAreOwned, PromptsAreOwned,
     ServiceWasUp, ClaimedIsPrompted, Pending
<1>7. ASSUME NEW w \in Wakes, KickClaims(w) PROVE ClaimedIsPrompted'
  BY <1>7, DriverConstants DEF KickClaims, KickTo, Consume, ConsumeFails,
     Unread, agentVars, mailVars, turnVars, Shapes, Drivers, EngineStages,
     RowsAreOwned, PromptsAreOwned, ServiceWasUp, ClaimedIsPrompted, Pending
<1>8. ASSUME NEW w \in Wakes, KickFindsNothing(w) PROVE ClaimedIsPrompted'
  BY <1>8, DriverConstants DEF KickFindsNothing, KickTo, agentVars, mailVars,
     turnVars, Shapes, Drivers, EngineStages, RowsAreOwned, PromptsAreOwned,
     ServiceWasUp, ClaimedIsPrompted, Pending
<1>9. ASSUME NEW w \in Wakes, KickStartsDriver(w) PROVE ClaimedIsPrompted'
  <2>  SUFFICES ASSUME NEW r \in Wakes, mail'[r] = "read", "failure" \notin seen', slot',
                       ~(engine' = "reasonix" /\ by'[r] \subseteq Manual)
                PROVE  told'[r] # {} \/ Pending(r)'
    BY DEF ClaimedIsPrompted
  <2>1. /\ told[r] # {} \/ Pending(r)
        /\ told'[r] # {} \/ told[r] = {}
    BY <1>9, DriverConstants DEF KickStartsDriver, KickTo, agentVars, mailVars, Shapes, ClaimedIsPrompted
  <2>2. ASSUME NEW d \in Drivers, d # w, Holds(d, r) PROVE Pending(r)'
    BY <1>9, <2>2, DriverConstants DEF KickStartsDriver, KickTo, agentVars, mailVars, turnVars,
       Shapes, Drivers, EngineStages, Holds, Pending
  <2>3. ASSUME Holds(w, r) PROVE Pending(r)'
    BY <1>9, <2>3, DriverConstants DEF KickStartsDriver, KickTo, agentVars, mailVars,
       turnVars, Shapes, Drivers, Holds, Pending
  <2>4. QED
    BY <2>1, <2>2, <2>3 DEF Pending, Holds
<1>10. ASSUME NEW w \in Wakes, KickSubmits(w) PROVE ClaimedIsPrompted'
  <2>  SUFFICES ASSUME NEW r \in Wakes, mail'[r] = "read", "failure" \notin seen', slot',
                       ~(engine' = "reasonix" /\ by'[r] \subseteq Manual)
                PROVE  told'[r] # {} \/ Pending(r)'
    BY DEF ClaimedIsPrompted
  <2>1. /\ told[r] # {} \/ Pending(r)
        /\ told'[r] # {} \/ told[r] = {}
    BY <1>10, DriverConstants DEF KickSubmits, KickTo, Tell, agentVars, mailVars, Shapes, ClaimedIsPrompted
  <2>2. ASSUME NEW d \in Drivers, d # w, Holds(d, r) PROVE Pending(r)'
    BY <1>10, <2>2, DriverConstants DEF KickSubmits, KickTo, Tell, agentVars, mailVars, turnVars,
       Shapes, Drivers, EngineStages, Holds, Pending
  <2>3. ASSUME Holds(w, r) PROVE told'[r] # {}
    <3>1. serve
      BY <1>10 DEF KickSubmits, KickTo, agentVars, ServiceWasUp
    <3>2. by[r] = {w} /\ w \notin Manual
      BY <1>10, <2>3, DriverConstants DEF KickSubmits, KickTo, agentVars, Drivers,
         PromptsAreOwned, Holds
    <3>3. QED
      BY <1>10, <2>3, <3>1, <3>2 DEF KickSubmits, Tell, Shapes, Holds
  <2>4. QED
    BY <2>1, <2>2, <2>3 DEF Pending, Holds
<1>11. ASSUME NEW w \in Wakes, KickReturns(w) PROVE ClaimedIsPrompted'
  BY <1>11, DriverConstants DEF KickReturns, KickTo, agentVars, mailVars,
     turnVars, Shapes, Drivers, EngineStages, RowsAreOwned, PromptsAreOwned,
     ServiceWasUp, ClaimedIsPrompted, Pending
<1>12. ASSUME NEW d \in Drivers, CheckSlot(d) PROVE ClaimedIsPrompted'
  BY <1>12, DriverConstants DEF CheckSlot, DriverTo, agentVars, mailVars,
     turnVars, Shapes, Drivers, EngineStages, RowsAreOwned, PromptsAreOwned,
     ServiceWasUp, ClaimedIsPrompted, Pending
<1>13. ASSUME NEW d \in Drivers, PostSession(d) PROVE ClaimedIsPrompted'
  <2>  SUFFICES ASSUME NEW r \in Wakes, mail'[r] = "read", "failure" \notin seen', slot',
                       ~(engine' = "reasonix" /\ by'[r] \subseteq Manual)
                PROVE  told'[r] # {} \/ Pending(r)'
    BY DEF ClaimedIsPrompted
  <2>1. /\ told[r] # {} \/ Pending(r)
        /\ told'[r] # {} \/ told[r] = {}
    BY <1>13, DriverConstants DEF PostSession, DriverTo, Tell, agentVars, mailVars, Shapes, ClaimedIsPrompted
  <2>2. ASSUME NEW c \in Drivers, c # d, Holds(c, r) PROVE Pending(r)'
    BY <1>13, <2>2, DriverConstants DEF PostSession, DriverTo, Tell, agentVars, mailVars, turnVars,
       Shapes, Drivers, EngineStages, Holds, Pending
  <2>3. ASSUME Holds(d, r) PROVE told'[r] # {}
    <3>1. serve
      BY <1>13 DEF PostSession, DriverTo, agentVars, ServiceWasUp
    <3>2. QED
      BY <1>13, <2>3, <3>1 DEF PostSession, Tell, Shapes, Holds
  <2>4. QED
    BY <2>1, <2>2, <2>3 DEF Pending, Holds
<1>14. ASSUME NEW d \in Drivers, TurnEnds(d) PROVE ClaimedIsPrompted'
  BY <1>14, DriverConstants DEF TurnEnds, DriverTo, agentVars, mailVars,
     turnVars, Shapes, Drivers, EngineStages, RowsAreOwned, PromptsAreOwned,
     ServiceWasUp, ClaimedIsPrompted, Pending
<1>15. ASSUME NEW d \in Drivers, Drain(d) PROVE ClaimedIsPrompted'
  BY <1>15, DriverConstants DEF Drain, DriverTo, Consume, ConsumeFails,
     Unread, agentVars, mailVars, turnVars, Shapes, Drivers, EngineStages,
     RowsAreOwned, PromptsAreOwned, ServiceWasUp, ClaimedIsPrompted, Pending
<1>16. ASSUME NEW d \in Drivers, NextTurn(d) PROVE ClaimedIsPrompted'
  BY <1>16, DriverConstants DEF NextTurn, DriverTo, agentVars, mailVars,
     turnVars, Shapes, Drivers, EngineStages, RowsAreOwned, PromptsAreOwned,
     ServiceWasUp, ClaimedIsPrompted, Pending
<1>17. ASSUME NEW d \in Drivers, GoIdle(d) PROVE ClaimedIsPrompted'
  BY <1>17, DriverConstants DEF GoIdle, DriverTo, agentVars, mailVars,
     turnVars, Shapes, Drivers, EngineStages, RowsAreOwned, PromptsAreOwned,
     ServiceWasUp, ClaimedIsPrompted, Pending
<1>18. ASSUME BootZulu PROVE ClaimedIsPrompted'
  BY <1>18, DriverConstants DEF BootZulu, DriverTo, agentVars, mailVars,
     turnVars, Shapes, Drivers, EngineStages, RowsAreOwned, PromptsAreOwned,
     ServiceWasUp, ClaimedIsPrompted, Pending
<1>19. ASSUME BootGivesUp PROVE ClaimedIsPrompted'
  BY <1>19, DriverConstants DEF BootGivesUp, DriverTo, agentVars, mailVars,
     turnVars, Shapes, Drivers, EngineStages, RowsAreOwned, PromptsAreOwned,
     ServiceWasUp, ClaimedIsPrompted, Pending
<1>20. ASSUME BootReasonix PROVE ClaimedIsPrompted'
  BY <1>20, DriverConstants DEF BootReasonix, DriverTo, agentVars, mailVars,
     turnVars, Shapes, Drivers, EngineStages, RowsAreOwned, PromptsAreOwned,
     ServiceWasUp, ClaimedIsPrompted, Pending
<1>21. ASSUME Submit PROVE ClaimedIsPrompted'
  <2>  SUFFICES ASSUME NEW r \in Wakes, mail'[r] = "read", "failure" \notin seen', slot',
                       ~(engine' = "reasonix" /\ by'[r] \subseteq Manual)
                PROVE  told'[r] # {} \/ Pending(r)'
    BY DEF ClaimedIsPrompted
  <2>1. /\ told[r] # {} \/ Pending(r)
        /\ told'[r] # {} \/ told[r] = {}
    BY <1>21, DriverConstants DEF Submit, DriverTo, Tell, agentVars, mailVars, Shapes, ClaimedIsPrompted
  <2>2. ASSUME NEW d \in Drivers, d # Boot, Holds(d, r) PROVE Pending(r)'
    BY <1>21, <2>2, DriverConstants DEF Submit, DriverTo, Tell, agentVars, mailVars, turnVars,
       Shapes, Drivers, EngineStages, Holds, Pending
  <2>3. ASSUME Holds(Boot, r) PROVE told'[r] # {}
    <3>1. serve
      BY <1>21, DriverConstants DEF Submit, DriverTo, agentVars, ServiceWasUp, Drivers
    <3>2. QED
      BY <1>21, <2>3, <3>1 DEF Submit, Tell, Shapes, Holds
  <2>4. QED
    BY <2>1, <2>2, <2>3 DEF Pending, Holds
<1>22. ASSUME Connect PROVE ClaimedIsPrompted'
  BY <1>22, DriverConstants DEF Connect, agentVars, mailVars, turnVars,
     Shapes, Drivers, EngineStages, RowsAreOwned, PromptsAreOwned,
     ServiceWasUp, ClaimedIsPrompted, Pending
<1>23. ASSUME TurnDone PROVE ClaimedIsPrompted'
  BY <1>23, DriverConstants DEF TurnDone, DriverTo, agentVars, mailVars,
     turnVars, Shapes, Drivers, EngineStages, RowsAreOwned, PromptsAreOwned,
     ServiceWasUp, ClaimedIsPrompted, Pending
<1>24. ASSUME AfterDrain PROVE ClaimedIsPrompted'
  BY <1>24, DriverConstants DEF AfterDrain, DriverTo, agentVars, mailVars,
     turnVars, Shapes, Drivers, EngineStages, RowsAreOwned, PromptsAreOwned,
     ServiceWasUp, ClaimedIsPrompted, Pending
<1>25. ASSUME DriverExits PROVE ClaimedIsPrompted'
  BY <1>25, DriverConstants DEF DriverExits, DriverTo, agentVars, mailVars,
     turnVars, Shapes, Drivers, EngineStages, RowsAreOwned, PromptsAreOwned,
     ServiceWasUp, ClaimedIsPrompted, Pending
<1>26. ASSUME BreakStream PROVE ClaimedIsPrompted'
  BY <1>26, DriverConstants DEF BreakStream, agentVars, mailVars, turnVars,
     Shapes, Drivers, EngineStages, RowsAreOwned, PromptsAreOwned,
     ServiceWasUp, ClaimedIsPrompted, Pending
<1>27. ASSUME EngineEndsTurn PROVE ClaimedIsPrompted'
  BY <1>27, DriverConstants DEF EngineEndsTurn, agentVars, mailVars, turnVars,
     Shapes, Drivers, EngineStages, RowsAreOwned, PromptsAreOwned,
     ServiceWasUp, ClaimedIsPrompted, Pending
<1>28. ASSUME ServeUp PROVE ClaimedIsPrompted'
  BY <1>28, DriverConstants DEF ServeUp, agentVars, mailVars, turnVars,
     Shapes, Drivers, EngineStages, RowsAreOwned, PromptsAreOwned,
     ServiceWasUp, ClaimedIsPrompted, Pending
<1>29. ASSUME ServeDown PROVE ClaimedIsPrompted'
  BY <1>29, DriverConstants DEF ServeDown, agentVars, mailVars, turnVars,
     Shapes, Drivers, EngineStages, RowsAreOwned, PromptsAreOwned,
     ServiceWasUp, ClaimedIsPrompted, Pending
<1>30. ASSUME Teardown PROVE ClaimedIsPrompted'
  BY <1>30, DriverConstants DEF Teardown, agentVars, mailVars, turnVars,
     Shapes, Drivers, EngineStages, RowsAreOwned, PromptsAreOwned,
     ServiceWasUp, ClaimedIsPrompted, Pending
<1>31. CASE UNCHANGED vars
  BY <1>31 DEF vars, agentVars, mailVars, turnVars, Shapes, EngineStages,
     RowsAreOwned, PromptsAreOwned, ServiceWasUp, ClaimedIsPrompted, Pending
<1>32. QED
  BY <1>1, <1>2, <1>3, <1>4, <1>5, <1>6, <1>7, <1>8, <1>9, <1>10, <1>11,
     <1>12, <1>13, <1>14, <1>15, <1>16, <1>17, <1>18, <1>19, <1>20, <1>21,
     <1>22, <1>23, <1>24, <1>25, <1>26, <1>27, <1>28, <1>29, <1>30, <1>31 DEF
     Next, Kick, Driver, Follower

-----------------------------------------------------------------------------
(* The invariant.                                                          *)

\* The invariant holds at the start.
LEMMA DriversInit == Init => DInv
<1>  SUFFICES ASSUME Init PROVE DInv
  OBVIOUS
<1>1. Shapes
  BY DEF Init, Shapes, KickStages, DriverStages
<1>2. EngineStages /\ RowsAreOwned /\ PromptsAreOwned /\ TellsAreOwned
  BY DriverConstants DEF Init, EngineStages, RowsAreOwned, PromptsAreOwned, TellsAreOwned, Drivers
<1>3. BusyIsHeld /\ ServiceWasUp /\ ClaimedIsPrompted
  BY DriverConstants DEF Init, BusyIsHeld, Claiming, Running, ServiceWasUp, ClaimedIsPrompted, Drivers
<1>4. QED
  BY <1>1, <1>2, <1>3 DEF DInv

\* Every step keeps it.
LEMMA DriversNext == DInv /\ [Next]_vars => DInv'
  BY ShapeStep, EngineStep, RowStep, PromptStep, TellStep, BusyStep, ServiceStep, ClaimStep DEF DInv

\* Rows, prompts, busy and told stay as the code means them to, in every run.
THEOREM DriversAreSound == Spec => []DInv
  BY DriversInit, DriversNext, PTL DEF Spec

\* A claimed row reaches the engine unless something failed, whatever the
\* interleaving of kicks, drivers and turn ends (zulu_serve.rs, reasonix_serve.rs).
THEOREM ClaimsArePrompted == Spec => []ClaimedIsPrompted
<1>1. DInv => ClaimedIsPrompted
  BY DEF DInv
<1>2. QED
  BY <1>1, DriversAreSound, PTL

\* One zulu driver runs at a time, unless the bootstrap has overtaken a wake
\* (zulu_serve.rs: busy).
THEOREM ZuluTurnsAreSerial == Spec => []TurnsAreSerial
<1>1. DInv => TurnsAreSerial
  BY DEF DInv, BusyIsHeld, TurnsAreSerial
<1>2. QED
  BY <1>1, DriversAreSound, PTL

\* No two prompts tell of one wake (consume_wakes is what keeps them apart).
THEOREM WakesAreToldOnce == Spec => []ToldOnce
<1>1. DInv => ToldOnce
  <2>  SUFFICES ASSUME DInv, NEW w \in Wakes, engine = "zulu" \/ w \notin Manual
                PROVE  Cardinality(told[w]) <= 1
    BY DEF ToldOnce
  <2>1. PICK d \in Drivers : told[w] \subseteq {d}
    BY DriverConstants DEF DInv, TellsAreOwned, RowsAreOwned, Drivers
  <2>2. IsFiniteSet({d}) /\ Cardinality({d}) = 1
    BY FS_Singleton
  <2>3. Cardinality(told[w]) <= Cardinality({d})
    BY <2>1, <2>2, FS_Subset
  <2>4. QED
    BY <2>2, <2>3
<1>2. QED
  BY <1>1, DriversAreSound, PTL

-----------------------------------------------------------------------------
(* The refinement.                                                         *)

\* Every step posts one row, claims the backlog, or leaves the mailbox alone.
LEMMA MailboxStep == ASSUME DInv, [Next]_vars PROVE [Mailbox!Next]_(Mailbox!vars)
<1>1. ASSUME NEW w \in Wakes, Post(w) PROVE Mailbox!Post(w)
  BY <1>1 DEF Post, KickTo, DInv, RowsAreOwned, Mailbox!Post
<1>2. ASSUME NEW d \in Drivers, Consume(d) PROVE Mailbox!Consume(Boot, d)
  <2>1. Mailbox!Unread(Boot) = Unread
    BY DEF Mailbox!Unread, Unread
  <2>2. QED
    BY <1>2, <2>1 DEF Consume, Mailbox!Consume
<1>3. ASSUME NEW d \in Drivers, Consume(d) \/ ConsumeFails(d) PROVE [Mailbox!Next]_(Mailbox!vars)
  BY <1>2, <1>3 DEF ConsumeFails, mailVars, Mailbox!Next, Mailbox!vars
<1>4. ASSUME NEW w \in Wakes, Kick(w), ~KickClaims(w) PROVE UNCHANGED <<mail, by>>
  BY <1>4 DEF Kick, Coalesce, KickZulu, KickReasonix, KickGone, Probe, KickFindsNothing,
     KickStartsDriver, KickSubmits, KickReturns, mailVars
<1>5. ASSUME NEW d \in Drivers, Driver(d), ~Drain(d) PROVE UNCHANGED <<mail, by>>
  BY <1>5 DEF Driver, CheckSlot, PostSession, TurnEnds, NextTurn, GoIdle, mailVars
<1>6. ASSUME BootZulu \/ BootGivesUp \/ Follower \/ BreakStream \/ EngineEndsTurn
             \/ ServeUp \/ ServeDown \/ Teardown
      PROVE  UNCHANGED <<mail, by>>
  BY <1>6 DEF BootZulu, BootGivesUp, Follower, BootReasonix, Submit, Connect, TurnDone,
     AfterDrain, DriverExits, BreakStream, EngineEndsTurn, ServeUp, ServeDown, Teardown, mailVars
<1>7. CASE UNCHANGED vars
  BY <1>7 DEF vars, mailVars, Mailbox!vars
<1>8. QED
  BY <1>1, <1>3, <1>4, <1>5, <1>6, <1>7, DriverConstants
     DEF Next, KickClaims, Drain, Drivers, Mailbox!Next, Mailbox!vars

\* Kicks and drivers of both engines together are a wake mailbox: each row is
\* claimed once, by one of them, with the whole backlog.
THEOREM DriversImplementMailbox == Spec => ImplementsMailbox
<1>1. Init => Mailbox!Init
  BY DEF Init, Mailbox!Init
<1>2. DInv /\ [Next]_vars => [Mailbox!Next]_(Mailbox!vars)
  BY MailboxStep
<1>3. QED
  BY <1>1, <1>2, DriversAreSound, PTL DEF Spec, ImplementsMailbox, Mailbox!Spec
=============================================================================
