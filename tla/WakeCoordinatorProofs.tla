----------------------- MODULE WakeCoordinatorProofs -----------------------
(***************************************************************************)
(* Proofs about WakeCoordinator, for any agents, keys, signals and bounds: *)
(* the lemmas about the bus and the types, one lemma per part of the       *)
(* invariants, and the theorems.  A lemma has a step for each action that  *)
(* changes what its part reads; the others leave all of that unchanged.    *)
(***************************************************************************)
EXTENDS WakeCoordinator, TLAPS

\* The events the coordinator has not received.
OnBus == {bus[i] : i \in 1 .. Len(bus)}

\* A process exists for whoever is registered, in the registry or being retired.
Started ==
    \A a \in Agents : joined[a] \/ slot[a] \/ retire[a] # "no" => proc[a] # "none"

\* An exit event names an agent, and a write event one of the writes of its writer.
EventsAreTrue ==
    \A e \in OnBus :
        /\ e.kind = "exit" => e.agent \in Agents
        /\ e.kind = "write" /\ e.agent # NoAgent => e.n \in 1 .. writes[e.agent]

\* An auto-kill task exists only for a write that was made.
TriesAreEarned ==
    \A a \in Agents, n \in 1 .. MaxWrites : try[a][n] # "none" => n <= writes[a]

\* Whoever took the slot was the only one to take it, and nobody respawns.
OneKiller ==
    \A a \in Agents, n \in 1 .. MaxWrites :
        try[a][n] = "killer" =>
            /\ ~slot[a]
            /\ proc[a] # "none"
            /\ \A m \in 1 .. MaxWrites : try[a][m] = "killer" => m = n

\* A write stays fresh for its writer: a tombstone only moves it to the op log.
WritesAreFresh ==
    \A a \in Agents :
        /\ writes[a] > 0 => joined[a] /\ Signal[a] \in Keys /\ Fresh(a)
        /\ writing[a] => writes[a] > 0

\* An exit key is there for a registered producer nobody has reported.
KeysAreOpen ==
    \A a \in Agents :
        exitKeys[a] =>
            joined[a] /\ Signal[a] \in Keys /\ failures[a] = 0 /\ fallback # a

\* A producer that is, or is about to be, reported failed has no auto-kill.
FailedHasNoTry ==
    \A a \in Agents :
        failures[a] > 0 \/ fallback = a =>
            /\ joined[a]
            /\ Signal[a] \in Keys
            /\ \A n \in 1 .. MaxWrites : try[a][n] = "none"

\* The inductive invariant, whatever may fail.
IInv ==
    /\ TypeOK
    /\ Started
    /\ EventsAreTrue
    /\ TriesAreEarned
    /\ OneKiller
    /\ WritesAreFresh
    /\ KeysAreOpen
    /\ FailedHasNoTry

-----------------------------------------------------------------------------
(* When Error is only published for agents that are dead.                  *)

ErrorsAreDeaths == "soft" \notin Faults

\* An exit event on the bus is true.
ExitsAreDeaths == \A e \in OnBus : e.kind = "exit" => proc[e.agent] = "dead"

\* Whoever was killed stays dead.
RetiredAreDead ==
    \A a \in Agents : retire[a] \in {"operatorKilled", "autoKilled"} => proc[a] = "dead"

\* One report for one producer, which is dead and did not write.
FailedAreDead ==
    \A a \in Agents :
        /\ failures[a] > 0 \/ fallback = a => proc[a] = "dead" /\ writes[a] = 0
        /\ failures[a] <= 1
        /\ fallback = a => failures[a] = 0

DInv == IInv /\ ExitsAreDeaths /\ RetiredAreDead /\ FailedAreDead

-----------------------------------------------------------------------------
(* When no two agents share a signal and nobody else touches it.           *)

SignalsArePrivate ==
    /\ Faults \cap {"disk", "delete", "edit"} = {}
    /\ \A a, b \in Agents : Signal[a] = Signal[b] /\ Signal[a] # NoKey => a = b

\* A fresh key was written by the agent whose signal it is.
FreshAreWriters == \A a \in Agents : Signal[a] \in Keys /\ Fresh(a) => writes[a] > 0

\* Only writers are auto-killed.
AutoRetiredWrote ==
    \A a \in Agents : retire[a] \in {"auto", "autoKilled"} => writes[a] > 0

WInv == IInv /\ FreshAreWriters /\ AutoRetiredWrote /\ NoSilentDeath


-----------------------------------------------------------------------------
(* Facts about the bus.                                                    *)

\* What is in a sequence and how long it is after Append and after Tail.
LEMMA AppendSeq ==
    ASSUME NEW S, NEW s \in Seq(S), NEW e \in S, NEW t, t = Append(s, e)
    PROVE  /\ t \in Seq(S)
           /\ Len(t) = Len(s) + 1
           /\ \A i \in 1 .. Len(t) : t[i] = e \/ (i \in 1 .. Len(s) /\ t[i] = s[i])
  OBVIOUS

LEMMA TailSeq ==
    ASSUME NEW S, NEW s \in Seq(S), s # <<>>, NEW t, t = Tail(s)
    PROVE  /\ t \in Seq(S)
           /\ Len(t) = Len(s) - 1
           /\ \A i \in 1 .. Len(t) : i + 1 \in 1 .. Len(s) /\ t[i] = s[i + 1]
  OBVIOUS

\* A sent event joins those not received yet; the ring may drop another.
LEMMA PublishBus ==
    ASSUME BusTypes, NEW e \in Events, Publish(e)
    PROVE  BusTypes' /\ OnBus' \subseteq OnBus \cup {e}
<1>1. /\ BusCap \in Nat \ {0}
      /\ bus \in Seq(Events)
      /\ Len(bus) \in Nat
      /\ Len(bus) <= BusCap
      /\ lagged' \in BOOLEAN
  BY CoordinatorConstants DEF BusTypes, Publish
<1>2. PICK kept \in Seq(Events) :
        /\ bus' = Append(kept, e)
        /\ Len(kept) < BusCap
        /\ \A i \in 1 .. Len(kept) : \E j \in 1 .. Len(bus) : kept[i] = bus[j]
  <2>1. CASE Len(bus) = BusCap
    <3>1. PICK rest : rest = Tail(bus)
      OBVIOUS
    <3>2. /\ rest \in Seq(Events)
          /\ Len(rest) = Len(bus) - 1
          /\ \A i \in 1 .. Len(rest) : i + 1 \in 1 .. Len(bus) /\ rest[i] = bus[i + 1]
      BY <1>1, <2>1, <3>1, TailSeq
    <3>3. bus' = Append(rest, e)
      BY <2>1, <3>1 DEF Publish
    <3>4. Len(rest) < BusCap
      BY <1>1, <2>1, <3>2
    <3>5. QED
      BY <3>2, <3>3, <3>4
  <2>2. CASE Len(bus) # BusCap
    <3>1. bus' = Append(bus, e)
      BY <2>2 DEF Publish
    <3>2. QED
      BY <1>1, <2>2, <3>1
  <2>3. QED
    BY <2>1, <2>2
<1>3. /\ bus' \in Seq(Events)
      /\ Len(bus') = Len(kept) + 1
      /\ \A i \in 1 .. Len(bus') : bus'[i] = e \/ (i \in 1 .. Len(kept) /\ bus'[i] = kept[i])
  BY <1>2, AppendSeq
<1>4. Len(kept) \in Nat
  BY <1>2
<1>5. BusTypes'
  BY <1>1, <1>2, <1>3, <1>4 DEF BusTypes
<1>6. \A i \in 1 .. Len(bus') : bus'[i] = e \/ \E j \in 1 .. Len(bus) : bus'[i] = bus[j]
  BY <1>2, <1>3
<1>7. QED
  BY <1>5, <1>6 DEF OnBus

\* The loop receives an event that was on the bus and leaves the others there.
LEMMA ReceiveBus ==
    ASSUME BusTypes, NEW K, Receive(K)
    PROVE  /\ BusTypes'
           /\ OnBus' \subseteq OnBus
           /\ Head(bus) \in OnBus
           /\ Head(bus) \in Events
           /\ Head(bus).kind \in K
<1>1. /\ BusCap \in Nat \ {0}
      /\ bus \in Seq(Events)
      /\ bus # <<>>
      /\ bus' = Tail(bus)
      /\ lagged' = lagged
      /\ Head(bus).kind \in K
  BY CoordinatorConstants DEF BusTypes, Receive
<1>2. /\ Head(bus) = bus[1]
      /\ 1 \in 1 .. Len(bus)
      /\ bus[1] \in Events
      /\ Tail(bus) \in Seq(Events)
      /\ Len(Tail(bus)) = Len(bus) - 1
      /\ \A i \in 1 .. Len(Tail(bus)) : Tail(bus)[i] = bus[i + 1] /\ i + 1 \in 1 .. Len(bus)
  BY <1>1
<1>3. BusTypes'
  BY <1>1, <1>2 DEF BusTypes
<1>4. OnBus' \subseteq OnBus
  BY <1>1, <1>2 DEF OnBus
<1>5. QED
  BY <1>1, <1>2, <1>3, <1>4 DEF OnBus

-----------------------------------------------------------------------------
(* The types.                                                              *)

\* Types of the agents' variables.
LEMMA AgentTypesStep == ASSUME TypeOK, [Next]_vars PROVE AgentTypes'
<1>1. ASSUME NEW a \in Agents, Spawn(a) PROVE AgentTypes'
  BY <1>1, CoordinatorConstants DEF Spawn, TypeOK, AgentTypes, RetireStages
<1>2. ASSUME NEW a \in Agents, Exit(a) PROVE AgentTypes'
  BY <1>2, CoordinatorConstants DEF Exit, Die, TypeOK, AgentTypes, RetireStages
<1>3. ASSUME NEW a \in Agents, AnnounceExit(a) PROVE AgentTypes'
  BY <1>3, CoordinatorConstants DEF AnnounceExit, TypeOK, AgentTypes, RetireStages
<1>4. ASSUME NEW a \in Agents, Evict(a) PROVE AgentTypes'
  BY <1>4, CoordinatorConstants DEF Evict, TypeOK, AgentTypes, RetireStages
<1>5. ASSUME NEW a \in Agents, Teardown(a) PROVE AgentTypes'
  BY <1>5, CoordinatorConstants DEF Teardown, TypeOK, AgentTypes, RetireStages
<1>6. ASSUME NEW a \in Agents, Kill(a) PROVE AgentTypes'
  BY <1>6, CoordinatorConstants DEF Kill, Die, TypeOK, AgentTypes, RetireStages
<1>7. ASSUME NEW a \in Agents, FinishRetire(a) PROVE AgentTypes'
  BY <1>7, CoordinatorConstants DEF FinishRetire, TypeOK, AgentTypes, RetireStages
<1>8. ASSUME NEW a \in Agents, NEW n \in 1 .. MaxWrites, Reap(a, n) PROVE AgentTypes'
  BY <1>8, CoordinatorConstants DEF Reap, TypeOK, AgentTypes, RetireStages
<1>9. ASSUME UNCHANGED <<proc, slot, retire, deaths>> PROVE AgentTypes'
  BY <1>9 DEF TypeOK, AgentTypes
<1>10. ASSUME NEW a \in Agents, Register(a) \/ WriteSignal(a) \/ Broadcast(a) \/
      DropRequest(a) \/ WriteOwnError(a) PROVE UNCHANGED <<proc, slot, retire, deaths>>
  BY <1>10 DEF Register, WriteSignal, Broadcast, DropRequest, WriteOwnError,
     agentVars
<1>11. ASSUME NEW a \in Agents, NEW n \in 1 .. MaxWrites, GraceOver(a, n) \/
      GatePasses(a, n) \/ GateFails(a, n) \/ ReapGone(a, n) PROVE UNCHANGED <<proc,
      slot, retire, deaths>>
  BY <1>11 DEF GraceOver, GatePasses, GateFails, ReapGone, agentVars
<1>12. ASSUME NEW k \in Keys, DeleteKey(k) \/ EditKey(k) PROVE UNCHANGED <<proc, slot,
      retire, deaths>>
  BY <1>12 DEF DeleteKey, EditKey, agentVars
<1>13. ASSUME HandleBlackboard \/ HandleExit \/ WriteFallback \/ FallbackFails \/
      HandleOther \/ ReconcileAfterLag \/ Noise PROVE UNCHANGED <<proc, slot, retire,
      deaths>>
  BY <1>13 DEF HandleBlackboard, HandleExit, WriteFallback, FallbackFails,
     HandleOther, ReconcileAfterLag, Noise, agentVars
<1>14. CASE UNCHANGED vars
  BY <1>14, <1>9 DEF vars, agentVars
<1>15. QED
  BY <1>1, <1>2, <1>3, <1>4, <1>5, <1>6, <1>7, <1>8, <1>9, <1>10, <1>11,
     <1>12, <1>13, <1>14 DEF Next, Agent, Retirement, AutoKill, Loop, vars

\* Types of the registrations.
LEMMA RegTypesStep == ASSUME TypeOK, [Next]_vars PROVE RegTypes'
<1>1. ASSUME NEW a \in Agents, Register(a) PROVE RegTypes'
  <2>1. joined' \in [Agents -> BOOLEAN] /\ exitKeys' \in [Agents -> BOOLEAN]
    BY <1>1 DEF Register, TypeOK, RegTypes
  <2>2. \A b \in Agents : DependsOn[b] \subseteq Keys
    BY CoordinatorConstants
  <2>3. Signal[a] # NoKey => Signal[a] \in Keys
    BY CoordinatorConstants
  <2>4. subs' \in [Agents -> SUBSET Keys]
    BY <1>1, <2>2, <2>3 DEF Register, TypeOK, RegTypes
  <2>5. QED
    BY <2>1, <2>4 DEF RegTypes
<1>2. ASSUME NEW a \in Agents, FinishRetire(a) PROVE RegTypes'
  BY <1>2, CoordinatorConstants DEF FinishRetire, TypeOK, RegTypes
<1>3. ASSUME HandleExit PROVE RegTypes'
  BY <1>3, CoordinatorConstants DEF HandleExit, UnregisterExitKey, TypeOK, RegTypes
<1>4. ASSUME UNCHANGED <<joined, subs, exitKeys>> PROVE RegTypes'
  BY <1>4 DEF TypeOK, RegTypes
<1>5. ASSUME NEW a \in Agents, Spawn(a) \/ WriteSignal(a) \/ Broadcast(a) \/
      DropRequest(a) \/ WriteOwnError(a) \/ Exit(a) \/ AnnounceExit(a)
      \/ Evict(a) \/ Teardown(a) \/ Kill(a) PROVE UNCHANGED <<joined, subs, exitKeys>>
  BY <1>5 DEF Spawn, WriteSignal, Broadcast, DropRequest, WriteOwnError, Exit,
     AnnounceExit, Evict, Teardown, Kill, regVars
<1>6. ASSUME NEW a \in Agents, NEW n \in 1 .. MaxWrites, GraceOver(a, n) \/
      GatePasses(a, n) \/ GateFails(a, n) \/ Reap(a, n) \/ ReapGone(a, n) PROVE
      UNCHANGED <<joined, subs, exitKeys>>
  BY <1>6 DEF GraceOver, GatePasses, GateFails, Reap, ReapGone, regVars
<1>7. ASSUME NEW k \in Keys, DeleteKey(k) \/ EditKey(k) PROVE UNCHANGED <<joined, subs,
      exitKeys>>
  BY <1>7 DEF DeleteKey, EditKey, regVars
<1>8. ASSUME HandleBlackboard \/ WriteFallback \/ FallbackFails \/ HandleOther \/
      ReconcileAfterLag \/ Noise PROVE UNCHANGED <<joined, subs, exitKeys>>
  BY <1>8 DEF HandleBlackboard, WriteFallback, FallbackFails, HandleOther,
     ReconcileAfterLag, Noise, regVars
<1>9. CASE UNCHANGED vars
  BY <1>9, <1>4 DEF vars, regVars
<1>10. QED
  BY <1>1, <1>2, <1>3, <1>4, <1>5, <1>6, <1>7, <1>8, <1>9 DEF Next, Agent,
     Retirement, AutoKill, Loop, vars

\* Types of the blackboard.
LEMMA BoardTypesStep == ASSUME TypeOK, [Next]_vars PROVE BoardTypes'
<1>1. ASSUME NEW a \in Agents, WriteSignal(a) PROVE BoardTypes'
  <2>1. {b \in Agents : joined[b]} \in SUBSET Agents
    OBVIOUS
  <2>2. disk' \in [Keys -> SUBSET Agents]
    BY <1>1, <2>1 DEF WriteSignal, TypeOK, BoardTypes
  <2>3. writes' \in [Agents -> 0 .. MaxWrites]
    BY <1>1, CoordinatorConstants DEF WriteSignal, TypeOK, BoardTypes
  <2>4. QED
    BY <1>1, <2>2, <2>3 DEF WriteSignal, TypeOK, BoardTypes
<1>2. ASSUME NEW a \in Agents, Broadcast(a) PROVE BoardTypes'
  <2>1. {b \in Agents : joined[b]} \in SUBSET Agents
    OBVIOUS
  <2>2. oplog' \in [Keys -> SUBSET Agents]
    BY <1>2, <2>1 DEF Broadcast, TypeOK, BoardTypes
  <2>3. QED
    BY <1>2, <2>2 DEF Broadcast, TypeOK, BoardTypes
<1>3. ASSUME NEW a \in Agents, DropRequest(a) PROVE BoardTypes'
  BY <1>3, CoordinatorConstants DEF DropRequest, TypeOK, BoardTypes, RegTypes
<1>4. ASSUME NEW a \in Agents, WriteOwnError(a) PROVE BoardTypes'
  BY <1>4, CoordinatorConstants DEF WriteOwnError, TypeOK, BoardTypes, RegTypes
<1>5. ASSUME NEW k \in Keys, DeleteKey(k) PROVE BoardTypes'
  BY <1>5, CoordinatorConstants DEF DeleteKey, TypeOK, BoardTypes, RegTypes
<1>6. ASSUME NEW k \in Keys, EditKey(k) PROVE BoardTypes'
  BY <1>6, CoordinatorConstants DEF EditKey, TypeOK, BoardTypes, RegTypes
<1>7. ASSUME WriteFallback PROVE BoardTypes'
  <2>1. errors' \in [Keys -> BOOLEAN]
    BY <1>7 DEF WriteFallback, TypeOK, BoardTypes
  <2>2. failures' \in [Agents -> Nat]
    BY <1>7 DEF WriteFallback, TypeOK, BoardTypes, LoopTypes
  <2>3. QED
    BY <1>7, <2>1, <2>2 DEF WriteFallback, TypeOK, BoardTypes
<1>8. ASSUME UNCHANGED <<writes, writing, present, errors, disk, oplog, failures>> PROVE
      BoardTypes'
  BY <1>8 DEF TypeOK, BoardTypes
<1>9. ASSUME NEW a \in Agents, Spawn(a) \/ Register(a) \/ Exit(a) \/ AnnounceExit(a) \/
      Evict(a) \/ Teardown(a) \/ Kill(a) \/ FinishRetire(a) PROVE
      UNCHANGED <<writes, writing, present, errors, disk, oplog, failures>>
  BY <1>9 DEF Spawn, Register, Exit, AnnounceExit, Evict, Teardown, Kill,
     FinishRetire, boardVars
<1>10. ASSUME NEW a \in Agents, NEW n \in 1 .. MaxWrites, GraceOver(a, n) \/
      GatePasses(a, n) \/ GateFails(a, n) \/ Reap(a, n) \/ ReapGone(a, n) PROVE
      UNCHANGED <<writes, writing, present, errors, disk, oplog, failures>>
  BY <1>10 DEF GraceOver, GatePasses, GateFails, Reap, ReapGone, boardVars
<1>11. ASSUME HandleBlackboard \/ HandleExit \/ FallbackFails \/ HandleOther \/
      ReconcileAfterLag \/ Noise PROVE UNCHANGED <<writes, writing, present, errors,
      disk, oplog, failures>>
  BY <1>11 DEF HandleBlackboard, HandleExit, FallbackFails, HandleOther,
     ReconcileAfterLag, Noise, boardVars
<1>12. CASE UNCHANGED vars
  BY <1>12, <1>8 DEF vars, boardVars
<1>13. QED
  BY <1>1, <1>2, <1>3, <1>4, <1>5, <1>6, <1>7, <1>8, <1>9, <1>10, <1>11, <1>12 DEF
     Next, Agent, Retirement, AutoKill, Loop, vars

\* Types of the bus.
LEMMA BusTypesStep == ASSUME TypeOK, [Next]_vars PROVE BusTypes'
<1>1. ASSUME NEW a \in Agents, Broadcast(a) PROVE BusTypes'
  <2>1. Event("write", Signal[a], a, writes[a]) \in Events
    BY <1>1, CoordinatorConstants DEF Event, Events, TypeOK, BoardTypes
  <2>2. QED
    BY <1>1, <2>1, PublishBus DEF Broadcast, TypeOK
<1>2. ASSUME NEW a \in Agents, WriteOwnError(a) PROVE BusTypes'
  <2>1. Event("error", Signal[a], a, 0) \in Events
    BY <1>2, CoordinatorConstants DEF Event, Events, TypeOK
  <2>2. QED
    BY <1>2, <2>1, PublishBus DEF WriteOwnError, TypeOK
<1>3. ASSUME NEW a \in Agents, AnnounceExit(a) PROVE BusTypes'
  <2>1. Event("exit", NoKey, a, 0) \in Events
    BY <1>3, CoordinatorConstants DEF Event, Events, TypeOK
  <2>2. QED
    BY <1>3, <2>1, PublishBus DEF AnnounceExit, TypeOK
<1>4. ASSUME NEW a \in Agents, FinishRetire(a) PROVE BusTypes'
  <2>1. Event("exit", NoKey, a, 0) \in Events
    BY <1>4, CoordinatorConstants DEF Event, Events, TypeOK
  <2>2. QED
    BY <1>4, <2>1, PublishBus DEF FinishRetire, TypeOK
<1>5. ASSUME NEW k \in Keys, DeleteKey(k) PROVE BusTypes'
  <2>1. Event("write", k, NoAgent, 0) \in Events
    BY <1>5, CoordinatorConstants DEF Event, Events, TypeOK
  <2>2. QED
    BY <1>5, <2>1, PublishBus DEF DeleteKey, TypeOK
<1>6. ASSUME NEW k \in Keys, EditKey(k) PROVE BusTypes'
  <2>1. Event("write", k, NoAgent, 0) \in Events
    BY <1>6, CoordinatorConstants DEF Event, Events, TypeOK
  <2>2. QED
    BY <1>6, <2>1, PublishBus DEF EditKey, TypeOK
<1>7. ASSUME HandleBlackboard PROVE BusTypes'
  BY <1>7, ReceiveBus DEF HandleBlackboard, TypeOK
<1>8. ASSUME HandleExit PROVE BusTypes'
  BY <1>8, ReceiveBus DEF HandleExit, TypeOK
<1>9. ASSUME WriteFallback PROVE BusTypes'
  <2>1. Event("error", Signal[fallback], NoAgent, 0) \in Events
    BY <1>9, CoordinatorConstants DEF Event, Events, TypeOK, WriteFallback,
       LoopTypes
  <2>2. QED
    BY <1>9, <2>1, PublishBus DEF WriteFallback, TypeOK
<1>10. ASSUME HandleOther PROVE BusTypes'
  BY <1>10, ReceiveBus DEF HandleOther, TypeOK
<1>11. ASSUME ReconcileAfterLag PROVE BusTypes'
  BY <1>11 DEF ReconcileAfterLag, TypeOK, BusTypes
<1>12. ASSUME Noise PROVE BusTypes'
  <2>1. Event("other", NoKey, NoAgent, 0) \in Events
    BY <1>12, CoordinatorConstants DEF Event, Events, TypeOK
  <2>2. QED
    BY <1>12, <2>1, PublishBus DEF Noise, TypeOK
<1>13. ASSUME UNCHANGED <<bus, lagged>> PROVE BusTypes'
  BY <1>13 DEF TypeOK, BusTypes
<1>14. ASSUME NEW a \in Agents, Spawn(a) \/ Register(a) \/ WriteSignal(a) \/
      DropRequest(a) \/ Exit(a) \/ Evict(a) \/ Teardown(a) \/ Kill(a) PROVE UNCHANGED
      <<bus, lagged>>
  BY <1>14 DEF Spawn, Register, WriteSignal, DropRequest, Exit, Evict, Teardown,
     Kill, busVars
<1>15. ASSUME NEW a \in Agents, NEW n \in 1 .. MaxWrites, GraceOver(a, n) \/
      GatePasses(a, n) \/ GateFails(a, n) \/ Reap(a, n) \/ ReapGone(a, n) PROVE
      UNCHANGED <<bus, lagged>>
  BY <1>15 DEF GraceOver, GatePasses, GateFails, Reap, ReapGone, busVars
<1>16. ASSUME FallbackFails PROVE UNCHANGED <<bus, lagged>>
  BY <1>16 DEF FallbackFails, busVars
<1>17. CASE UNCHANGED vars
  BY <1>17, <1>13 DEF vars, busVars
<1>18. QED
  BY <1>1, <1>2, <1>3, <1>4, <1>5, <1>6, <1>7, <1>8, <1>9, <1>10, <1>11,
     <1>12, <1>13, <1>14, <1>15, <1>16, <1>17 DEF Next, Agent, Retirement, AutoKill,
     Loop, vars

\* Types of the loop and its tasks.
LEMMA LoopTypesStep == ASSUME TypeOK, [Next]_vars PROVE LoopTypes'
<1>1. ASSUME NEW a \in Agents, WriteSignal(a) PROVE LoopTypes'
  BY <1>1, CoordinatorConstants DEF WriteSignal, Owe, TypeOK, LoopTypes, TryStages,
     BoardTypes
<1>2. ASSUME NEW a \in Agents, Exit(a) PROVE LoopTypes'
  <2>1. owes' \in [Agents -> SUBSET {"delivery", "death"}]
    <3>1. CASE owes' = owes
      BY <3>1 DEF TypeOK, LoopTypes
    <3>2. CASE Owe(Subscribers(Signal[a], a), "death")
      BY <3>2 DEF Owe, TypeOK, LoopTypes
    <3>3. QED
      BY <1>2, <3>1, <3>2 DEF Exit, Die
  <2>2. QED
    BY <1>2, <2>1 DEF Exit, TypeOK, LoopTypes
<1>3. ASSUME NEW a \in Agents, Kill(a) PROVE LoopTypes'
  <2>1. owes' \in [Agents -> SUBSET {"delivery", "death"}]
    <3>1. CASE owes' = owes
      BY <3>1 DEF TypeOK, LoopTypes
    <3>2. CASE Owe(Subscribers(Signal[a], a), "death")
      BY <3>2 DEF Owe, TypeOK, LoopTypes
    <3>3. QED
      BY <1>3, <3>1, <3>2 DEF Kill, Die
  <2>2. QED
    BY <1>3, <2>1 DEF Kill, TypeOK, LoopTypes
<1>4. ASSUME NEW a \in Agents, NEW n \in 1 .. MaxWrites, GraceOver(a, n) PROVE
      LoopTypes'
  BY <1>4, CoordinatorConstants DEF GraceOver, Stage, TypeOK, LoopTypes, TryStages,
     BoardTypes
<1>5. ASSUME NEW a \in Agents, NEW n \in 1 .. MaxWrites, GatePasses(a, n) PROVE
      LoopTypes'
  BY <1>5, CoordinatorConstants DEF GatePasses, Stage, TypeOK, LoopTypes, TryStages,
     BoardTypes
<1>6. ASSUME NEW a \in Agents, NEW n \in 1 .. MaxWrites, GateFails(a, n) PROVE
      LoopTypes'
  BY <1>6, CoordinatorConstants DEF GateFails, Stage, TypeOK, LoopTypes, TryStages,
     BoardTypes
<1>7. ASSUME NEW a \in Agents, NEW n \in 1 .. MaxWrites, Reap(a, n) PROVE LoopTypes'
  BY <1>7, CoordinatorConstants DEF Reap, Stage, TypeOK, LoopTypes, TryStages,
     BoardTypes
<1>8. ASSUME NEW a \in Agents, NEW n \in 1 .. MaxWrites, ReapGone(a, n) PROVE LoopTypes'
  BY <1>8, CoordinatorConstants DEF ReapGone, Stage, TypeOK, LoopTypes, TryStages,
     BoardTypes
<1>9. ASSUME HandleBlackboard PROVE LoopTypes'
  <2>1. Head(bus) \in Events
    BY <1>9, ReceiveBus DEF HandleBlackboard, TypeOK
  <2>2. QED
    BY <1>9, <2>1 DEF HandleBlackboard, Wake, TypeOK, LoopTypes, TryStages, Events,
       SelectAutoKill
<1>10. ASSUME HandleExit PROVE LoopTypes'
  <2>1. Head(bus) \in Events
    BY <1>10, ReceiveBus DEF HandleExit, TypeOK
  <2>2. QED
    BY <1>10, <2>1 DEF HandleExit, TypeOK, LoopTypes, TryStages, Events,
       SelectAutoKill
<1>11. ASSUME WriteFallback PROVE LoopTypes'
  BY <1>11, CoordinatorConstants DEF WriteFallback, TypeOK, LoopTypes, TryStages,
     BoardTypes
<1>12. ASSUME FallbackFails PROVE LoopTypes'
  BY <1>12, CoordinatorConstants DEF FallbackFails, Wake, TypeOK, LoopTypes,
     TryStages, BoardTypes
<1>13. ASSUME ReconcileAfterLag PROVE LoopTypes'
  BY <1>13, CoordinatorConstants DEF ReconcileAfterLag, Wake, TypeOK, LoopTypes,
     TryStages, BoardTypes
<1>14. ASSUME UNCHANGED <<fallback, try, owes>> PROVE LoopTypes'
  BY <1>14 DEF TypeOK, LoopTypes
<1>15. ASSUME NEW a \in Agents, Spawn(a) \/ Register(a) \/ Broadcast(a) \/
      DropRequest(a) \/ WriteOwnError(a) \/ AnnounceExit(a) \/ Evict(a)
      \/ Teardown(a) \/ FinishRetire(a) PROVE UNCHANGED <<fallback, try, owes>>
  BY <1>15 DEF Spawn, Register, Broadcast, DropRequest, WriteOwnError, AnnounceExit,
     Evict, Teardown, FinishRetire, loopVars
<1>16. ASSUME NEW k \in Keys, DeleteKey(k) \/ EditKey(k) PROVE UNCHANGED <<fallback,
      try, owes>>
  BY <1>16 DEF DeleteKey, EditKey, loopVars
<1>17. ASSUME HandleOther \/ Noise PROVE UNCHANGED <<fallback, try, owes>>
  BY <1>17 DEF HandleOther, Noise, loopVars
<1>18. CASE UNCHANGED vars
  BY <1>18, <1>14 DEF vars, loopVars
<1>19. QED
  BY <1>1, <1>2, <1>3, <1>4, <1>5, <1>6, <1>7, <1>8, <1>9, <1>10, <1>11, <1>12,
     <1>13, <1>14, <1>15, <1>16, <1>17, <1>18 DEF Next, Agent, Retirement, AutoKill,
     Loop, vars

-----------------------------------------------------------------------------
(* The parts of the invariant.                                             *)

\* Nobody is registered, in the registry or retired without a process.
LEMMA StartedStep == ASSUME IInv, [Next]_vars PROVE Started'
<1>1. ASSUME NEW a \in Agents, Spawn(a) PROVE Started'
  BY <1>1 DEF Spawn, regVars, Started, IInv, TypeOK, AgentTypes, RegTypes
<1>2. ASSUME NEW a \in Agents, Register(a) PROVE Started'
  BY <1>2 DEF Register, agentVars, Started, IInv, TypeOK, AgentTypes, RegTypes
<1>3. ASSUME NEW a \in Agents, Exit(a) PROVE Started'
  BY <1>3 DEF Exit, Die, regVars, Started, IInv, TypeOK, AgentTypes, RegTypes
<1>4. ASSUME NEW a \in Agents, Evict(a) PROVE Started'
  BY <1>4 DEF Evict, regVars, Started, IInv, TypeOK, AgentTypes, RegTypes
<1>5. ASSUME NEW a \in Agents, Teardown(a) PROVE Started'
  BY <1>5 DEF Teardown, regVars, Started, IInv, TypeOK, AgentTypes, RegTypes
<1>6. ASSUME NEW a \in Agents, Kill(a) PROVE Started'
  BY <1>6 DEF Kill, Die, regVars, Started, IInv, TypeOK, AgentTypes, RegTypes
<1>7. ASSUME NEW a \in Agents, FinishRetire(a) PROVE Started'
  BY <1>7 DEF FinishRetire, Started, IInv, TypeOK, AgentTypes, RegTypes
<1>8. ASSUME NEW a \in Agents, NEW n \in 1 .. MaxWrites, Reap(a, n) PROVE Started'
  BY <1>8 DEF Reap, regVars, Started, IInv, TypeOK, AgentTypes, RegTypes
<1>9. ASSUME UNCHANGED <<proc, slot, retire, joined>> PROVE Started'
  BY <1>9 DEF IInv, Started
<1>10. ASSUME NEW a \in Agents, WriteSignal(a) \/ Broadcast(a) \/ DropRequest(a) \/
      WriteOwnError(a) \/ AnnounceExit(a) PROVE UNCHANGED <<proc, slot,
      retire, joined>>
  BY <1>10 DEF WriteSignal, Broadcast, DropRequest, WriteOwnError, AnnounceExit,
     agentVars, regVars
<1>11. ASSUME NEW a \in Agents, NEW n \in 1 .. MaxWrites, GraceOver(a, n) \/
      GatePasses(a, n) \/ GateFails(a, n) \/ ReapGone(a, n) PROVE UNCHANGED <<proc,
      slot, retire, joined>>
  BY <1>11 DEF GraceOver, GatePasses, GateFails, ReapGone, agentVars, regVars
<1>12. ASSUME NEW k \in Keys, DeleteKey(k) \/ EditKey(k) PROVE UNCHANGED <<proc, slot,
      retire, joined>>
  BY <1>12 DEF DeleteKey, EditKey, agentVars, regVars
<1>13. ASSUME HandleBlackboard \/ HandleExit \/ WriteFallback \/ FallbackFails \/
      HandleOther \/ ReconcileAfterLag \/ Noise PROVE UNCHANGED <<proc, slot, retire,
      joined>>
  BY <1>13 DEF HandleBlackboard, HandleExit, WriteFallback, FallbackFails,
     HandleOther, ReconcileAfterLag, Noise, agentVars, regVars
<1>14. CASE UNCHANGED vars
  BY <1>14, <1>9 DEF vars, agentVars, regVars
<1>15. QED
  BY <1>1, <1>2, <1>3, <1>4, <1>5, <1>6, <1>7, <1>8, <1>9, <1>10, <1>11, <1>12,
     <1>13, <1>14 DEF Next, Agent, Retirement, AutoKill, Loop, vars

\* Every event on the bus tells of something that happened.
LEMMA EventsAreTrueStep == ASSUME IInv, [Next]_vars PROVE EventsAreTrue'
<1>1. ASSUME NEW a \in Agents, WriteSignal(a) PROVE EventsAreTrue'
  <2>1. OnBus' = OnBus
    BY <1>1 DEF WriteSignal, busVars, OnBus
  <2>2. \A b \in Agents : writes[b] \in Nat /\ writes'[b] \in Nat /\ writes[b] <= writes'[b]
    BY <1>1, CoordinatorConstants DEF WriteSignal, IInv, TypeOK, BoardTypes
  <2>3. \A e \in OnBus : e \in Events
    BY DEF OnBus, IInv, TypeOK, BusTypes
  <2>4. QED
    BY <2>1, <2>2, <2>3 DEF IInv, EventsAreTrue, Events
<1>2. ASSUME NEW a \in Agents, Broadcast(a) PROVE EventsAreTrue'
  <2>1. Event("write", Signal[a], a, writes[a]) \in Events
    BY CoordinatorConstants DEF Event, Events, IInv, TypeOK, BoardTypes
  <2>2. /\ OnBus' \subseteq OnBus \cup {Event("write", Signal[a], a, writes[a])}
        /\ writes' = writes
    BY <1>2, <2>1, PublishBus DEF Broadcast, IInv, TypeOK
  <2>3. writes[a] \in 1 .. writes[a]
    BY <1>2, CoordinatorConstants DEF Broadcast, IInv, WritesAreFresh, TypeOK, BoardTypes
  <2>4. QED
    BY <2>2, <2>3 DEF Event, IInv, EventsAreTrue
<1>3. ASSUME NEW a \in Agents, WriteOwnError(a) PROVE EventsAreTrue'
  <2>1. Event("error", Signal[a], a, 0) \in Events
    BY <1>3, CoordinatorConstants DEF Event, Events
  <2>2. /\ OnBus' \subseteq OnBus \cup {Event("error", Signal[a], a, 0)}
        /\ writes' = writes
    BY <1>3, <2>1, PublishBus DEF WriteOwnError, IInv, TypeOK
  <2>3. QED
    BY <2>2 DEF Event, IInv, EventsAreTrue
<1>4. ASSUME NEW a \in Agents, AnnounceExit(a) PROVE EventsAreTrue'
  <2>1. Event("exit", NoKey, a, 0) \in Events
    BY <1>4, CoordinatorConstants DEF Event, Events
  <2>2. /\ OnBus' \subseteq OnBus \cup {Event("exit", NoKey, a, 0)}
        /\ writes' = writes
    BY <1>4, <2>1, PublishBus DEF AnnounceExit, IInv, TypeOK, boardVars
  <2>3. QED
    BY <2>2 DEF Event, IInv, EventsAreTrue
<1>5. ASSUME NEW a \in Agents, FinishRetire(a) PROVE EventsAreTrue'
  <2>1. Event("exit", NoKey, a, 0) \in Events
    BY <1>5, CoordinatorConstants DEF Event, Events
  <2>2. /\ OnBus' \subseteq OnBus \cup {Event("exit", NoKey, a, 0)}
        /\ writes' = writes
    BY <1>5, <2>1, PublishBus DEF FinishRetire, IInv, TypeOK, boardVars
  <2>3. QED
    BY <2>2 DEF Event, IInv, EventsAreTrue
<1>6. ASSUME NEW k \in Keys, DeleteKey(k) PROVE EventsAreTrue'
  <2>1. Event("write", k, NoAgent, 0) \in Events
    BY <1>6, CoordinatorConstants DEF Event, Events
  <2>2. /\ OnBus' \subseteq OnBus \cup {Event("write", k, NoAgent, 0)}
        /\ writes' = writes
    BY <1>6, <2>1, PublishBus DEF DeleteKey, IInv, TypeOK
  <2>3. QED
    BY <2>2, CoordinatorConstants DEF Event, IInv, EventsAreTrue
<1>7. ASSUME NEW k \in Keys, EditKey(k) PROVE EventsAreTrue'
  <2>1. Event("write", k, NoAgent, 0) \in Events
    BY <1>7, CoordinatorConstants DEF Event, Events
  <2>2. /\ OnBus' \subseteq OnBus \cup {Event("write", k, NoAgent, 0)}
        /\ writes' = writes
    BY <1>7, <2>1, PublishBus DEF EditKey, IInv, TypeOK
  <2>3. QED
    BY <2>2, CoordinatorConstants DEF Event, IInv, EventsAreTrue
<1>8. ASSUME HandleBlackboard PROVE EventsAreTrue'
  <2>1. OnBus' \subseteq OnBus /\ writes' = writes
    BY <1>8, ReceiveBus DEF HandleBlackboard, IInv, TypeOK, boardVars
  <2>2. QED
    BY <2>1 DEF IInv, EventsAreTrue
<1>9. ASSUME HandleExit PROVE EventsAreTrue'
  <2>1. OnBus' \subseteq OnBus /\ writes' = writes
    BY <1>9, ReceiveBus DEF HandleExit, IInv, TypeOK, boardVars
  <2>2. QED
    BY <2>1 DEF IInv, EventsAreTrue
<1>10. ASSUME WriteFallback PROVE EventsAreTrue'
  <2>1. Event("error", Signal[fallback], NoAgent, 0) \in Events
    BY <1>10, CoordinatorConstants DEF Event, Events, WriteFallback, IInv, TypeOK,
       LoopTypes
  <2>2. /\ OnBus' \subseteq OnBus \cup {Event("error", Signal[fallback], NoAgent, 0)}
        /\ writes' = writes
    BY <1>10, <2>1, PublishBus DEF WriteFallback, IInv, TypeOK
  <2>3. QED
    BY <2>2 DEF Event, IInv, EventsAreTrue
<1>11. ASSUME HandleOther PROVE EventsAreTrue'
  <2>1. OnBus' \subseteq OnBus /\ writes' = writes
    BY <1>11, ReceiveBus DEF HandleOther, IInv, TypeOK, boardVars
  <2>2. QED
    BY <2>1 DEF IInv, EventsAreTrue
<1>12. ASSUME Noise PROVE EventsAreTrue'
  <2>1. Event("other", NoKey, NoAgent, 0) \in Events
    BY <1>12, CoordinatorConstants DEF Event, Events
  <2>2. /\ OnBus' \subseteq OnBus \cup {Event("other", NoKey, NoAgent, 0)}
        /\ writes' = writes
    BY <1>12, <2>1, PublishBus DEF Noise, IInv, TypeOK, boardVars
  <2>3. QED
    BY <2>2 DEF Event, IInv, EventsAreTrue
<1>13. ASSUME UNCHANGED <<writes, bus>> PROVE EventsAreTrue'
  BY <1>13 DEF IInv, EventsAreTrue, OnBus
<1>14. ASSUME NEW a \in Agents, Spawn(a) \/ Register(a) \/ DropRequest(a) \/ Exit(a) \/
      Evict(a) \/ Teardown(a) \/ Kill(a) PROVE UNCHANGED <<writes, bus>>
  BY <1>14 DEF Spawn, Register, DropRequest, Exit, Evict, Teardown, Kill, boardVars,
     busVars
<1>15. ASSUME NEW a \in Agents, NEW n \in 1 .. MaxWrites, GraceOver(a, n) \/
      GatePasses(a, n) \/ GateFails(a, n) \/ Reap(a, n) \/ ReapGone(a, n) PROVE
      UNCHANGED <<writes, bus>>
  BY <1>15 DEF GraceOver, GatePasses, GateFails, Reap, ReapGone, boardVars, busVars
<1>16. ASSUME FallbackFails \/ ReconcileAfterLag PROVE UNCHANGED <<writes, bus>>
  BY <1>16 DEF FallbackFails, ReconcileAfterLag, boardVars, busVars
<1>17. CASE UNCHANGED vars
  BY <1>17, <1>13 DEF vars, boardVars, busVars
<1>18. QED
  BY <1>1, <1>2, <1>3, <1>4, <1>5, <1>6, <1>7, <1>8, <1>9, <1>10, <1>11,
     <1>12, <1>13, <1>14, <1>15, <1>16, <1>17 DEF Next, Agent, Retirement, AutoKill,
     Loop, vars

\* An auto-kill task keeps belonging to a write that was made.
LEMMA TriesAreEarnedStep == ASSUME IInv, [Next]_vars PROVE TriesAreEarned'
<1>1. ASSUME NEW a \in Agents, WriteSignal(a) PROVE TriesAreEarned'
  BY <1>1, CoordinatorConstants DEF WriteSignal, TriesAreEarned, IInv, TypeOK,
     BoardTypes, LoopTypes
<1>2. ASSUME NEW a \in Agents, NEW n \in 1 .. MaxWrites, GraceOver(a, n) PROVE
      TriesAreEarned'
  BY <1>2, CoordinatorConstants DEF GraceOver, Stage, boardVars, TriesAreEarned,
     IInv, TypeOK, BoardTypes, LoopTypes
<1>3. ASSUME NEW a \in Agents, NEW n \in 1 .. MaxWrites, GatePasses(a, n) PROVE
      TriesAreEarned'
  BY <1>3, CoordinatorConstants DEF GatePasses, Stage, boardVars, TriesAreEarned,
     IInv, TypeOK, BoardTypes, LoopTypes
<1>4. ASSUME NEW a \in Agents, NEW n \in 1 .. MaxWrites, GateFails(a, n) PROVE
      TriesAreEarned'
  BY <1>4, CoordinatorConstants DEF GateFails, Stage, boardVars, TriesAreEarned,
     IInv, TypeOK, BoardTypes, LoopTypes
<1>5. ASSUME NEW a \in Agents, NEW n \in 1 .. MaxWrites, Reap(a, n) PROVE
      TriesAreEarned'
  BY <1>5, CoordinatorConstants DEF Reap, Stage, boardVars, TriesAreEarned, IInv,
     TypeOK, BoardTypes, LoopTypes
<1>6. ASSUME NEW a \in Agents, NEW n \in 1 .. MaxWrites, ReapGone(a, n) PROVE
      TriesAreEarned'
  BY <1>6, CoordinatorConstants DEF ReapGone, Stage, boardVars, TriesAreEarned,
     IInv, TypeOK, BoardTypes, LoopTypes
<1>7. ASSUME HandleBlackboard PROVE TriesAreEarned'
  <2>1. /\ Head(bus) \in OnBus
        /\ Head(bus) \in Events
        /\ Head(bus).kind \in {"write", "error"}
    BY <1>7, ReceiveBus DEF HandleBlackboard, IInv, TypeOK
  <2>2. ASSUME NEW a \in Agents, NEW n \in 1 .. MaxWrites, try'[a][n] # "none"
        PROVE  n <= writes[a]
    <3>1. CASE try[a][n] # "none"
      BY <3>1 DEF IInv, TriesAreEarned
    <3>2. CASE try[a][n] = "none"
      <4>1. /\ Head(bus).kind = "write"
            /\ Head(bus).agent = a
            /\ Head(bus).n = n
        BY <1>7, <2>2, <3>2 DEF HandleBlackboard, SelectAutoKill, IInv, TypeOK, LoopTypes
      <4>2. n \in 1 .. writes[a]
        BY <2>1, <4>1, CoordinatorConstants DEF IInv, EventsAreTrue
      <4>3. QED
        BY <4>2
    <3>3. QED
      BY <3>1, <3>2
  <2>3. QED
    BY <1>7, <2>2 DEF HandleBlackboard, boardVars, TriesAreEarned
<1>8. ASSUME UNCHANGED <<writes, try>> PROVE TriesAreEarned'
  BY <1>8 DEF IInv, TriesAreEarned
<1>9. ASSUME NEW a \in Agents, Spawn(a) \/ Register(a) \/ Broadcast(a) \/ DropRequest(a)
      \/ WriteOwnError(a) \/ Exit(a) \/ AnnounceExit(a) \/ Evict(a) \/
      Teardown(a) \/ Kill(a) \/ FinishRetire(a) PROVE UNCHANGED <<writes, try>>
  BY <1>9 DEF Spawn, Register, Broadcast, DropRequest, WriteOwnError, Exit,
     AnnounceExit, Evict, Teardown, Kill, FinishRetire, boardVars,
     loopVars
<1>10. ASSUME NEW k \in Keys, DeleteKey(k) \/ EditKey(k) PROVE UNCHANGED <<writes, try>>
  BY <1>10 DEF DeleteKey, EditKey, loopVars
<1>11. ASSUME HandleExit \/ WriteFallback \/ FallbackFails \/ HandleOther \/
      ReconcileAfterLag \/ Noise PROVE UNCHANGED <<writes, try>>
  BY <1>11 DEF HandleExit, WriteFallback, FallbackFails, HandleOther,
     ReconcileAfterLag, Noise, boardVars, loopVars
<1>12. CASE UNCHANGED vars
  BY <1>12, <1>8 DEF vars, boardVars, loopVars
<1>13. QED
  BY <1>1, <1>2, <1>3, <1>4, <1>5, <1>6, <1>7, <1>8, <1>9, <1>10, <1>11, <1>12 DEF
     Next, Agent, Retirement, AutoKill, Loop, vars

\* A slot is taken by one auto-kill task at most.
LEMMA OneKillerStep == ASSUME IInv, [Next]_vars PROVE OneKiller'
<1>1. ASSUME NEW a \in Agents, Spawn(a) PROVE OneKiller'
  <2>1. proc[a] = "none" /\ try' = try
    BY <1>1 DEF Spawn, loopVars
  <2>2. \A b \in Agents \ {a} : slot'[b] = slot[b] /\ proc'[b] = proc[b]
    BY <1>1 DEF Spawn, IInv, TypeOK, AgentTypes
  <2>3. QED
    BY <2>1, <2>2 DEF IInv, OneKiller
<1>2. ASSUME NEW a \in Agents, Exit(a) PROVE OneKiller'
  <2>1. UNCHANGED <<slot, try>>
    BY <1>2 DEF Exit
  <2>2. \A b \in Agents : proc[b] # "none" => proc'[b] # "none"
    BY <1>2 DEF Exit, Die, IInv, TypeOK, AgentTypes
  <2>3. QED
    BY <2>1, <2>2 DEF IInv, OneKiller
<1>3. ASSUME NEW a \in Agents, Evict(a) PROVE OneKiller'
  <2>1. UNCHANGED <<proc, try>>
    BY <1>3 DEF Evict, loopVars
  <2>2. \A b \in Agents : ~slot[b] => ~slot'[b]
    BY <1>3 DEF Evict, IInv, TypeOK, AgentTypes
  <2>3. QED
    BY <2>1, <2>2 DEF IInv, OneKiller
<1>4. ASSUME NEW a \in Agents, Teardown(a) PROVE OneKiller'
  <2>1. UNCHANGED <<proc, try>>
    BY <1>4 DEF Teardown, loopVars
  <2>2. \A b \in Agents : ~slot[b] => ~slot'[b]
    BY <1>4 DEF Teardown, IInv, TypeOK, AgentTypes
  <2>3. QED
    BY <2>1, <2>2 DEF IInv, OneKiller
<1>5. ASSUME NEW a \in Agents, Kill(a) PROVE OneKiller'
  <2>1. UNCHANGED <<slot, try>>
    BY <1>5 DEF Kill
  <2>2. \A b \in Agents : proc[b] # "none" => proc'[b] # "none"
    BY <1>5 DEF Kill, Die, IInv, TypeOK, AgentTypes
  <2>3. QED
    BY <2>1, <2>2 DEF IInv, OneKiller
<1>6. ASSUME NEW a \in Agents, NEW n \in 1 .. MaxWrites, GraceOver(a, n) PROVE
      OneKiller'
  <2>1. UNCHANGED <<slot, proc>>
    BY <1>6 DEF GraceOver, agentVars
  <2>2. \A b \in Agents, m \in 1 .. MaxWrites : try'[b][m] = "killer" => try[b][m] = "killer"
    BY <1>6 DEF GraceOver, Stage, IInv, TypeOK, LoopTypes
  <2>3. QED
    BY <2>1, <2>2 DEF IInv, OneKiller
<1>7. ASSUME NEW a \in Agents, NEW n \in 1 .. MaxWrites, GatePasses(a, n) PROVE
      OneKiller'
  <2>1. UNCHANGED <<slot, proc>>
    BY <1>7 DEF GatePasses, agentVars
  <2>2. \A b \in Agents, m \in 1 .. MaxWrites : try'[b][m] = "killer" => try[b][m] = "killer"
    BY <1>7 DEF GatePasses, Stage, IInv, TypeOK, LoopTypes
  <2>3. QED
    BY <2>1, <2>2 DEF IInv, OneKiller
<1>8. ASSUME NEW a \in Agents, NEW n \in 1 .. MaxWrites, GateFails(a, n) PROVE
      OneKiller'
  <2>1. UNCHANGED <<slot, proc>>
    BY <1>8 DEF GateFails, agentVars
  <2>2. \A b \in Agents, m \in 1 .. MaxWrites : try'[b][m] = "killer" => try[b][m] = "killer"
    BY <1>8 DEF GateFails, Stage, IInv, TypeOK, LoopTypes
  <2>3. QED
    BY <2>1, <2>2 DEF IInv, OneKiller
<1>9. ASSUME NEW a \in Agents, NEW n \in 1 .. MaxWrites, Reap(a, n) PROVE OneKiller'
  BY <1>9, CoordinatorConstants DEF Reap, Stage, OneKiller, Started, IInv, TypeOK,
     AgentTypes, LoopTypes, TryStages
<1>10. ASSUME NEW a \in Agents, NEW n \in 1 .. MaxWrites, ReapGone(a, n) PROVE
      OneKiller'
  <2>1. UNCHANGED <<slot, proc>>
    BY <1>10 DEF ReapGone, agentVars
  <2>2. \A b \in Agents, m \in 1 .. MaxWrites : try'[b][m] = "killer" => try[b][m] = "killer"
    BY <1>10 DEF ReapGone, Stage, IInv, TypeOK, LoopTypes
  <2>3. QED
    BY <2>1, <2>2 DEF IInv, OneKiller
<1>11. ASSUME HandleBlackboard PROVE OneKiller'
  BY <1>11, CoordinatorConstants DEF HandleBlackboard, agentVars, OneKiller,
     Started, IInv, TypeOK, AgentTypes, LoopTypes, TryStages
<1>12. ASSUME UNCHANGED <<proc, slot, try>> PROVE OneKiller'
  BY <1>12 DEF IInv, OneKiller
<1>13. ASSUME NEW a \in Agents, Register(a) \/ WriteSignal(a) \/ Broadcast(a) \/
      DropRequest(a) \/ WriteOwnError(a) \/ AnnounceExit(a) \/
      FinishRetire(a) PROVE UNCHANGED <<proc, slot, try>>
  BY <1>13 DEF Register, WriteSignal, Broadcast, DropRequest, WriteOwnError,
     AnnounceExit, FinishRetire, agentVars, loopVars
<1>14. ASSUME NEW k \in Keys, DeleteKey(k) \/ EditKey(k) PROVE UNCHANGED <<proc, slot,
      try>>
  BY <1>14 DEF DeleteKey, EditKey, agentVars, loopVars
<1>15. ASSUME HandleExit \/ WriteFallback \/ FallbackFails \/ HandleOther \/
      ReconcileAfterLag \/ Noise PROVE UNCHANGED <<proc, slot, try>>
  BY <1>15 DEF HandleExit, WriteFallback, FallbackFails, HandleOther,
     ReconcileAfterLag, Noise, agentVars, loopVars
<1>16. CASE UNCHANGED vars
  BY <1>16, <1>12 DEF vars, agentVars, loopVars
<1>17. QED
  BY <1>1, <1>2, <1>3, <1>4, <1>5, <1>6, <1>7, <1>8, <1>9, <1>10, <1>11, <1>12,
     <1>13, <1>14, <1>15, <1>16 DEF Next, Agent, Retirement, AutoKill, Loop, vars

\* A write remains fresh for its writer.
LEMMA WritesAreFreshStep == ASSUME IInv, [Next]_vars PROVE WritesAreFresh'
<1>1. ASSUME NEW a \in Agents, Register(a) PROVE WritesAreFresh'
  BY <1>1, CoordinatorConstants DEF Register, boardVars, WritesAreFresh, Fresh,
     IInv, TypeOK, RegTypes, BoardTypes
<1>2. ASSUME NEW a \in Agents, WriteSignal(a) PROVE WritesAreFresh'
  <2>1. ASSUME NEW b \in Agents, writes'[b] > 0
        PROVE  joined'[b] /\ Signal[b] \in Keys /\ Fresh(b)'
    <3>1. joined[b] /\ Signal[b] \in Keys
      BY <1>2, <2>1, CoordinatorConstants DEF WriteSignal, IInv, WritesAreFresh, TypeOK,
         BoardTypes
    <3>2. CASE Signal[b] = Signal[a]
      <4>1. disk'[Signal[b]] = {c \in Agents : joined[c]}
        BY <1>2, <3>1, <3>2 DEF WriteSignal, IInv, TypeOK, BoardTypes
      <4>2. QED
        BY <1>2, <3>1, <4>1 DEF WriteSignal, regVars, Fresh
    <3>3. CASE Signal[b] # Signal[a]
      <4>1. writes[b] > 0 /\ disk'[Signal[b]] = disk[Signal[b]]
        BY <1>2, <2>1, <3>1, <3>3 DEF WriteSignal, IInv, TypeOK, BoardTypes
      <4>2. QED
        BY <1>2, <3>1, <4>1 DEF WriteSignal, regVars, Fresh, IInv, WritesAreFresh
    <3>4. QED
      BY <3>2, <3>3
  <2>2. ASSUME NEW b \in Agents, writing'[b] PROVE writes'[b] > 0
    BY <1>2, <2>2, CoordinatorConstants DEF WriteSignal, IInv, WritesAreFresh, TypeOK,
       BoardTypes
  <2>3. QED
    BY <2>1, <2>2 DEF WritesAreFresh, Fresh
<1>3. ASSUME NEW a \in Agents, Broadcast(a) PROVE WritesAreFresh'
  BY <1>3, CoordinatorConstants DEF Broadcast, regVars, WritesAreFresh, Fresh, IInv,
     TypeOK, RegTypes, BoardTypes
<1>4. ASSUME NEW a \in Agents, DropRequest(a) PROVE WritesAreFresh'
  BY <1>4, CoordinatorConstants DEF DropRequest, regVars, WritesAreFresh, Fresh,
     IInv, TypeOK, RegTypes, BoardTypes
<1>5. ASSUME NEW k \in Keys, DeleteKey(k) PROVE WritesAreFresh'
  BY <1>5, CoordinatorConstants DEF DeleteKey, regVars, WritesAreFresh, Fresh, IInv,
     TypeOK, RegTypes, BoardTypes
<1>6. ASSUME NEW k \in Keys, EditKey(k) PROVE WritesAreFresh'
  BY <1>6, CoordinatorConstants DEF EditKey, regVars, WritesAreFresh, Fresh, IInv,
     TypeOK, RegTypes, BoardTypes
<1>7. ASSUME UNCHANGED <<joined, writes, writing, disk, oplog>> PROVE WritesAreFresh'
  BY <1>7 DEF IInv, WritesAreFresh, Fresh
<1>8. ASSUME NEW a \in Agents, Spawn(a) \/ WriteOwnError(a) \/ Exit(a) \/
      AnnounceExit(a) \/ Evict(a) \/ Teardown(a) \/ Kill(a) \/
      FinishRetire(a) PROVE UNCHANGED <<joined, writes, writing, disk, oplog>>
  BY <1>8 DEF Spawn, WriteOwnError, Exit, AnnounceExit, Evict, Teardown,
     Kill, FinishRetire, boardVars, regVars
<1>9. ASSUME NEW a \in Agents, NEW n \in 1 .. MaxWrites, GraceOver(a, n) \/
      GatePasses(a, n) \/ GateFails(a, n) \/ Reap(a, n) \/ ReapGone(a, n) PROVE
      UNCHANGED <<joined, writes, writing, disk, oplog>>
  BY <1>9 DEF GraceOver, GatePasses, GateFails, Reap, ReapGone, regVars, boardVars
<1>10. ASSUME HandleBlackboard \/ HandleExit \/ WriteFallback \/ FallbackFails \/
      HandleOther \/ ReconcileAfterLag \/ Noise PROVE UNCHANGED <<joined, writes,
      writing, disk, oplog>>
  BY <1>10 DEF HandleBlackboard, HandleExit, WriteFallback, FallbackFails,
     HandleOther, ReconcileAfterLag, Noise, regVars, boardVars
<1>11. CASE UNCHANGED vars
  BY <1>11, <1>7 DEF vars, regVars, boardVars
<1>12. QED
  BY <1>1, <1>2, <1>3, <1>4, <1>5, <1>6, <1>7, <1>8, <1>9, <1>10, <1>11 DEF Next,
     Agent, Retirement, AutoKill, Loop, vars

\* An exit key stays only with a producer that nobody reported.
LEMMA KeysAreOpenStep == ASSUME IInv, [Next]_vars PROVE KeysAreOpen'
<1>1. ASSUME NEW a \in Agents, Register(a) PROVE KeysAreOpen'
  <2>1. failures[a] = 0 /\ fallback # a
    BY <1>1 DEF Register, IInv, FailedHasNoTry, TypeOK, BoardTypes
  <2>2. /\ \A b \in Agents : exitKeys'[b] = IF b = a THEN Signal[a] # NoKey ELSE exitKeys[b]
        /\ \A b \in Agents : joined'[b] = IF b = a THEN TRUE ELSE joined[b]
        /\ failures' = failures /\ fallback' = fallback
    BY <1>1 DEF Register, boardVars, loopVars, IInv, TypeOK, RegTypes
  <2>3. QED
    BY <2>1, <2>2, CoordinatorConstants DEF IInv, KeysAreOpen
<1>2. ASSUME NEW a \in Agents, FinishRetire(a) PROVE KeysAreOpen'
  BY <1>2, CoordinatorConstants DEF FinishRetire, boardVars, loopVars, KeysAreOpen,
     FailedHasNoTry, IInv, TypeOK, RegTypes, BoardTypes, LoopTypes
<1>3. ASSUME HandleExit PROVE KeysAreOpen'
  <2>1. /\ Head(bus) \in OnBus
        /\ Head(bus).kind = "exit"
    BY <1>3, ReceiveBus DEF HandleExit, IInv, TypeOK
  <2>2. Head(bus).agent \in Agents
    BY <2>1 DEF IInv, EventsAreTrue
  <2>3. ASSUME NEW b \in Agents, exitKeys'[b]
        PROVE  joined'[b] /\ Signal[b] \in Keys /\ failures'[b] = 0 /\ fallback' # b
    BY <1>3, <2>2, <2>3, CoordinatorConstants DEF HandleExit, UnregisterExitKey, boardVars,
       IInv, KeysAreOpen, TypeOK, RegTypes
  <2>4. QED
    BY <2>3 DEF KeysAreOpen
<1>4. ASSUME WriteFallback PROVE KeysAreOpen'
  BY <1>4, CoordinatorConstants DEF WriteFallback, regVars, KeysAreOpen,
     FailedHasNoTry, IInv, TypeOK, RegTypes, BoardTypes, LoopTypes
<1>5. ASSUME FallbackFails PROVE KeysAreOpen'
  BY <1>5, CoordinatorConstants DEF FallbackFails, regVars, boardVars, KeysAreOpen,
     FailedHasNoTry, IInv, TypeOK, RegTypes, BoardTypes, LoopTypes
<1>6. ASSUME UNCHANGED <<joined, exitKeys, failures, fallback>> PROVE KeysAreOpen'
  BY <1>6 DEF IInv, KeysAreOpen
<1>7. ASSUME NEW a \in Agents, Spawn(a) \/ WriteSignal(a) \/ Broadcast(a) \/
      DropRequest(a) \/ WriteOwnError(a) \/ Exit(a) \/ AnnounceExit(a)
      \/ Evict(a) \/ Teardown(a) \/ Kill(a) PROVE UNCHANGED <<joined, exitKeys,
      failures, fallback>>
  BY <1>7 DEF Spawn, WriteSignal, Broadcast, DropRequest, WriteOwnError, Exit,
     AnnounceExit, Evict, Teardown, Kill, boardVars, loopVars, regVars
<1>8. ASSUME NEW a \in Agents, NEW n \in 1 .. MaxWrites, GraceOver(a, n) \/
      GatePasses(a, n) \/ GateFails(a, n) \/ Reap(a, n) \/ ReapGone(a, n) PROVE
      UNCHANGED <<joined, exitKeys, failures, fallback>>
  BY <1>8 DEF GraceOver, GatePasses, GateFails, Reap, ReapGone, regVars, boardVars
<1>9. ASSUME NEW k \in Keys, DeleteKey(k) \/ EditKey(k) PROVE UNCHANGED <<joined,
      exitKeys, failures, fallback>>
  BY <1>9 DEF DeleteKey, EditKey, regVars, loopVars
<1>10. ASSUME HandleBlackboard \/ HandleOther \/ ReconcileAfterLag \/ Noise PROVE
      UNCHANGED <<joined, exitKeys, failures, fallback>>
  BY <1>10 DEF HandleBlackboard, HandleOther, ReconcileAfterLag, Noise, regVars,
     boardVars, loopVars
<1>11. CASE UNCHANGED vars
  BY <1>11, <1>6 DEF vars, regVars, boardVars, loopVars
<1>12. QED
  BY <1>1, <1>2, <1>3, <1>4, <1>5, <1>6, <1>7, <1>8, <1>9, <1>10, <1>11 DEF Next,
     Agent, Retirement, AutoKill, Loop, vars

\* A reported producer never has an auto-kill task.
LEMMA FailedHasNoTryStep == ASSUME IInv, [Next]_vars PROVE FailedHasNoTry'
<1>1. ASSUME NEW a \in Agents, Register(a) PROVE FailedHasNoTry'
  BY <1>1 DEF Register, boardVars, loopVars, IInv, FailedHasNoTry, TypeOK, RegTypes
<1>2. ASSUME NEW a \in Agents, NEW n \in 1 .. MaxWrites, GraceOver(a, n) PROVE
      FailedHasNoTry'
  BY <1>2 DEF GraceOver, Stage, regVars, boardVars, IInv, FailedHasNoTry, TypeOK, LoopTypes
<1>3. ASSUME NEW a \in Agents, NEW n \in 1 .. MaxWrites, GatePasses(a, n) PROVE
      FailedHasNoTry'
  BY <1>3 DEF GatePasses, Stage, regVars, boardVars, IInv, FailedHasNoTry, TypeOK, LoopTypes
<1>4. ASSUME NEW a \in Agents, NEW n \in 1 .. MaxWrites, GateFails(a, n) PROVE
      FailedHasNoTry'
  BY <1>4 DEF GateFails, Stage, regVars, boardVars, IInv, FailedHasNoTry, TypeOK, LoopTypes
<1>5. ASSUME NEW a \in Agents, NEW n \in 1 .. MaxWrites, Reap(a, n) PROVE
      FailedHasNoTry'
  BY <1>5 DEF Reap, Stage, regVars, boardVars, IInv, FailedHasNoTry, TypeOK, LoopTypes
<1>6. ASSUME NEW a \in Agents, NEW n \in 1 .. MaxWrites, ReapGone(a, n) PROVE
      FailedHasNoTry'
  BY <1>6 DEF ReapGone, Stage, regVars, boardVars, IInv, FailedHasNoTry, TypeOK, LoopTypes
<1>7. ASSUME HandleBlackboard PROVE FailedHasNoTry'
  <2>1. UNCHANGED <<joined, failures, fallback, exitKeys>>
    BY <1>7 DEF HandleBlackboard, Receive, regVars, boardVars
  <2>2. \A a \in Agents : ~exitKeys[a] => try'[a] = try[a]
    BY <1>7 DEF HandleBlackboard, SelectAutoKill, IInv, TypeOK, LoopTypes
  <2>3. \A a \in Agents : failures[a] > 0 \/ fallback = a => ~exitKeys[a]
    BY DEF IInv, KeysAreOpen
  <2>4. QED
    BY <2>1, <2>2, <2>3 DEF IInv, FailedHasNoTry
<1>8. ASSUME HandleExit PROVE FailedHasNoTry'
  BY <1>8, CoordinatorConstants DEF HandleExit, boardVars, FailedHasNoTry,
     KeysAreOpen, TriesAreEarned, WritesAreFresh, IInv, TypeOK, RegTypes,
     BoardTypes, LoopTypes
<1>9. ASSUME WriteFallback PROVE FailedHasNoTry'
  BY <1>9, CoordinatorConstants DEF WriteFallback, regVars, IInv, FailedHasNoTry, TypeOK,
     BoardTypes, LoopTypes
<1>10. ASSUME FallbackFails PROVE FailedHasNoTry'
  BY <1>10, CoordinatorConstants DEF FallbackFails, regVars, boardVars, IInv, FailedHasNoTry
<1>11. ASSUME UNCHANGED <<joined, failures, fallback, try>> PROVE FailedHasNoTry'
  BY <1>11 DEF IInv, FailedHasNoTry
<1>12. ASSUME NEW a \in Agents, Spawn(a) \/ WriteSignal(a) \/ Broadcast(a) \/
      DropRequest(a) \/ WriteOwnError(a) \/ Exit(a) \/ AnnounceExit(a)
      \/ Evict(a) \/ Teardown(a) \/ Kill(a) \/ FinishRetire(a) PROVE UNCHANGED <<joined,
      failures, fallback, try>>
  BY <1>12 DEF Spawn, WriteSignal, Broadcast, DropRequest, WriteOwnError, Exit,
     AnnounceExit, Evict, Teardown, Kill, FinishRetire, boardVars,
     loopVars, regVars
<1>13. ASSUME NEW k \in Keys, DeleteKey(k) \/ EditKey(k) PROVE UNCHANGED <<joined,
      failures, fallback, try>>
  BY <1>13 DEF DeleteKey, EditKey, regVars, loopVars
<1>14. ASSUME HandleOther \/ ReconcileAfterLag \/ Noise PROVE UNCHANGED <<joined,
      failures, fallback, try>>
  BY <1>14 DEF HandleOther, ReconcileAfterLag, Noise, regVars, boardVars, loopVars
<1>15. CASE UNCHANGED vars
  BY <1>15, <1>11 DEF vars, regVars, boardVars, loopVars
<1>16. QED
  BY <1>1, <1>2, <1>3, <1>4, <1>5, <1>6, <1>7, <1>8, <1>9, <1>10, <1>11, <1>12,
     <1>13, <1>14, <1>15 DEF Next, Agent, Retirement, AutoKill, Loop, vars

-----------------------------------------------------------------------------
(* What holds whatever may fail.                                           *)

\* It holds initially.
LEMMA InitInv == Init => IInv
<1> SUFFICES ASSUME Init PROVE IInv
  OBVIOUS
<1>1. bus = <<>> /\ OnBus = {}
  BY DEF Init, OnBus
<1>2. BusTypes
  <2>1. bus \in Seq(Events) /\ Len(bus) = 0
    BY <1>1
  <2>2. BusCap \in Nat /\ lagged \in BOOLEAN
    BY CoordinatorConstants DEF Init
  <2>3. QED
    BY <2>1, <2>2 DEF BusTypes
<1>3. AgentTypes /\ RegTypes /\ BoardTypes /\ LoopTypes
  BY CoordinatorConstants DEF Init, AgentTypes, RegTypes, BoardTypes, LoopTypes,
     RetireStages, TryStages
<1>4. EventsAreTrue
  BY <1>1 DEF EventsAreTrue
<1>5. Started /\ TriesAreEarned /\ OneKiller /\ WritesAreFresh
  BY CoordinatorConstants DEF Init, Started, TriesAreEarned, OneKiller, WritesAreFresh
<1>6. KeysAreOpen /\ FailedHasNoTry
  BY CoordinatorConstants DEF Init, KeysAreOpen, FailedHasNoTry
<1>7. QED
  BY <1>2, <1>3, <1>4, <1>5, <1>6 DEF IInv, TypeOK

\* No step ends it.
LEMMA NextInv == IInv /\ [Next]_vars => IInv'
<1> SUFFICES ASSUME IInv, [Next]_vars PROVE IInv'
  OBVIOUS
<1>1. TypeOK'
  BY AgentTypesStep, RegTypesStep, BoardTypesStep, BusTypesStep, LoopTypesStep
     DEF IInv, TypeOK
<1>2. QED
  BY <1>1, StartedStep, EventsAreTrueStep, TriesAreEarnedStep, OneKillerStep,
     WritesAreFreshStep, KeysAreOpenStep, FailedHasNoTryStep DEF IInv

\* The invariant holds in every reachable state.
THEOREM Invariant == Spec => []IInv
  BY InitInv, NextInv, PTL DEF Spec

\* Every variable keeps its type, and the ring its capacity.
THEOREM TypeCorrect == Spec => []TypeOK
<1>1. IInv => TypeOK
  BY DEF IInv
<1>2. QED
  BY Invariant, <1>1, PTL

\* A worker is auto-killed once, for a handoff it wrote itself, and is never
\* reported failed: shared signals, deletions, edits, health banners and drops of
\* the bus included.
THEOREM AutoKillCorrect == Spec => []AutoKillIsEarned
<1>1. ASSUME IInv PROVE AutoKillIsEarned
  <2>1. ASSUME NEW a \in Agents, NEW n \in 1 .. MaxWrites, try[a][n] = "killer"
        PROVE  /\ n <= writes[a]
               /\ failures[a] = 0
               /\ \A m \in 1 .. MaxWrites : try[a][m] = "killer" => m = n
    BY <1>1, <2>1 DEF IInv, TypeOK, BoardTypes, TriesAreEarned, OneKiller, FailedHasNoTry
  <2>2. QED
    BY <2>1 DEF AutoKillIsEarned
<1>2. QED
  BY Invariant, <1>1, PTL

-----------------------------------------------------------------------------
(* What holds when only dead agents are announced.                         *)

\* An exit event on the bus is, and stays, true.
LEMMA ExitsAreDeathsStep ==
    ASSUME ErrorsAreDeaths, DInv, [Next]_vars
    PROVE  ExitsAreDeaths'
<1>1. ASSUME NEW a \in Agents, Spawn(a) PROVE ExitsAreDeaths'
  <2>1. OnBus' = OnBus
    BY <1>1 DEF Spawn, busVars, OnBus
  <2>2. \A b \in Agents : proc[b] = "dead" => proc'[b] = "dead"
    BY <1>1 DEF Spawn, Die, DInv, IInv, TypeOK, AgentTypes
  <2>3. QED
    BY <2>1, <2>2 DEF DInv, IInv, ExitsAreDeaths, EventsAreTrue
<1>2. ASSUME NEW a \in Agents, Broadcast(a) PROVE ExitsAreDeaths'
  <2>1. Event("write", Signal[a], a, writes[a]) \in Events
    BY <1>2, CoordinatorConstants DEF Event, Events, DInv, IInv, TypeOK, BoardTypes
  <2>2. /\ OnBus' \subseteq OnBus \cup {Event("write", Signal[a], a, writes[a])}
        /\ proc' = proc
    BY <1>2, <2>1, PublishBus DEF Broadcast, DInv, IInv, TypeOK, agentVars
  <2>3. QED
    BY <1>2, <2>2 DEF Event, DInv, ExitsAreDeaths
<1>3. ASSUME NEW a \in Agents, WriteOwnError(a) PROVE ExitsAreDeaths'
  <2>1. Event("error", Signal[a], a, 0) \in Events
    BY <1>3, CoordinatorConstants DEF Event, Events
  <2>2. /\ OnBus' \subseteq OnBus \cup {Event("error", Signal[a], a, 0)}
        /\ proc' = proc
    BY <1>3, <2>1, PublishBus DEF WriteOwnError, DInv, IInv, TypeOK, agentVars
  <2>3. QED
    BY <1>3, <2>2 DEF Event, DInv, ExitsAreDeaths
<1>4. ASSUME NEW a \in Agents, Exit(a) PROVE ExitsAreDeaths'
  <2>1. OnBus' = OnBus
    BY <1>4 DEF Exit, busVars, OnBus
  <2>2. \A b \in Agents : proc[b] = "dead" => proc'[b] = "dead"
    BY <1>4 DEF Exit, Die, DInv, IInv, TypeOK, AgentTypes
  <2>3. QED
    BY <2>1, <2>2 DEF DInv, IInv, ExitsAreDeaths, EventsAreTrue
<1>5. ASSUME NEW a \in Agents, AnnounceExit(a) PROVE ExitsAreDeaths'
  <2>1. Event("exit", NoKey, a, 0) \in Events
    BY <1>5, CoordinatorConstants DEF Event, Events
  <2>2. /\ OnBus' \subseteq OnBus \cup {Event("exit", NoKey, a, 0)}
        /\ proc' = proc
    BY <1>5, <2>1, PublishBus DEF AnnounceExit, DInv, IInv, TypeOK
  <2>3. QED
    BY <1>5, <2>2 DEF Event, DInv, ExitsAreDeaths, AnnounceExit, SeemsDead, ErrorsAreDeaths
<1>6. ASSUME NEW a \in Agents, Kill(a) PROVE ExitsAreDeaths'
  <2>1. OnBus' = OnBus
    BY <1>6 DEF Kill, busVars, OnBus
  <2>2. \A b \in Agents : proc[b] = "dead" => proc'[b] = "dead"
    BY <1>6 DEF Kill, Die, DInv, IInv, TypeOK, AgentTypes
  <2>3. QED
    BY <2>1, <2>2 DEF DInv, IInv, ExitsAreDeaths, EventsAreTrue
<1>7. ASSUME NEW a \in Agents, FinishRetire(a) PROVE ExitsAreDeaths'
  <2>1. Event("exit", NoKey, a, 0) \in Events
    BY <1>7, CoordinatorConstants DEF Event, Events
  <2>2. /\ OnBus' \subseteq OnBus \cup {Event("exit", NoKey, a, 0)}
        /\ proc' = proc
    BY <1>7, <2>1, PublishBus DEF FinishRetire, DInv, IInv, TypeOK
  <2>3. QED
    BY <1>7, <2>2 DEF Event, DInv, ExitsAreDeaths, FinishRetire, RetiredAreDead
<1>8. ASSUME NEW k \in Keys, DeleteKey(k) PROVE ExitsAreDeaths'
  <2>1. Event("write", k, NoAgent, 0) \in Events
    BY <1>8, CoordinatorConstants DEF Event, Events
  <2>2. /\ OnBus' \subseteq OnBus \cup {Event("write", k, NoAgent, 0)}
        /\ proc' = proc
    BY <1>8, <2>1, PublishBus DEF DeleteKey, DInv, IInv, TypeOK, agentVars
  <2>3. QED
    BY <1>8, <2>2 DEF Event, DInv, ExitsAreDeaths
<1>9. ASSUME NEW k \in Keys, EditKey(k) PROVE ExitsAreDeaths'
  <2>1. Event("write", k, NoAgent, 0) \in Events
    BY <1>9, CoordinatorConstants DEF Event, Events
  <2>2. /\ OnBus' \subseteq OnBus \cup {Event("write", k, NoAgent, 0)}
        /\ proc' = proc
    BY <1>9, <2>1, PublishBus DEF EditKey, DInv, IInv, TypeOK, agentVars
  <2>3. QED
    BY <1>9, <2>2 DEF Event, DInv, ExitsAreDeaths
<1>10. ASSUME HandleBlackboard PROVE ExitsAreDeaths'
  <2>1. OnBus' \subseteq OnBus /\ proc' = proc
    BY <1>10, ReceiveBus DEF HandleBlackboard, DInv, IInv, TypeOK, agentVars
  <2>2. QED
    BY <2>1 DEF DInv, ExitsAreDeaths
<1>11. ASSUME HandleExit PROVE ExitsAreDeaths'
  <2>1. OnBus' \subseteq OnBus /\ proc' = proc
    BY <1>11, ReceiveBus DEF HandleExit, DInv, IInv, TypeOK, agentVars
  <2>2. QED
    BY <2>1 DEF DInv, ExitsAreDeaths
<1>12. ASSUME WriteFallback PROVE ExitsAreDeaths'
  <2>1. Event("error", Signal[fallback], NoAgent, 0) \in Events
    BY <1>12, CoordinatorConstants DEF Event, Events, WriteFallback, DInv, IInv,
       TypeOK, LoopTypes
  <2>2. /\ OnBus' \subseteq OnBus \cup {Event("error", Signal[fallback], NoAgent, 0)}
        /\ proc' = proc
    BY <1>12, <2>1, PublishBus DEF WriteFallback, DInv, IInv, TypeOK, agentVars
  <2>3. QED
    BY <1>12, <2>2 DEF Event, DInv, ExitsAreDeaths
<1>13. ASSUME HandleOther PROVE ExitsAreDeaths'
  <2>1. OnBus' \subseteq OnBus /\ proc' = proc
    BY <1>13, ReceiveBus DEF HandleOther, DInv, IInv, TypeOK, agentVars
  <2>2. QED
    BY <2>1 DEF DInv, ExitsAreDeaths
<1>14. ASSUME Noise PROVE ExitsAreDeaths'
  <2>1. Event("other", NoKey, NoAgent, 0) \in Events
    BY <1>14, CoordinatorConstants DEF Event, Events
  <2>2. /\ OnBus' \subseteq OnBus \cup {Event("other", NoKey, NoAgent, 0)}
        /\ proc' = proc
    BY <1>14, <2>1, PublishBus DEF Noise, DInv, IInv, TypeOK, agentVars
  <2>3. QED
    BY <1>14, <2>2 DEF Event, DInv, ExitsAreDeaths
<1>15. ASSUME UNCHANGED <<proc, bus>> PROVE ExitsAreDeaths'
  BY <1>15 DEF DInv, ExitsAreDeaths, OnBus
<1>16. ASSUME NEW a \in Agents, Register(a) \/ WriteSignal(a) \/ DropRequest(a) \/
      Evict(a) \/ Teardown(a) PROVE UNCHANGED <<proc, bus>>
  BY <1>16 DEF Register, WriteSignal, DropRequest, Evict, Teardown, agentVars,
     busVars
<1>17. ASSUME NEW a \in Agents, NEW n \in 1 .. MaxWrites, GraceOver(a, n) \/
      GatePasses(a, n) \/ GateFails(a, n) \/ Reap(a, n) \/ ReapGone(a, n) PROVE
      UNCHANGED <<proc, bus>>
  BY <1>17 DEF GraceOver, GatePasses, GateFails, Reap, ReapGone, agentVars, busVars
<1>18. ASSUME FallbackFails \/ ReconcileAfterLag PROVE UNCHANGED <<proc, bus>>
  BY <1>18 DEF FallbackFails, ReconcileAfterLag, agentVars, busVars
<1>19. CASE UNCHANGED vars
  BY <1>19, <1>15 DEF vars, agentVars, busVars
<1>20. QED
  BY <1>1, <1>2, <1>3, <1>4, <1>5, <1>6, <1>7, <1>8, <1>9, <1>10, <1>11,
     <1>12, <1>13, <1>14, <1>15, <1>16, <1>17, <1>18, <1>19 DEF Next, Agent,
     Retirement, AutoKill, Loop, vars

\* Whoever was killed stays dead.
LEMMA RetiredAreDeadStep ==
    ASSUME ErrorsAreDeaths, DInv, [Next]_vars
    PROVE  RetiredAreDead'
<1>1. ASSUME NEW a \in Agents, Spawn(a) PROVE RetiredAreDead'
  BY <1>1 DEF Spawn, DInv, RetiredAreDead, Started, IInv, TypeOK, AgentTypes,
     RetireStages
<1>2. ASSUME NEW a \in Agents, Exit(a) PROVE RetiredAreDead'
  BY <1>2 DEF Exit, Die, DInv, RetiredAreDead, Started, IInv, TypeOK, AgentTypes,
     RetireStages
<1>3. ASSUME NEW a \in Agents, Teardown(a) PROVE RetiredAreDead'
  BY <1>3 DEF Teardown, DInv, RetiredAreDead, Started, IInv, TypeOK, AgentTypes,
     RetireStages
<1>4. ASSUME NEW a \in Agents, Kill(a) PROVE RetiredAreDead'
  BY <1>4 DEF Kill, Die, DInv, RetiredAreDead, Started, IInv, TypeOK, AgentTypes,
     RetireStages
<1>5. ASSUME NEW a \in Agents, FinishRetire(a) PROVE RetiredAreDead'
  BY <1>5 DEF FinishRetire, DInv, RetiredAreDead, Started, IInv, TypeOK, AgentTypes,
     RetireStages
<1>6. ASSUME NEW a \in Agents, NEW n \in 1 .. MaxWrites, Reap(a, n) PROVE
      RetiredAreDead'
  BY <1>6 DEF Reap, DInv, RetiredAreDead, Started, IInv, TypeOK, AgentTypes,
     RetireStages
<1>7. ASSUME UNCHANGED <<proc, retire>> PROVE RetiredAreDead'
  BY <1>7 DEF DInv, RetiredAreDead
<1>8. ASSUME NEW a \in Agents, Register(a) \/ WriteSignal(a) \/ Broadcast(a) \/
      DropRequest(a) \/ WriteOwnError(a) \/ AnnounceExit(a) \/ Evict(a)
      PROVE UNCHANGED <<proc, retire>>
  BY <1>8 DEF Register, WriteSignal, Broadcast, DropRequest, WriteOwnError,
     AnnounceExit, Evict, agentVars
<1>9. ASSUME NEW a \in Agents, NEW n \in 1 .. MaxWrites, GraceOver(a, n) \/
      GatePasses(a, n) \/ GateFails(a, n) \/ ReapGone(a, n) PROVE UNCHANGED <<proc,
      retire>>
  BY <1>9 DEF GraceOver, GatePasses, GateFails, ReapGone, agentVars
<1>10. ASSUME NEW k \in Keys, DeleteKey(k) \/ EditKey(k) PROVE UNCHANGED <<proc,
      retire>>
  BY <1>10 DEF DeleteKey, EditKey, agentVars
<1>11. ASSUME HandleBlackboard \/ HandleExit \/ WriteFallback \/ FallbackFails \/
      HandleOther \/ ReconcileAfterLag \/ Noise PROVE UNCHANGED <<proc, retire>>
  BY <1>11 DEF HandleBlackboard, HandleExit, WriteFallback, FallbackFails,
     HandleOther, ReconcileAfterLag, Noise, agentVars
<1>12. CASE UNCHANGED vars
  BY <1>12, <1>7 DEF vars, agentVars
<1>13. QED
  BY <1>1, <1>2, <1>3, <1>4, <1>5, <1>6, <1>7, <1>8, <1>9, <1>10, <1>11, <1>12 DEF
     Next, Agent, Retirement, AutoKill, Loop, vars

\* A producer is reported once, and neither writes nor runs again.
LEMMA FailedAreDeadStep ==
    ASSUME ErrorsAreDeaths, DInv, [Next]_vars
    PROVE  FailedAreDead'
<1>1. ASSUME NEW a \in Agents, Spawn(a) PROVE FailedAreDead'
  BY <1>1, CoordinatorConstants DEF Spawn, boardVars, loopVars, DInv, FailedAreDead,
     WritesAreFresh, KeysAreOpen, IInv, TypeOK, AgentTypes, BoardTypes, LoopTypes
<1>2. ASSUME NEW a \in Agents, WriteSignal(a) PROVE FailedAreDead'
  BY <1>2, CoordinatorConstants DEF WriteSignal, agentVars, DInv, FailedAreDead,
     WritesAreFresh, KeysAreOpen, IInv, TypeOK, AgentTypes, BoardTypes, LoopTypes
<1>3. ASSUME NEW a \in Agents, Exit(a) PROVE FailedAreDead'
  BY <1>3, CoordinatorConstants DEF Exit, Die, boardVars, DInv, FailedAreDead,
     WritesAreFresh, KeysAreOpen, IInv, TypeOK, AgentTypes, BoardTypes, LoopTypes
<1>4. ASSUME NEW a \in Agents, Kill(a) PROVE FailedAreDead'
  BY <1>4, CoordinatorConstants DEF Kill, Die, boardVars, DInv, FailedAreDead,
     WritesAreFresh, KeysAreOpen, IInv, TypeOK, AgentTypes, BoardTypes, LoopTypes
<1>5. ASSUME HandleExit PROVE FailedAreDead'
  <2>1. /\ Head(bus) \in OnBus
        /\ Head(bus).kind = "exit"
    BY <1>5, ReceiveBus DEF HandleExit, DInv, IInv, TypeOK
  <2>2. Head(bus).agent \in Agents /\ proc[Head(bus).agent] = "dead"
    BY <2>1 DEF DInv, IInv, EventsAreTrue, ExitsAreDeaths
  <2>3. /\ proc' = proc /\ writes' = writes /\ failures' = failures
        /\ fallback' = fallback \/ fallback' = NoAgent \/ fallback' = Head(bus).agent
        /\ fallback' = Head(bus).agent /\ fallback' # fallback =>
             exitKeys[fallback'] /\ ~Fresh(fallback')
    BY <1>5, <2>2, CoordinatorConstants DEF HandleExit, Receive, agentVars, boardVars
  <2>4. ASSUME NEW b \in Agents
        PROVE  /\ failures'[b] > 0 \/ fallback' = b => proc'[b] = "dead" /\ writes'[b] = 0
               /\ failures'[b] <= 1
               /\ fallback' = b => failures'[b] = 0
    <3>1. CASE fallback' = b /\ fallback' # fallback
      <4>1. exitKeys[b] /\ ~Fresh(b) /\ proc[b] = "dead"
        BY <2>2, <2>3, <3>1, CoordinatorConstants
      <4>2. writes[b] = 0 /\ failures[b] = 0
        BY <4>1, CoordinatorConstants DEF DInv, IInv, WritesAreFresh, KeysAreOpen, TypeOK,
           BoardTypes
      <4>3. QED
        BY <2>3, <4>1, <4>2
    <3>2. CASE ~(fallback' = b /\ fallback' # fallback)
      BY <2>3, <3>2 DEF DInv, FailedAreDead
    <3>3. QED
      BY <3>1, <3>2
  <2>5. QED
    BY <2>4 DEF FailedAreDead
<1>6. ASSUME WriteFallback PROVE FailedAreDead'
  BY <1>6, CoordinatorConstants DEF WriteFallback, agentVars, DInv, FailedAreDead,
     WritesAreFresh, KeysAreOpen, IInv, TypeOK, AgentTypes, BoardTypes, LoopTypes
<1>7. ASSUME FallbackFails PROVE FailedAreDead'
  BY <1>7, CoordinatorConstants DEF FallbackFails, agentVars, boardVars, DInv,
     FailedAreDead, WritesAreFresh, KeysAreOpen, IInv, TypeOK, AgentTypes,
     BoardTypes, LoopTypes
<1>8. ASSUME UNCHANGED <<proc, writes, failures, fallback>> PROVE FailedAreDead'
  BY <1>8 DEF DInv, FailedAreDead
<1>9. ASSUME NEW a \in Agents, Register(a) \/ Broadcast(a) \/ DropRequest(a) \/
      WriteOwnError(a) \/ AnnounceExit(a) \/ Evict(a) \/ Teardown(a) \/
      FinishRetire(a) PROVE UNCHANGED <<proc, writes, failures, fallback>>
  BY <1>9 DEF Register, Broadcast, DropRequest, WriteOwnError, AnnounceExit,
     Evict, Teardown, FinishRetire, agentVars, boardVars, loopVars
<1>10. ASSUME NEW a \in Agents, NEW n \in 1 .. MaxWrites, GraceOver(a, n) \/
      GatePasses(a, n) \/ GateFails(a, n) \/ Reap(a, n) \/ ReapGone(a, n) PROVE
      UNCHANGED <<proc, writes, failures, fallback>>
  BY <1>10 DEF GraceOver, GatePasses, GateFails, Reap, ReapGone, agentVars,
     boardVars
<1>11. ASSUME NEW k \in Keys, DeleteKey(k) \/ EditKey(k) PROVE UNCHANGED <<proc, writes,
      failures, fallback>>
  BY <1>11 DEF DeleteKey, EditKey, agentVars, loopVars
<1>12. ASSUME HandleBlackboard \/ HandleOther \/ ReconcileAfterLag \/ Noise PROVE
      UNCHANGED <<proc, writes, failures, fallback>>
  BY <1>12 DEF HandleBlackboard, HandleOther, ReconcileAfterLag, Noise, agentVars,
     boardVars, loopVars
<1>13. CASE UNCHANGED vars
  BY <1>13, <1>8 DEF vars, agentVars, boardVars, loopVars
<1>14. QED
  BY <1>1, <1>2, <1>3, <1>4, <1>5, <1>6, <1>7, <1>8, <1>9, <1>10, <1>11, <1>12,
     <1>13 DEF Next, Agent, Retirement, AutoKill, Loop, vars

\* Together they are invariant when Error is only published for dead agents.
LEMMA DeathInv == ErrorsAreDeaths => (Spec => []DInv)
<1> SUFFICES ASSUME ErrorsAreDeaths PROVE Spec => []DInv
  OBVIOUS
<1>1. Init => DInv
  <2>1. Init => OnBus = {}
    BY DEF Init, OnBus
  <2>2. QED
    BY <2>1, InitInv, CoordinatorConstants DEF Init, DInv, ExitsAreDeaths, RetiredAreDead,
       FailedAreDead
<1>2. DInv /\ [Next]_vars => DInv'
  BY NextInv, ExitsAreDeathsStep, RetiredAreDeadStep, FailedAreDeadStep DEF DInv
<1>3. QED
  BY <1>1, <1>2, PTL DEF Spec

\* As long as Error is only published for dead agents, a producer is reported failed
\* at most once and only if it did not deliver: a lost op row, a dropped event or
\* request, a deleted key and a sibling's write included.
THEOREM DeliveredIsFinal == ErrorsAreDeaths => (Spec => []DeliveredNotFailed)
<1> SUFFICES ASSUME ErrorsAreDeaths PROVE Spec => []DeliveredNotFailed
  OBVIOUS
<1>1. ASSUME DInv PROVE DeliveredNotFailed
  <2>1. ASSUME NEW a \in Agents
        PROVE  failures[a] <= 1 /\ (writes[a] > 0 => failures[a] = 0)
    <3>1. /\ failures[a] \in Nat
          /\ failures[a] <= 1
          /\ failures[a] > 0 => writes[a] = 0
      BY <1>1 DEF DInv, IInv, TypeOK, BoardTypes, FailedAreDead
    <3>2. QED
      BY <3>1
  <2>2. QED
    BY <2>1 DEF DeliveredNotFailed
<1>2. QED
  BY DeathInv, <1>1, PTL

\* Under the same assumption a producer reported failed is dead.
THEOREM FailedIsFinal == ErrorsAreDeaths => (Spec => []FailedIsDead)
<1> SUFFICES ASSUME ErrorsAreDeaths PROVE Spec => []FailedIsDead
  OBVIOUS
<1>1. DInv => FailedIsDead
  BY DEF DInv, FailedAreDead, FailedIsDead
<1>2. QED
  BY DeathInv, <1>1, PTL

-----------------------------------------------------------------------------
(* The Handoff contract.                                                   *)

\* Only the first write and the fallback change what dependents see.
LEMMA OutcomeStep ==
    ASSUME ErrorsAreDeaths, DInv, [Next]_vars
    PROVE  [Contract!Next]_(Contract!vars)
<1>1. ASSUME NEW a \in Agents, WriteSignal(a) PROVE [Contract!Next]_(Contract!vars)
  <2>1. /\ failures[a] = 0
        /\ failures' = failures
        /\ writes[a] \in Nat
        /\ writes' = [writes EXCEPT ![a] = writes[a] + 1]
    BY <1>1, CoordinatorConstants DEF WriteSignal, DInv, IInv, TypeOK, AgentTypes,
       BoardTypes, FailedAreDead
  <2>2. CASE writes[a] = 0
    <3>1. Outcome[a] = "pending"
      BY <2>1, <2>2 DEF Outcome
    <3>2. \A b \in Agents : writes'[b] = IF b = a THEN 1 ELSE writes[b]
      BY <2>1, <2>2 DEF DInv, IInv, TypeOK, BoardTypes
    <3>3. Outcome' = [b \in Agents |-> IF b = a THEN "delivered" ELSE Outcome[b]]
      BY <2>1, <3>2 DEF Outcome
    <3>4. Outcome' = [Outcome EXCEPT ![a] = "delivered"]
      BY <3>3 DEF Outcome
    <3>5. QED
      BY <3>1, <3>4 DEF Contract!Next, Contract!Deliver
  <2>3. CASE writes[a] > 0
    <3>1. \A b \in Agents : writes'[b] > 0 <=> writes[b] > 0
      BY <2>1, <2>3, CoordinatorConstants DEF DInv, IInv, TypeOK, BoardTypes
    <3>2. QED
      BY <2>1, <3>1 DEF Outcome, Contract!vars
  <2>4. QED
    BY <2>1, <2>2, <2>3
<1>2. ASSUME WriteFallback PROVE [Contract!Next]_(Contract!vars)
  <2>1. PICK a \in Agents : a = fallback
    BY <1>2 DEF WriteFallback, DInv, IInv, TypeOK, LoopTypes
  <2>2. /\ failures[a] = 0
        /\ writes[a] = 0
        /\ writes' = writes
        /\ failures' = [failures EXCEPT ![a] = 1]
    <3>1. failures[a] = 0 /\ writes[a] = 0
      BY <2>1 DEF DInv, FailedAreDead
    <3>2. writes' = writes /\ failures' = [failures EXCEPT ![a] = failures[a] + 1]
      BY <1>2, <2>1 DEF WriteFallback
    <3>3. QED
      BY <3>1, <3>2
  <2>3. Outcome[a] = "pending"
    BY <2>2 DEF Outcome
  <2>4. \A b \in Agents : failures'[b] = IF b = a THEN 1 ELSE failures[b]
    BY <2>2 DEF DInv, IInv, TypeOK, BoardTypes
  <2>5. Outcome' = [b \in Agents |-> IF b = a THEN "failed" ELSE Outcome[b]]
    BY <2>2, <2>4 DEF Outcome
  <2>6. Outcome' = [Outcome EXCEPT ![a] = "failed"]
    BY <2>5 DEF Outcome
  <2>7. QED
    BY <2>3, <2>6 DEF Contract!Next, Contract!Fail
<1>3. ASSUME UNCHANGED <<writes, failures>> PROVE [Contract!Next]_(Contract!vars)
  BY <1>3 DEF Outcome, Contract!vars
<1>4. ASSUME NEW a \in Agents, Spawn(a) \/ Register(a) \/ Broadcast(a) \/ DropRequest(a)
      \/ WriteOwnError(a) \/ Exit(a) \/ AnnounceExit(a) \/ Evict(a) \/
      Teardown(a) \/ Kill(a) \/ FinishRetire(a) PROVE UNCHANGED <<writes, failures>>
  BY <1>4 DEF Spawn, Register, Broadcast, DropRequest, WriteOwnError, Exit,
     AnnounceExit, Evict, Teardown, Kill, FinishRetire, boardVars
<1>5. ASSUME NEW a \in Agents, NEW n \in 1 .. MaxWrites, GraceOver(a, n) \/
      GatePasses(a, n) \/ GateFails(a, n) \/ Reap(a, n) \/ ReapGone(a, n) PROVE
      UNCHANGED <<writes, failures>>
  BY <1>5 DEF GraceOver, GatePasses, GateFails, Reap, ReapGone, boardVars
<1>6. ASSUME NEW k \in Keys, DeleteKey(k) \/ EditKey(k) PROVE UNCHANGED <<writes,
      failures>>
  BY <1>6 DEF DeleteKey, EditKey
<1>7. ASSUME HandleBlackboard \/ HandleExit \/ FallbackFails \/ HandleOther \/
      ReconcileAfterLag \/ Noise PROVE UNCHANGED <<writes, failures>>
  BY <1>7 DEF HandleBlackboard, HandleExit, FallbackFails, HandleOther,
     ReconcileAfterLag, Noise, boardVars
<1>8. CASE UNCHANGED vars
  BY <1>8, <1>3 DEF vars, boardVars
<1>9. QED
  BY <1>1, <1>2, <1>3, <1>4, <1>5, <1>6, <1>7, <1>8 DEF Next, Agent, Retirement,
     AutoKill, Loop, vars

\* As long as Error is only published for dead agents, what dependents see of a
\* producer is the Handoff contract: at most one of delivered and failed, for good.
THEOREM Refinement == ErrorsAreDeaths => (Spec => ImplementsHandoff)
<1> SUFFICES ASSUME ErrorsAreDeaths PROVE Spec => Contract!Spec
  BY DEF ImplementsHandoff
<1>1. Init => Contract!Init
  BY DEF Init, Contract!Init, Outcome
<1>2. DInv /\ [Next]_vars => [Contract!Next]_(Contract!vars)
  BY OutcomeStep
<1>3. QED
  BY <1>1, <1>2, DeathInv, PTL DEF Spec, Contract!Spec

-----------------------------------------------------------------------------
(* What holds when signals are private.                                    *)

\* A fresh key stays one its agent wrote.
LEMMA FreshAreWritersStep ==
    ASSUME SignalsArePrivate, WInv, [Next]_vars
    PROVE  FreshAreWriters'
<1>1. ASSUME NEW a \in Agents, WriteSignal(a) PROVE FreshAreWriters'
  BY <1>1, CoordinatorConstants DEF WriteSignal, WInv, FreshAreWriters, Fresh,
     WritesAreFresh, SignalsArePrivate, IInv, TypeOK, BoardTypes
<1>2. ASSUME NEW a \in Agents, Broadcast(a) PROVE FreshAreWriters'
  BY <1>2, CoordinatorConstants DEF Broadcast, WInv, FreshAreWriters, Fresh,
     WritesAreFresh, SignalsArePrivate, IInv, TypeOK, BoardTypes
<1>3. ASSUME NEW k \in Keys, DeleteKey(k) PROVE FreshAreWriters'
  BY <1>3, CoordinatorConstants DEF DeleteKey, WInv, FreshAreWriters, Fresh,
     WritesAreFresh, SignalsArePrivate, IInv, TypeOK, BoardTypes
<1>4. ASSUME NEW k \in Keys, EditKey(k) PROVE FreshAreWriters'
  BY <1>4, CoordinatorConstants DEF EditKey, WInv, FreshAreWriters, Fresh,
     WritesAreFresh, SignalsArePrivate, IInv, TypeOK, BoardTypes
<1>5. ASSUME UNCHANGED <<writes, disk, oplog>> PROVE FreshAreWriters'
  BY <1>5 DEF WInv, FreshAreWriters, Fresh
<1>6. ASSUME NEW a \in Agents, Spawn(a) \/ Register(a) \/ DropRequest(a) \/
      WriteOwnError(a) \/ Exit(a) \/ AnnounceExit(a) \/ Evict(a) \/
      Teardown(a) \/ Kill(a) \/ FinishRetire(a) PROVE UNCHANGED <<writes, disk, oplog>>
  BY <1>6 DEF Spawn, Register, DropRequest, WriteOwnError, Exit, AnnounceExit,
     Evict, Teardown, Kill, FinishRetire, boardVars
<1>7. ASSUME NEW a \in Agents, NEW n \in 1 .. MaxWrites, GraceOver(a, n) \/
      GatePasses(a, n) \/ GateFails(a, n) \/ Reap(a, n) \/ ReapGone(a, n) PROVE
      UNCHANGED <<writes, disk, oplog>>
  BY <1>7 DEF GraceOver, GatePasses, GateFails, Reap, ReapGone, boardVars
<1>8. ASSUME HandleBlackboard \/ HandleExit \/ WriteFallback \/ FallbackFails \/
      HandleOther \/ ReconcileAfterLag \/ Noise PROVE UNCHANGED <<writes, disk, oplog>>
  BY <1>8 DEF HandleBlackboard, HandleExit, WriteFallback, FallbackFails,
     HandleOther, ReconcileAfterLag, Noise, boardVars
<1>9. CASE UNCHANGED vars
  BY <1>9, <1>5 DEF vars, boardVars
<1>10. QED
  BY <1>1, <1>2, <1>3, <1>4, <1>5, <1>6, <1>7, <1>8, <1>9 DEF Next, Agent,
     Retirement, AutoKill, Loop, vars

\* An auto-kill stays one of a writer.
LEMMA AutoRetiredWroteStep ==
    ASSUME SignalsArePrivate, WInv, [Next]_vars
    PROVE  AutoRetiredWrote'
<1>1. ASSUME NEW a \in Agents, WriteSignal(a) PROVE AutoRetiredWrote'
  BY <1>1, CoordinatorConstants DEF WriteSignal, agentVars, WInv, AutoRetiredWrote,
     TriesAreEarned, IInv, TypeOK, AgentTypes, BoardTypes, LoopTypes
<1>2. ASSUME NEW a \in Agents, Teardown(a) PROVE AutoRetiredWrote'
  BY <1>2, CoordinatorConstants DEF Teardown, boardVars, WInv, AutoRetiredWrote,
     TriesAreEarned, IInv, TypeOK, AgentTypes, BoardTypes, LoopTypes
<1>3. ASSUME NEW a \in Agents, Kill(a) PROVE AutoRetiredWrote'
  BY <1>3, CoordinatorConstants DEF Kill, boardVars, WInv, AutoRetiredWrote,
     TriesAreEarned, IInv, TypeOK, AgentTypes, BoardTypes, LoopTypes
<1>4. ASSUME NEW a \in Agents, FinishRetire(a) PROVE AutoRetiredWrote'
  BY <1>4, CoordinatorConstants DEF FinishRetire, boardVars, WInv, AutoRetiredWrote,
     TriesAreEarned, IInv, TypeOK, AgentTypes, BoardTypes, LoopTypes
<1>5. ASSUME NEW a \in Agents, NEW n \in 1 .. MaxWrites, Reap(a, n) PROVE
      AutoRetiredWrote'
  <2>1. n <= writes[a] /\ writes[a] \in Nat
    BY <1>5, CoordinatorConstants DEF Reap, Stage, WInv, IInv, TriesAreEarned, TypeOK,
       BoardTypes
  <2>2. writes[a] > 0
    BY <2>1
  <2>3. \A b \in Agents : retire'[b] = IF b = a THEN "auto" ELSE retire[b]
    BY <1>5 DEF Reap, WInv, IInv, TypeOK, AgentTypes
  <2>4. QED
    BY <1>5, <2>2, <2>3 DEF Reap, boardVars, WInv, AutoRetiredWrote
<1>6. ASSUME UNCHANGED <<retire, writes>> PROVE AutoRetiredWrote'
  BY <1>6 DEF WInv, AutoRetiredWrote
<1>7. ASSUME NEW a \in Agents, Spawn(a) \/ Register(a) \/ Broadcast(a) \/ DropRequest(a)
      \/ WriteOwnError(a) \/ Exit(a) \/ AnnounceExit(a) \/ Evict(a)
      PROVE UNCHANGED <<retire, writes>>
  BY <1>7 DEF Spawn, Register, Broadcast, DropRequest, WriteOwnError, Exit,
     AnnounceExit, Evict, boardVars, agentVars
<1>8. ASSUME NEW a \in Agents, NEW n \in 1 .. MaxWrites, GraceOver(a, n) \/
      GatePasses(a, n) \/ GateFails(a, n) \/ ReapGone(a, n) PROVE UNCHANGED <<retire,
      writes>>
  BY <1>8 DEF GraceOver, GatePasses, GateFails, ReapGone, agentVars, boardVars
<1>9. ASSUME NEW k \in Keys, DeleteKey(k) \/ EditKey(k) PROVE UNCHANGED <<retire,
      writes>>
  BY <1>9 DEF DeleteKey, EditKey, agentVars
<1>10. ASSUME HandleBlackboard \/ HandleExit \/ WriteFallback \/ FallbackFails \/
      HandleOther \/ ReconcileAfterLag \/ Noise PROVE UNCHANGED <<retire, writes>>
  BY <1>10 DEF HandleBlackboard, HandleExit, WriteFallback, FallbackFails,
     HandleOther, ReconcileAfterLag, Noise, agentVars, boardVars
<1>11. CASE UNCHANGED vars
  BY <1>11, <1>6 DEF vars, agentVars, boardVars
<1>12. QED
  BY <1>1, <1>2, <1>3, <1>4, <1>5, <1>6, <1>7, <1>8, <1>9, <1>10, <1>11 DEF Next,
     Agent, Retirement, AutoKill, Loop, vars

\* No step forgets an exit key.
LEMMA NoSilentDeathStep ==
    ASSUME SignalsArePrivate, WInv, [Next]_vars
    PROVE  NoSilentDeath'
<1>1. ASSUME NEW a \in Agents, Register(a) PROVE NoSilentDeath'
  BY <1>1, CoordinatorConstants DEF Register, boardVars, loopVars, WInv,
     NoSilentDeath, FreshAreWriters, AutoRetiredWrote, SignalsArePrivate,
     TakesExitKey, KeysAreOpen, IInv, TypeOK, AgentTypes, RegTypes, BoardTypes,
     LoopTypes
<1>2. ASSUME NEW a \in Agents, WriteSignal(a) PROVE NoSilentDeath'
  BY <1>2, CoordinatorConstants DEF WriteSignal, regVars, WInv, NoSilentDeath,
     FreshAreWriters, AutoRetiredWrote, SignalsArePrivate, TakesExitKey,
     KeysAreOpen, IInv, TypeOK, AgentTypes, RegTypes, BoardTypes, LoopTypes
<1>3. ASSUME NEW a \in Agents, FinishRetire(a) PROVE NoSilentDeath'
  BY <1>3, CoordinatorConstants DEF FinishRetire, boardVars, loopVars, WInv,
     NoSilentDeath, FreshAreWriters, AutoRetiredWrote, SignalsArePrivate,
     TakesExitKey, KeysAreOpen, IInv, TypeOK, AgentTypes, RegTypes, BoardTypes,
     LoopTypes
<1>4. ASSUME HandleExit PROVE NoSilentDeath'
  <2>1. Head(bus) \in OnBus /\ Head(bus).kind = "exit"
    BY <1>4, ReceiveBus DEF HandleExit, WInv, IInv, TypeOK
  <2>2. PICK a \in Agents : a = Head(bus).agent
    BY <2>1 DEF WInv, IInv, EventsAreTrue
  <2>3. /\ fallback = NoAgent
        /\ UNCHANGED <<joined, writes, failures>>
        /\ \A b \in Agents \ {a} : exitKeys'[b] = exitKeys[b]
        /\ ~exitKeys[a] => exitKeys' = exitKeys
        /\ exitKeys[a] => fallback' = IF Fresh(a) THEN NoAgent ELSE a
    BY <1>4, <2>2 DEF HandleExit, Receive, UnregisterExitKey, boardVars, WInv, IInv, TypeOK,
       RegTypes
  <2>4. ASSUME NEW b \in Agents, joined[b], Signal[b] # NoKey, ~exitKeys'[b]
        PROVE  writes[b] > 0 \/ failures[b] > 0 \/ fallback' = b
    <3>1. CASE b = a /\ exitKeys[a]
      BY <2>3, <3>1 DEF WInv, IInv, KeysAreOpen, FreshAreWriters
    <3>2. CASE ~(b = a /\ exitKeys[a])
      <4>1. ~exitKeys[b]
        BY <2>3, <2>4, <3>2
      <4>2. QED
        BY <2>3, <2>4, <4>1, CoordinatorConstants DEF WInv, NoSilentDeath
    <3>3. QED
      BY <3>1, <3>2
  <2>5. QED
    BY <2>3, <2>4 DEF NoSilentDeath
<1>5. ASSUME WriteFallback PROVE NoSilentDeath'
  BY <1>5, CoordinatorConstants DEF WriteFallback, regVars, WInv, NoSilentDeath,
     FreshAreWriters, AutoRetiredWrote, SignalsArePrivate, TakesExitKey,
     KeysAreOpen, IInv, TypeOK, AgentTypes, RegTypes, BoardTypes, LoopTypes
<1>6. ASSUME FallbackFails PROVE NoSilentDeath'
  BY <1>6, CoordinatorConstants DEF FallbackFails, regVars, boardVars, WInv,
     NoSilentDeath, FreshAreWriters, AutoRetiredWrote, SignalsArePrivate,
     TakesExitKey, KeysAreOpen, IInv, TypeOK, AgentTypes, RegTypes, BoardTypes,
     LoopTypes
<1>7. ASSUME UNCHANGED <<joined, exitKeys, writes, failures, fallback>> PROVE
      NoSilentDeath'
  BY <1>7 DEF WInv, NoSilentDeath
<1>8. ASSUME NEW a \in Agents, Spawn(a) \/ Broadcast(a) \/ DropRequest(a) \/
      WriteOwnError(a) \/ Exit(a) \/ AnnounceExit(a) \/ Evict(a) \/
      Teardown(a) \/ Kill(a) PROVE UNCHANGED <<joined, exitKeys, writes, failures,
      fallback>>
  BY <1>8 DEF Spawn, Broadcast, DropRequest, WriteOwnError, Exit, AnnounceExit,
     Evict, Teardown, Kill, boardVars, loopVars, regVars
<1>9. ASSUME NEW a \in Agents, NEW n \in 1 .. MaxWrites, GraceOver(a, n) \/
      GatePasses(a, n) \/ GateFails(a, n) \/ Reap(a, n) \/ ReapGone(a, n) PROVE
      UNCHANGED <<joined, exitKeys, writes, failures, fallback>>
  BY <1>9 DEF GraceOver, GatePasses, GateFails, Reap, ReapGone, regVars, boardVars
<1>10. ASSUME NEW k \in Keys, DeleteKey(k) \/ EditKey(k) PROVE UNCHANGED <<joined,
      exitKeys, writes, failures, fallback>>
  BY <1>10 DEF DeleteKey, EditKey, regVars, loopVars
<1>11. ASSUME HandleBlackboard \/ HandleOther \/ ReconcileAfterLag \/ Noise PROVE
      UNCHANGED <<joined, exitKeys, writes, failures, fallback>>
  BY <1>11 DEF HandleBlackboard, HandleOther, ReconcileAfterLag, Noise, regVars,
     boardVars, loopVars
<1>12. CASE UNCHANGED vars
  BY <1>12, <1>7 DEF vars, regVars, boardVars, loopVars
<1>13. QED
  BY <1>1, <1>2, <1>3, <1>4, <1>5, <1>6, <1>7, <1>8, <1>9, <1>10, <1>11, <1>12 DEF
     Next, Agent, Retirement, AutoKill, Loop, vars

\* With private signals that nobody deletes or edits, and a disk that takes the
\* .error, no exit key is ever forgotten: health banners, lost op rows, dropped
\* events, early deaths and racing teardowns included.
THEOREM NoDeathIsSilent == SignalsArePrivate => (Spec => []NoSilentDeath)
<1> SUFFICES ASSUME SignalsArePrivate PROVE Spec => []NoSilentDeath
  OBVIOUS
<1>1. Init => WInv
  BY InitInv, CoordinatorConstants DEF Init, WInv, FreshAreWriters, AutoRetiredWrote,
     NoSilentDeath, Fresh
<1>2. WInv /\ [Next]_vars => WInv'
  BY NextInv, FreshAreWritersStep, AutoRetiredWroteStep, NoSilentDeathStep DEF WInv
<1>3. WInv => NoSilentDeath
  BY DEF WInv
<1>4. QED
  BY <1>1, <1>2, <1>3, PTL DEF Spec

=============================================================================
