------------------------ MODULE PlannedRestartProofs ------------------------
(***************************************************************************)
(* Theorems about PlannedRestart, for every interval, horizon and delay.   *)
(***************************************************************************)
EXTENDS PlannedRestart, TLAPS

\* The arithmetic of slots: a slot lies at or after the minute it is computed for.
LEMMA SlotKeyNat == \A m \in Nat : MinutesUntil(m) \in Nat /\ SlotKey(m) \in Nat
<1> SUFFICES ASSUME NEW m \in Nat PROVE MinutesUntil(m) \in Nat /\ SlotKey(m) \in Nat
  OBVIOUS
<1>1. m % Interval \in 0 .. Interval - 1
  BY TimeAssumption
<1>2. MinutesUntil(m) \in Nat
  BY <1>1, TimeAssumption DEF MinutesUntil
<1>3. QED
  BY <1>2 DEF SlotKey

\* The slot of a minute that is a slot is that minute.
LEMMA SlotKeyAtSlot == \A m \in Nat : MinutesUntil(m) = 0 => SlotKey(m) = m
  BY DEF SlotKey

\* T-0 is owed under the minute the run has read.
LEMMA TickOwes == TickBegin /\ TypeOK => now' \in Minute /\ now' > clock /\ owed' \in {now', owed}
<1> SUFFICES ASSUME TickBegin, TypeOK PROVE now' \in Minute /\ now' > clock /\ owed' \in {now', owed}
  OBVIOUS
<1>1. now' \in Minute /\ now' > clock
  BY TimeAssumption DEF TickBegin, TypeOK, Minute
<1>2. now' \in Nat
  BY <1>1, TimeAssumption DEF Minute
<1>3. MinutesUntil(now') = 0 => SlotKey(now') = now'
  BY <1>2, SlotKeyAtSlot
<1>4. QED
  BY <1>1, <1>3, Zenon DEF TickBegin

\* What a run of the job has read lies in the past, and so do all settled slots; the slot owed is not among them.
Settled ==
  /\ now <= clock
  /\ \A m \in Minute : restarts[m] > 0 => m <= now
  /\ owed # NoSlot => owed <= now /\ restarts[owed] = 0

\* execute_planned_restart reads _planned_locked_servers once; nothing locks the server until it is done.
UnlockKnown == pc \in {"safety", "restart", "failed"} => unlockNeeded = planLocked

\* Every step of the job and around it keeps the types.
LEMMA TypeNext == TypeOK /\ Next => TypeOK'
<1> SUFFICES ASSUME TypeOK, Next PROVE TypeOK'
  OBVIOUS
<1> USE TimeAssumption DEF TypeOK, PC, Minute, KickState, Elapse, Go, Fresh, Down, game, env, job, time
<1>1. CASE TickBegin
  <2>1. /\ planLocked' \in BOOLEAN /\ unlockNeeded' \in BOOLEAN /\ up' \in BOOLEAN /\ players' \in BOOLEAN
        /\ rcon' \in BOOLEAN /\ busy' \in BOOLEAN /\ enabled' \in BOOLEAN /\ modDue' \in BOOLEAN
    BY <1>1, Zenon DEF TickBegin, SlotKey
  <2>2. kick' \in KickState
    BY <1>1, SlotKeyNat DEF TickBegin, SlotKey
  <2>3. clock' \in Minute /\ now' \in Minute /\ switches' \in 0 .. MaxSwitches
    BY <1>1 DEF TickBegin, SlotKey
  <2>4. owed' \in Minute \cup {NoSlot} /\ restarts' \in [Minute -> Nat]
    BY <1>1, TickOwes DEF TickBegin
  <2>5. pc' \in PC /\ gate' \in {"open", "acked", "silent"}
    BY <1>1 DEF TickBegin, SlotKey
  <2>. QED
    BY <2>1, <2>2, <2>3, <2>4, <2>5
<1>2. CASE ModsElsewhere
  BY <1>2 DEF ModsElsewhere
<1>3. CASE ModRestart
  <2>1. /\ planLocked' \in BOOLEAN /\ unlockNeeded' \in BOOLEAN /\ up' \in BOOLEAN /\ players' \in BOOLEAN
        /\ rcon' \in BOOLEAN /\ busy' \in BOOLEAN /\ enabled' \in BOOLEAN /\ modDue' \in BOOLEAN
    BY <1>3, Zenon DEF ModRestart, Settle
  <2>2. kick' \in KickState
    BY <1>3 DEF ModRestart, Settle
  <2>3. clock' \in Minute /\ now' \in Minute /\ switches' \in 0 .. MaxSwitches
    BY <1>3 DEF ModRestart, Settle
  <2>4. owed' \in Minute \cup {NoSlot} /\ restarts' \in [Minute -> Nat]
    BY <1>3, <2>3 DEF ModRestart, Settle
  <2>5. pc' \in PC /\ gate' \in {"open", "acked", "silent"}
    BY <1>3 DEF ModRestart, Settle
  <2>. QED
    BY <2>1, <2>2, <2>3, <2>4, <2>5
<1>4. CASE ModRaises
  <2>1. /\ planLocked' \in BOOLEAN /\ unlockNeeded' \in BOOLEAN /\ up' \in BOOLEAN /\ players' \in BOOLEAN
        /\ rcon' \in BOOLEAN /\ busy' \in BOOLEAN /\ enabled' \in BOOLEAN /\ modDue' \in BOOLEAN
    BY <1>4, Zenon DEF ModRaises
  <2>2. kick' \in KickState
    BY <1>4 DEF ModRaises
  <2>3. clock' \in Minute /\ now' \in Minute /\ switches' \in 0 .. MaxSwitches
    BY <1>4 DEF ModRaises
  <2>4. owed' \in Minute \cup {NoSlot} /\ restarts' \in [Minute -> Nat]
    BY <1>4, <2>3 DEF ModRaises
  <2>5. pc' \in PC /\ gate' \in {"open", "acked", "silent"}
    BY <1>4 DEF ModRaises
  <2>. QED
    BY <2>1, <2>2, <2>3, <2>4, <2>5
<1>5. CASE Turn
  BY <1>5 DEF Turn
<1>6. CASE EnterWindow
  <2>1. /\ planLocked' \in BOOLEAN /\ unlockNeeded' \in BOOLEAN /\ up' \in BOOLEAN /\ players' \in BOOLEAN
        /\ rcon' \in BOOLEAN /\ busy' \in BOOLEAN /\ enabled' \in BOOLEAN /\ modDue' \in BOOLEAN
    BY <1>6, Zenon DEF EnterWindow, KickStateForSlot
  <2>2. kick' \in KickState
    BY <1>6, SlotKeyNat DEF EnterWindow, KickStateForSlot
  <2>3. clock' \in Minute /\ now' \in Minute /\ switches' \in 0 .. MaxSwitches
    BY <1>6 DEF EnterWindow, KickStateForSlot
  <2>4. owed' \in Minute \cup {NoSlot} /\ restarts' \in [Minute -> Nat]
    BY <1>6, <2>3, SlotKeyNat DEF EnterWindow, KickStateForSlot
  <2>5. pc' \in PC /\ gate' \in {"open", "acked", "silent"}
    BY <1>6 DEF EnterWindow, KickStateForSlot
  <2>. QED
    BY <2>1, <2>2, <2>3, <2>4, <2>5
<1>7. CASE Say
  <2>1. /\ planLocked' \in BOOLEAN /\ unlockNeeded' \in BOOLEAN /\ up' \in BOOLEAN /\ players' \in BOOLEAN
        /\ rcon' \in BOOLEAN /\ busy' \in BOOLEAN /\ enabled' \in BOOLEAN /\ modDue' \in BOOLEAN
    BY <1>7, Zenon DEF Say
  <2>2. kick' \in KickState
    BY <1>7 DEF Say
  <2>3. clock' \in Minute /\ now' \in Minute /\ switches' \in 0 .. MaxSwitches
    BY <1>7 DEF Say
  <2>4. owed' \in Minute \cup {NoSlot} /\ restarts' \in [Minute -> Nat]
    BY <1>7, <2>3 DEF Say
  <2>5. pc' \in PC /\ gate' \in {"open", "acked", "silent"}
    BY <1>7 DEF Say
  <2>. QED
    BY <2>1, <2>2, <2>3, <2>4, <2>5
<1>8. CASE LockServer
  <2>1. /\ planLocked' \in BOOLEAN /\ unlockNeeded' \in BOOLEAN /\ up' \in BOOLEAN /\ players' \in BOOLEAN
        /\ rcon' \in BOOLEAN /\ busy' \in BOOLEAN /\ enabled' \in BOOLEAN /\ modDue' \in BOOLEAN
    BY <1>8, Zenon DEF LockServer
  <2>2. kick' \in KickState
    BY <1>8 DEF LockServer
  <2>3. clock' \in Minute /\ now' \in Minute /\ switches' \in 0 .. MaxSwitches
    BY <1>8 DEF LockServer
  <2>4. owed' \in Minute \cup {NoSlot} /\ restarts' \in [Minute -> Nat]
    BY <1>8, <2>3 DEF LockServer
  <2>5. pc' \in PC /\ gate' \in {"open", "acked", "silent"}
    BY <1>8 DEF LockServer
  <2>. QED
    BY <2>1, <2>2, <2>3, <2>4, <2>5
<1>9. CASE KickWindow
  <2>1. /\ planLocked' \in BOOLEAN /\ unlockNeeded' \in BOOLEAN /\ up' \in BOOLEAN /\ players' \in BOOLEAN
        /\ rcon' \in BOOLEAN /\ busy' \in BOOLEAN /\ enabled' \in BOOLEAN /\ modDue' \in BOOLEAN
    BY <1>9, Zenon DEF KickWindow, KickAll
  <2>2. kick' \in KickState
    BY <1>9 DEF KickWindow, KickAll
  <2>3. clock' \in Minute /\ now' \in Minute /\ switches' \in 0 .. MaxSwitches
    BY <1>9 DEF KickWindow, KickAll
  <2>4. owed' \in Minute \cup {NoSlot} /\ restarts' \in [Minute -> Nat]
    BY <1>9, <2>3 DEF KickWindow, KickAll
  <2>5. pc' \in PC /\ gate' \in {"open", "acked", "silent"}
    BY <1>9 DEF KickWindow, KickAll
  <2>. QED
    BY <2>1, <2>2, <2>3, <2>4, <2>5
<1>10. CASE Debt
  BY <1>10 DEF Debt
<1>11. CASE SafetyKick
  <2>1. /\ planLocked' \in BOOLEAN /\ unlockNeeded' \in BOOLEAN /\ up' \in BOOLEAN /\ players' \in BOOLEAN
        /\ rcon' \in BOOLEAN /\ busy' \in BOOLEAN /\ enabled' \in BOOLEAN /\ modDue' \in BOOLEAN
    BY <1>11, Zenon DEF SafetyKick, KickAll
  <2>2. kick' \in KickState
    BY <1>11 DEF SafetyKick, KickAll
  <2>3. clock' \in Minute /\ now' \in Minute /\ switches' \in 0 .. MaxSwitches
    BY <1>11 DEF SafetyKick, KickAll
  <2>4. owed' \in Minute \cup {NoSlot} /\ restarts' \in [Minute -> Nat]
    BY <1>11, <2>3 DEF SafetyKick, KickAll
  <2>5. pc' \in PC /\ gate' \in {"open", "acked", "silent"}
    BY <1>11 DEF SafetyKick, KickAll
  <2>. QED
    BY <2>1, <2>2, <2>3, <2>4, <2>5
<1>12. CASE Restarted
  <2>1. /\ planLocked' \in BOOLEAN /\ unlockNeeded' \in BOOLEAN /\ up' \in BOOLEAN /\ players' \in BOOLEAN
        /\ rcon' \in BOOLEAN /\ busy' \in BOOLEAN /\ enabled' \in BOOLEAN /\ modDue' \in BOOLEAN
    BY <1>12, Zenon DEF Restarted, Settle
  <2>2. kick' \in KickState
    BY <1>12 DEF Restarted, Settle
  <2>3. clock' \in Minute /\ now' \in Minute /\ switches' \in 0 .. MaxSwitches
    BY <1>12 DEF Restarted, Settle
  <2>4. owed' \in Minute \cup {NoSlot} /\ restarts' \in [Minute -> Nat]
    BY <1>12, <2>3 DEF Restarted, Settle
  <2>5. pc' \in PC /\ gate' \in {"open", "acked", "silent"}
    BY <1>12 DEF Restarted, Settle
  <2>. QED
    BY <2>1, <2>2, <2>3, <2>4, <2>5
<1>13. CASE RestartFails
  <2>1. /\ planLocked' \in BOOLEAN /\ unlockNeeded' \in BOOLEAN /\ up' \in BOOLEAN /\ players' \in BOOLEAN
        /\ rcon' \in BOOLEAN /\ busy' \in BOOLEAN /\ enabled' \in BOOLEAN /\ modDue' \in BOOLEAN
    BY <1>13, Zenon DEF RestartFails
  <2>2. kick' \in KickState
    BY <1>13 DEF RestartFails
  <2>3. clock' \in Minute /\ now' \in Minute /\ switches' \in 0 .. MaxSwitches
    BY <1>13 DEF RestartFails
  <2>4. owed' \in Minute \cup {NoSlot} /\ restarts' \in [Minute -> Nat]
    BY <1>13, <2>3 DEF RestartFails
  <2>5. pc' \in PC /\ gate' \in {"open", "acked", "silent"}
    BY <1>13 DEF RestartFails
  <2>. QED
    BY <2>1, <2>2, <2>3, <2>4, <2>5
<1>14. CASE Reopen
  BY <1>14 DEF Reopen
<1>15. CASE Join
  BY <1>15 DEF Join
<1>16. CASE Crash
  <2>1. /\ planLocked' \in BOOLEAN /\ unlockNeeded' \in BOOLEAN /\ up' \in BOOLEAN /\ players' \in BOOLEAN
        /\ rcon' \in BOOLEAN /\ busy' \in BOOLEAN /\ enabled' \in BOOLEAN /\ modDue' \in BOOLEAN
    BY <1>16, Zenon DEF Crash
  <2>2. kick' \in KickState
    BY <1>16 DEF Crash
  <2>3. clock' \in Minute /\ now' \in Minute /\ switches' \in 0 .. MaxSwitches
    BY <1>16 DEF Crash
  <2>4. owed' \in Minute \cup {NoSlot} /\ restarts' \in [Minute -> Nat]
    BY <1>16, <2>3 DEF Crash
  <2>5. pc' \in PC /\ gate' \in {"open", "acked", "silent"}
    BY <1>16 DEF Crash
  <2>. QED
    BY <2>1, <2>2, <2>3, <2>4, <2>5
<1>17. CASE OtherBegins
  BY <1>17 DEF OtherBegins
<1>18. CASE OtherEnds
  <2>1. /\ planLocked' \in BOOLEAN /\ unlockNeeded' \in BOOLEAN /\ up' \in BOOLEAN /\ players' \in BOOLEAN
        /\ rcon' \in BOOLEAN /\ busy' \in BOOLEAN /\ enabled' \in BOOLEAN /\ modDue' \in BOOLEAN
    BY <1>18, Zenon DEF OtherEnds
  <2>2. kick' \in KickState
    BY <1>18 DEF OtherEnds
  <2>3. clock' \in Minute /\ now' \in Minute /\ switches' \in 0 .. MaxSwitches
    BY <1>18 DEF OtherEnds
  <2>4. owed' \in Minute \cup {NoSlot} /\ restarts' \in [Minute -> Nat]
    BY <1>18, <2>3 DEF OtherEnds
  <2>5. pc' \in PC /\ gate' \in {"open", "acked", "silent"}
    BY <1>18 DEF OtherEnds
  <2>. QED
    BY <2>1, <2>2, <2>3, <2>4, <2>5
<1>19. CASE RconChanges
  BY <1>19 DEF RconChanges
<1>20. CASE Switch
  BY <1>20 DEF Switch
<1>21. CASE GroupDue
  BY <1>21 DEF GroupDue
<1>22. QED
  BY <1>1, <1>2, <1>3, <1>4, <1>5, <1>6, <1>7, <1>8, <1>9, <1>10, <1>11, <1>12, <1>13, <1>14, <1>15, <1>16, <1>17, <1>18, <1>19, <1>20, <1>21 DEF Next

\* The clock of a run only grows, by a minute at least from one run to the next.
LEMMA SettledNext == TypeOK /\ Settled /\ Next => Settled'
<1> SUFFICES ASSUME TypeOK /\ Settled, Next PROVE Settled'
  OBVIOUS
<1> USE TimeAssumption, NoSlotAssumption DEF TypeOK, Settled, Minute, Elapse, Go, game, env, job, time
<1>1. CASE TickBegin
  <2>1. now' \in Minute /\ now' > clock /\ owed' \in {now', owed} /\ restarts' = restarts /\ clock' = now'
    BY <1>1, TickOwes DEF TickBegin
  <2>. QED
    BY <2>1
<1>2. CASE ModsElsewhere
  BY <1>2 DEF ModsElsewhere
<1>3. CASE ModRestart
  <2>1. clock' >= clock /\ clock' \in Minute /\ now' = now
    BY <1>3 DEF ModRestart
  <2>2. \/ restarts' = restarts /\ (owed' = NoSlot \/ owed' = owed)
        \/ owed # NoSlot /\ owed' = NoSlot /\ restarts' = [restarts EXCEPT ![owed] = @ + 1]
    BY <1>3, Zenon DEF ModRestart, Settle
  <2>3. CASE owed # NoSlot /\ owed' = NoSlot /\ restarts' = [restarts EXCEPT ![owed] = @ + 1]
    BY <2>1, <2>3
  <2>4. CASE restarts' = restarts
    BY <2>1, <2>2, <2>4
  <2>. QED
    BY <2>2, <2>3, <2>4
<1>4. CASE ModRaises
  BY <1>4 DEF ModRaises
<1>5. CASE Turn
  BY <1>5 DEF Turn
<1>6. CASE EnterWindow
  BY <1>6 DEF EnterWindow, KickStateForSlot
<1>7. CASE Say
  BY <1>7 DEF Say
<1>8. CASE LockServer
  BY <1>8 DEF LockServer
<1>9. CASE KickWindow
  BY <1>9 DEF KickWindow, KickAll
<1>10. CASE Debt
  BY <1>10 DEF Debt
<1>11. CASE SafetyKick
  BY <1>11 DEF SafetyKick, KickAll
<1>12. CASE Restarted
  BY <1>12 DEF Restarted, Settle
<1>13. CASE RestartFails
  BY <1>13 DEF RestartFails
<1>14. CASE Reopen
  BY <1>14 DEF Reopen
<1>15. CASE Join
  BY <1>15 DEF Join
<1>16. CASE Crash
  BY <1>16 DEF Crash
<1>17. CASE OtherBegins
  BY <1>17 DEF OtherBegins
<1>18. CASE OtherEnds
  BY <1>18 DEF OtherEnds
<1>19. CASE RconChanges
  BY <1>19 DEF RconChanges
<1>20. CASE Switch
  BY <1>20 DEF Switch
<1>21. CASE GroupDue
  BY <1>21 DEF GroupDue
<1>22. QED
  BY <1>1, <1>2, <1>3, <1>4, <1>5, <1>6, <1>7, <1>8, <1>9, <1>10, <1>11, <1>12, <1>13, <1>14, <1>15, <1>16, <1>17, <1>18, <1>19, <1>20, <1>21 DEF Next

\* A restart settles the slot that is owed, which has not been settled before.
LEMMA OnceNext == TypeOK /\ Settled /\ OneRestartPerSlot /\ Next => OneRestartPerSlot'
<1> SUFFICES ASSUME TypeOK /\ Settled /\ OneRestartPerSlot, Next PROVE OneRestartPerSlot'
  OBVIOUS
<1> USE TimeAssumption, NoSlotAssumption DEF TypeOK, Settled, OneRestartPerSlot, Minute, game, env, job, time
<1>1. CASE TickBegin
  BY <1>1 DEF TickBegin
<1>2. CASE ModsElsewhere
  BY <1>2 DEF ModsElsewhere
<1>3. CASE ModRestart
  <2>1. \/ restarts' = restarts
        \/ owed # NoSlot /\ restarts' = [restarts EXCEPT ![owed] = @ + 1]
    BY <1>3, Zenon DEF ModRestart, Settle
  <2>2. CASE restarts' = restarts
    BY <2>2
  <2>3. CASE owed # NoSlot /\ restarts' = [restarts EXCEPT ![owed] = @ + 1]
    BY <2>3
  <2>. QED
    BY <2>1, <2>2, <2>3
<1>4. CASE ModRaises
  BY <1>4 DEF ModRaises
<1>5. CASE Turn
  BY <1>5 DEF Turn
<1>6. CASE EnterWindow
  BY <1>6 DEF EnterWindow, KickStateForSlot
<1>7. CASE Say
  BY <1>7 DEF Say
<1>8. CASE LockServer
  BY <1>8 DEF LockServer
<1>9. CASE KickWindow
  BY <1>9 DEF KickWindow, KickAll
<1>10. CASE Debt
  BY <1>10 DEF Debt
<1>11. CASE SafetyKick
  BY <1>11 DEF SafetyKick, KickAll
<1>12. CASE Restarted
  BY <1>12 DEF Restarted, Settle
<1>13. CASE RestartFails
  BY <1>13 DEF RestartFails
<1>14. CASE Reopen
  BY <1>14 DEF Reopen
<1>15. CASE Join
  BY <1>15 DEF Join
<1>16. CASE Crash
  BY <1>16 DEF Crash
<1>17. CASE OtherBegins
  BY <1>17 DEF OtherBegins
<1>18. CASE OtherEnds
  BY <1>18 DEF OtherEnds
<1>19. CASE RconChanges
  BY <1>19 DEF RconChanges
<1>20. CASE Switch
  BY <1>20 DEF Switch
<1>21. CASE GroupDue
  BY <1>21 DEF GroupDue
<1>22. QED
  BY <1>1, <1>2, <1>3, <1>4, <1>5, <1>6, <1>7, <1>8, <1>9, <1>10, <1>11, <1>12, <1>13, <1>14, <1>15, <1>16, <1>17, <1>18, <1>19, <1>20, <1>21 DEF Next

\* Only the job itself locks the server.
LEMMA UnlockNext == TypeOK /\ UnlockKnown /\ Next => UnlockKnown'
<1> SUFFICES ASSUME TypeOK /\ UnlockKnown, Next PROVE UnlockKnown'
  OBVIOUS
<1> USE DEF TypeOK, UnlockKnown, Go, game, env, job, time
<1>1. CASE TickBegin
  BY <1>1 DEF TickBegin
<1>2. CASE ModsElsewhere
  BY <1>2 DEF ModsElsewhere
<1>3. CASE ModRestart
  BY <1>3 DEF ModRestart, Settle
<1>4. CASE ModRaises
  BY <1>4 DEF ModRaises
<1>5. CASE Turn
  BY <1>5 DEF Turn
<1>6. CASE EnterWindow
  BY <1>6 DEF EnterWindow, KickStateForSlot
<1>7. CASE Say
  BY <1>7 DEF Say
<1>8. CASE LockServer
  BY <1>8 DEF LockServer
<1>9. CASE KickWindow
  BY <1>9 DEF KickWindow, KickAll
<1>10. CASE Debt
  BY <1>10 DEF Debt
<1>11. CASE SafetyKick
  BY <1>11 DEF SafetyKick, KickAll
<1>12. CASE Restarted
  BY <1>12 DEF Restarted, Settle
<1>13. CASE RestartFails
  BY <1>13 DEF RestartFails
<1>14. CASE Reopen
  BY <1>14 DEF Reopen
<1>15. CASE Join
  BY <1>15 DEF Join
<1>16. CASE Crash
  BY <1>16 DEF Crash
<1>17. CASE OtherBegins
  BY <1>17 DEF OtherBegins
<1>18. CASE OtherEnds
  BY <1>18 DEF OtherEnds
<1>19. CASE RconChanges
  BY <1>19 DEF RconChanges
<1>20. CASE Switch
  BY <1>20 DEF Switch
<1>21. CASE GroupDue
  BY <1>21 DEF GroupDue
<1>22. QED
  BY <1>1, <1>2, <1>3, <1>4, <1>5, <1>6, <1>7, <1>8, <1>9, <1>10, <1>11, <1>12, <1>13, <1>14, <1>15, <1>16, <1>17, <1>18, <1>19, <1>20, <1>21 DEF Next

\* A server leaves _planned_locked_servers with the process that was locked.
LEMMA LocksNext == TypeOK /\ LocksRemembered /\ Next => LocksRemembered'
<1> SUFFICES ASSUME TypeOK /\ LocksRemembered, Next PROVE LocksRemembered'
  OBVIOUS
<1> USE DEF TypeOK, LocksRemembered, Go, Fresh, Down, game, env, job, time
<1>1. CASE TickBegin
  BY <1>1 DEF TickBegin
<1>2. CASE ModsElsewhere
  BY <1>2 DEF ModsElsewhere
<1>3. CASE ModRestart
  BY <1>3 DEF ModRestart, Settle
<1>4. CASE ModRaises
  BY <1>4 DEF ModRaises
<1>5. CASE Turn
  BY <1>5 DEF Turn
<1>6. CASE EnterWindow
  BY <1>6 DEF EnterWindow, KickStateForSlot
<1>7. CASE Say
  BY <1>7 DEF Say
<1>8. CASE LockServer
  BY <1>8 DEF LockServer
<1>9. CASE KickWindow
  BY <1>9 DEF KickWindow, KickAll
<1>10. CASE Debt
  BY <1>10 DEF Debt
<1>11. CASE SafetyKick
  BY <1>11 DEF SafetyKick, KickAll
<1>12. CASE Restarted
  BY <1>12 DEF Restarted, Settle
<1>13. CASE RestartFails
  BY <1>13 DEF RestartFails
<1>14. CASE Reopen
  BY <1>14 DEF Reopen
<1>15. CASE Join
  BY <1>15 DEF Join
<1>16. CASE Crash
  BY <1>16 DEF Crash
<1>17. CASE OtherBegins
  BY <1>17 DEF OtherBegins
<1>18. CASE OtherEnds
  BY <1>18 DEF OtherEnds
<1>19. CASE RconChanges
  BY <1>19 DEF RconChanges
<1>20. CASE Switch
  BY <1>20 DEF Switch
<1>21. CASE GroupDue
  BY <1>21 DEF GroupDue
<1>22. QED
  BY <1>1, <1>2, <1>3, <1>4, <1>5, <1>6, <1>7, <1>8, <1>9, <1>10, <1>11, <1>12, <1>13, <1>14, <1>15, <1>16, <1>17, <1>18, <1>19, <1>20, <1>21 DEF Next

-----------------------------------------------------------------------------
\* The inductive invariant: one restart per slot needs to know that settled slots are past.
IInv == TypeOK /\ Settled /\ OneRestartPerSlot /\ UnlockKnown /\ LocksRemembered

\* It holds when the manager starts.
LEMMA IInvInit == Init => IInv
<1> SUFFICES ASSUME Init PROVE IInv
  OBVIOUS
<1>1. TypeOK
  <2>1. clock \in Minute /\ now \in Minute /\ switches \in 0 .. MaxSwitches
    BY TimeAssumption DEF Init, Minute
  <2>2. kick \in KickState /\ restarts \in [Minute -> Nat] /\ owed \in Minute \cup {NoSlot}
    BY DEF Init, KickState
  <2>3. /\ planLocked \in BOOLEAN /\ unlockNeeded \in BOOLEAN /\ up \in BOOLEAN
        /\ players \in BOOLEAN /\ rcon \in BOOLEAN /\ busy \in BOOLEAN
        /\ enabled \in BOOLEAN /\ modDue \in BOOLEAN
    BY Zenon DEF Init
  <2>. QED
    BY <2>1, <2>2, <2>3 DEF Init, TypeOK, PC
<1>2. Settled
  BY TimeAssumption DEF Init, Settled, Minute
<1>3. OneRestartPerSlot /\ UnlockKnown /\ LocksRemembered
  BY DEF Init, OneRestartPerSlot, UnlockKnown, LocksRemembered
<1>4. QED
  BY <1>1, <1>2, <1>3 DEF IInv

\* The invariant holds in every reachable state.
THEOREM Invariance == Spec => []IInv
<1>1. IInv /\ [Next]_vars => IInv'
  <2>1. CASE Next
    BY <2>1, TypeNext, SettledNext, OnceNext, UnlockNext, LocksNext DEF IInv
  <2>2. CASE UNCHANGED vars
    BY <2>2 DEF IInv, TypeOK, Settled, OneRestartPerSlot, UnlockKnown, LocksRemembered, vars
  <2>. QED
    BY <2>1, <2>2
<1>2. QED
  BY IInvInit, <1>1, PTL DEF Spec

\* The types are kept: the window, the flags of the tick and the count of restarts.
THEOREM TypeCorrect == Spec => []TypeOK
<1>1. IInv => TypeOK
  BY DEF IInv
<1>2. QED
  BY <1>1, Invariance, PTL

\* A planned slot never restarts its server twice.
THEOREM SlotRestartsOnce == Spec => []OneRestartPerSlot
<1>1. IInv => OneRestartPerSlot
  BY DEF IInv
<1>2. QED
  BY <1>1, Invariance, PTL

\* The manager never loses track of a server it has closed to players.
THEOREM LocksNeverForgotten == Spec => []LocksRemembered
<1>1. IInv => LocksRemembered
  BY DEF IInv
<1>2. QED
  BY <1>1, Invariance, PTL

\* A planned restart that failed leaves a server that answers open.
THEOREM FailureReopens == Spec => FailedRestartReopens
<1>1. IInv /\ [Next]_vars => [pc = "failed" /\ pc' = "sleep" /\ up /\ rcon => gate' # "acked"]_vars
  <2> SUFFICES ASSUME IInv, Next, pc = "failed", pc' = "sleep", up, rcon PROVE gate' # "acked"
    OBVIOUS
  <2>1. Reopen
    BY DEF Next, TickBegin, ModsElsewhere, ModRestart, ModRaises, Turn, EnterWindow, Say, LockServer,
       KickWindow, Debt, SafetyKick, Restarted, RestartFails, Join, Crash, OtherBegins, OtherEnds,
       RconChanges, Switch, GroupDue, Go
  <2>2. gate = "acked" => unlockNeeded
    BY DEF IInv, UnlockKnown, LocksRemembered
  <2>3. QED
    BY <2>1, <2>2 DEF Reopen
<1>2. QED
  BY <1>1, Invariance, PTL DEF Spec, FailedRestartReopens
=============================================================================
