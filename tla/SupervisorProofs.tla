-------------------------- MODULE SupervisorProofs --------------------------
(***************************************************************************)
(* For any number of modules, any retry budget and any other holders: the  *)
(* supervisor's state keeps its type, no step of its own lifts another     *)
(* holder's freeze, and every repair goes on under a freeze of its own.    *)
(***************************************************************************)
EXTENDS Supervisor, ControlStateTheorems

(* Modules with an incident open, and the one a freeze was just pushed for. *)
Open == {m \in Modules : attempts[m] > 0}
Repaired == Open \cup (IF pc = "frozen" THEN {target} ELSE {})

CtlInv == WellFormed(ctl) /\ ctl.readable

(* An attempt is counted at most MaxAttempts times, and then escalates. *)
AttemptsInv ==
  \A m \in Modules : attempts[m] = MaxAttempts => m = target /\ pc \notin {"idle", "detected", "frozen"}

(* The supervisor's entries cover its open incidents.  A recovery pops only *)
(* one entry, so their holding it at all is not inductive: two modules      *)
(* under repair need an entry each.                                         *)
FreezesInv ==
  /\ pc \in {"recovered", "failed"} => attempts[target] > 0
  /\ Cardinality(Repaired) <= Count(ctl.stack, "supervisor")

TypeInv == TypeOK /\ CtlInv /\ AttemptsInv
IInv == TypeInv /\ FreezesInv
-----------------------------------------------------------------------------
LEMMA RepairedFinite ==
  ASSUME NEW S, S \subseteq Modules
  PROVE  IsFiniteSet(S) /\ Cardinality(S) \in Nat
<1>1. IsFiniteSet(Modules)  BY FS_Interval, SupervisorAssumption DEF Modules
<1> QED  BY <1>1, FS_Subset, FS_CardinalityType

LEMMA SmallerSet ==
  ASSUME NEW S, NEW T, S \subseteq Modules, T \subseteq S
  PROVE  Cardinality(T) <= Cardinality(S)
BY RepairedFinite, FS_Subset

(* What the steps outside the supervisor, and its own, do to the stack. *)
LEMMA OthersKeepCtl ==
  ASSUME CtlInv, NEW source \in Others, OtherFreeze(source) \/ OtherRelease(source)
  PROVE  CtlInv' /\ Count(ctl'.stack, "supervisor") = Count(ctl.stack, "supervisor")
<1>1. source \in Sources /\ source # "supervisor"  BY SupervisorAssumption
<1>2. CASE OtherFreeze(source)
  <2>1. ctl' = push_freeze(ctl, source)  BY <1>2 DEF OtherFreeze
  <2> QED  BY <1>1, <2>1, PushFreeze, PushCount DEF CtlInv
<1>3. CASE OtherRelease(source)
  <2>1. ctl' = stand_down(ctl, source)  BY <1>3 DEF OtherRelease
  <2>2. WellFormed(ctl)'  BY <2>1, StandDown DEF CtlInv
  <2>3. /\ stand_down(ctl, source).readable
        /\ Count(stand_down(ctl, source).stack, "supervisor") = Count(ctl.stack, "supervisor")
    BY <1>1, StandDownCount DEF CtlInv
  <2> QED  BY <2>1, <2>2, <2>3 DEF CtlInv
<1> QED  BY <1>2, <1>3

LEMMA FreezeKeepsCtl ==
  ASSUME CtlInv, PollFreeze
  PROVE  /\ CtlInv' /\ Holders(ctl') = Holders(ctl) \cup {"supervisor"}
         /\ Count(ctl'.stack, "supervisor") = Count(ctl.stack, "supervisor") + 1
<1>1. ctl' = push_freeze(ctl, "supervisor")  BY DEF PollFreeze, PushesFreeze
<1>2. "supervisor" \in Sources  BY DEF Sources
<1> QED  BY <1>1, <1>2, PushFreeze, PushCount DEF CtlInv

LEMMA RecoveryKeepsCtl ==
  ASSUME CtlInv, PollRecovered
  PROVE  /\ CtlInv' /\ Holders(ctl) \ {"supervisor"} \subseteq Holders(ctl')
         /\ Count(ctl'.stack, "supervisor") \in Nat
         /\ Count(ctl'.stack, "supervisor") + 1 >= Count(ctl.stack, "supervisor")
<1>1. ctl' = ctl \/ ctl' = pop_freeze(ctl, "supervisor")  BY DEF PollRecovered, ReleaseOwn
<1>2. CASE ctl' = ctl
  <2>1. Count(ctl.stack, "supervisor") \in Nat  BY CountType DEF CtlInv
  <2>2. CtlInv'  BY <1>2 DEF CtlInv
  <2> QED  BY <1>2, <2>1, <2>2
<1>3. CASE ctl' = pop_freeze(ctl, "supervisor")
  BY <1>3, PopFreeze, PopCount DEF CtlInv
<1> QED  BY <1>1, <1>2, <1>3

(* No other step of a poll writes control.json. *)
LEMMA OtherPollsKeepCtl ==
  ASSUME Poll, ~PollFreeze, ~PollRecovered
  PROVE  ctl' = ctl
BY DEF Poll, PollQuiet, PollDetect, PollRestart, PollBackOff, PollEscalate, PollCrash

(* Hence every step keeps the file a readable list. *)
LEMMA CtlStep ==
  ASSUME CtlInv, [Next]_vars
  PROVE  CtlInv'
<1>1. CASE ctl' = ctl  BY <1>1 DEF CtlInv
<1>2. ASSUME NEW source \in Others, OtherFreeze(source) \/ OtherRelease(source) PROVE CtlInv'
  BY <1>2, OthersKeepCtl
<1>3. CASE PollFreeze  BY <1>3, FreezeKeepsCtl
<1>4. CASE PollRecovered  BY <1>4, RecoveryKeepsCtl
<1>5. CASE Poll  BY <1>1, <1>3, <1>4, <1>5, OtherPollsKeepCtl
<1>6. ASSUME NEW m \in Modules, ModuleCrash(m) \/ ModuleHang(m) \/ Beat(m) \/ GoStale(m)
      PROVE  ctl' = ctl
  BY <1>6 DEF ModuleCrash, ModuleHang, Beat, GoStale
<1>7. SleepOrWake \/ FreezeWatch => ctl' = ctl  BY DEF SleepOrWake, FreezeWatch
<1>8. UNCHANGED vars => ctl' = ctl  BY DEF vars
<1> QED  BY <1>1, <1>2, <1>5, <1>6, <1>7, <1>8 DEF Next

(* The types, but for the file. *)
RestOK ==
  /\ paused \in BOOLEAN /\ sleeping \in BOOLEAN /\ escalated \in BOOLEAN
  /\ tasks \in [Modules -> {"running", "stuck", "crashed", "none"}]
  /\ stale \in [Modules -> BOOLEAN]
  /\ attempts \in [Modules -> 0 .. MaxAttempts]
  /\ pc \in {"idle", "detected", "frozen", "recovered", "failed", "halted"}
  /\ target \in Modules
  /\ faults \in 0 .. MaxFaults

LEMMA TypeIsRest == TypeInv <=> CtlInv /\ RestOK /\ AttemptsInv
BY DEF TypeInv, TypeOK, RestOK, CtlInv, WellFormed, ListOfEntries

(* Dropping the incidents of live modules only lowers attempts. *)
LEMMA DropLowers ==
  ASSUME RestOK, NEW m
  PROVE  /\ DropAliveBelow(m) \in [Modules -> 0 .. MaxAttempts]
         /\ \A k \in Modules : DropAliveBelow(m)[k] \in {0, attempts[k]}
<1>1. \A k \in Modules : attempts[k] \in 0 .. MaxAttempts /\ 0 \in 0 .. MaxAttempts
  BY SupervisorAssumption DEF RestOK
<1> QED  BY <1>1 DEF DropAliveBelow

LEMMA RestartTypes ==
  ASSUME RestOK, NEW m \in Modules, NEW r \in RestartOutcomes(m)
  PROVE  r.task \in {"running", "stuck", "crashed", "none"} /\ r.stale \in BOOLEAN
<1>1. tasks[m] \in {"running", "stuck", "crashed", "none"} /\ stale[m] \in BOOLEAN
  BY DEF RestOK
<1>2. PICK t, s, o : /\ r = [ok |-> o, task |-> t, stale |-> s]
                     /\ t \in {"running", "crashed", "none", tasks[m]} /\ s \in {FALSE, stale[m]}
  BY Zenon DEF RestartOutcomes
<1>3. r.task = t /\ r.stale = s  BY <1>2
<1> QED  BY <1>1, <1>2, <1>3

(* Every step keeps the types and the budget of attempts. *)
LEMMA TypeStep ==
  ASSUME TypeInv, [Next]_vars
  PROVE  TypeInv'
<1> USE SupervisorAssumption
<1>1. CtlInv /\ RestOK /\ AttemptsInv  BY TypeIsRest
<1>2. CtlInv'  BY <1>1, CtlStep
<1> SUFFICES RestOK' /\ AttemptsInv'
  BY <1>2, TypeIsRest DEF TypeInv, TypeOK, RestOK, CtlInv, WellFormed, ListOfEntries
<1>3. CASE UNCHANGED vars  BY <1>1, <1>3 DEF vars, RestOK, AttemptsInv
<1>4. ASSUME NEW m \in Modules, ModuleCrash(m) \/ ModuleHang(m) \/ Beat(m) \/ GoStale(m)
      PROVE  RestOK' /\ AttemptsInv'
  <2>1. UNCHANGED supVars /\ UNCHANGED <<ctl, paused, sleeping>>
    BY <1>4 DEF ModuleCrash, ModuleHang, Beat, GoStale
  <2>2. AttemptsInv'  BY <1>1, <2>1 DEF AttemptsInv, supVars
  <2>3. tasks' \in [Modules -> {"running", "stuck", "crashed", "none"}] /\ faults' \in 0 .. MaxFaults
    BY <1>1, <1>4 DEF ModuleCrash, ModuleHang, Beat, GoStale, RestOK
  <2>4. stale' \in [Modules -> BOOLEAN]
    BY <1>1, <1>4 DEF ModuleCrash, ModuleHang, Beat, GoStale, RestOK
  <2> QED  BY <1>1, <2>1, <2>2, <2>3, <2>4 DEF RestOK, supVars
<1>5. CASE SleepOrWake  BY <1>1, <1>5 DEF SleepOrWake, RestOK, AttemptsInv, supVars
<1>6. CASE FreezeWatch
  BY <1>1, <1>6 DEF FreezeWatch, Frozen, RestOK, AttemptsInv, supVars, modVars
<1>7. ASSUME NEW source \in Others, OtherFreeze(source) \/ OtherRelease(source)
      PROVE  RestOK' /\ AttemptsInv'
  BY <1>1, <1>7 DEF OtherFreeze, OtherRelease, RestOK, AttemptsInv, supVars, modVars
<1>8. CASE PollQuiet
  <2>1. attempts' = DropAliveBelow(N + 1)  BY <1>8 DEF PollQuiet
  <2>2. RestOK'  BY <1>1, <1>8, <2>1, DropLowers DEF PollQuiet, RestOK, modVars
  <2>3. \A k \in Modules : attempts'[k] # MaxAttempts
    BY <1>1, <1>8, <2>1, DropLowers DEF PollQuiet, AttemptsInv
  <2> QED  BY <2>2, <2>3 DEF AttemptsInv
<1>9. ASSUME NEW m \in Modules, PollDetect(m) PROVE RestOK' /\ AttemptsInv'
  <2>1. attempts' = DropAliveBelow(m)  BY <1>9 DEF PollDetect
  <2>2. RestOK'  BY <1>1, <1>9, <2>1, DropLowers DEF PollDetect, RestOK, modVars
  <2>3. \A k \in Modules : attempts'[k] # MaxAttempts
    BY <1>1, <1>9, <2>1, DropLowers DEF PollDetect, AttemptsInv
  <2> QED  BY <2>2, <2>3 DEF AttemptsInv
<1>10. CASE PollFreeze
  BY <1>1, <1>10 DEF PollFreeze, RestOK, AttemptsInv, modVars
<1>11. CASE PollRestart
  <2>1. /\ pc = "frozen" /\ attempts' = [attempts EXCEPT ![target] = @ + 1]
        /\ pc' \in {"recovered", "failed"}
        /\ UNCHANGED <<ctl, paused, sleeping, faults, target, escalated>>
    BY <1>11 DEF PollRestart
  <2>2. PICK r \in RestartOutcomes(target) :
          tasks' = [tasks EXCEPT ![target] = r.task] /\ stale' = [stale EXCEPT ![target] = r.stale]
    BY <1>11 DEF PollRestart
  <2>3. target \in Modules  BY <1>1 DEF RestOK
  <2>4. r.task \in {"running", "stuck", "crashed", "none"} /\ r.stale \in BOOLEAN
    BY <1>1, <2>3, RestartTypes
  <2>5. attempts[target] \in 0 .. MaxAttempts /\ attempts[target] # MaxAttempts
    BY <1>1, <2>1, <2>3 DEF RestOK, AttemptsInv
  <2>6. attempts' \in [Modules -> 0 .. MaxAttempts]
    BY <1>1, <2>1, <2>3, <2>5 DEF RestOK
  <2>7. tasks' \in [Modules -> {"running", "stuck", "crashed", "none"}] /\ stale' \in [Modules -> BOOLEAN]
    BY <1>1, <2>2, <2>3, <2>4 DEF RestOK
  <2>8. RestOK'  BY <1>1, <2>1, <2>6, <2>7 DEF RestOK
  <2>9. \A k \in Modules : k # target => attempts'[k] = attempts[k] /\ attempts[k] # MaxAttempts
    BY <1>1, <2>1 DEF RestOK, AttemptsInv
  <2> QED  BY <2>1, <2>8, <2>9 DEF AttemptsInv
<1>12. CASE PollRecovered
  <2>1. RestOK'  BY <1>1, <1>12 DEF PollRecovered, RestOK, modVars
  <2>2. \A k \in Modules : attempts'[k] # MaxAttempts
    BY <1>1, <1>12 DEF PollRecovered, RestOK, AttemptsInv
  <2> QED  BY <2>1, <2>2 DEF AttemptsInv
<1>13. CASE PollBackOff
  <2>1. RestOK'  BY <1>1, <1>13 DEF PollBackOff, RestOK, modVars
  <2>2. \A k \in Modules : attempts'[k] # MaxAttempts
    BY <1>1, <1>13 DEF PollBackOff, RestOK, AttemptsInv
  <2> QED  BY <2>1, <2>2 DEF AttemptsInv
<1>14. CASE PollEscalate
  BY <1>1, <1>14 DEF PollEscalate, RestOK, AttemptsInv, ShutdownAll
<1>15. CASE PollCrash
  <2>1. ShutdownAll \in [Modules -> {"running", "stuck", "crashed", "none"}]  BY DEF ShutdownAll
  <2>2. tasks' \in [Modules -> {"running", "stuck", "crashed", "none"}]
    BY <1>1, <1>15, <2>1 DEF PollCrash, RestOK
  <2>3. attempts' \in [Modules -> 0 .. MaxAttempts]
    BY <1>1, <1>15 DEF PollCrash, RestOK
  <2>4. \A k \in Modules : attempts'[k] \in {0, attempts[k]}
    BY <1>1, <1>15 DEF PollCrash, RestOK
  <2>5. pc' = "halted" /\ escalated' = TRUE
        /\ UNCHANGED <<ctl, paused, stale, sleeping, faults, target>>
    BY <1>15 DEF PollCrash
  <2>6. RestOK'  BY <1>1, <2>2, <2>3, <2>5 DEF RestOK
  <2>7. AttemptsInv'  BY <1>1, <2>4, <2>5 DEF AttemptsInv
  <2> QED  BY <2>6, <2>7
<1> QED
  BY <1>3, <1>4, <1>5, <1>6, <1>7, <1>8, <1>9, <1>10, <1>11, <1>12, <1>13, <1>14, <1>15
     DEF Next, Poll

LEMMA InitType == Init => TypeInv
<1>1. ListOfEntries({})  BY FS_EmptySet DEF ListOfEntries, IsList
<1>2. WellFormed(Readable({})) /\ Readable({}).readable
  BY <1>1 DEF WellFormed, Readable, ControlFiles
<1>3. Init => CtlInv  BY <1>2 DEF Init, CtlInv
<1>4. 1 \in Modules /\ 0 \in 0 .. MaxFaults /\ 0 \in 0 .. MaxAttempts /\ MaxAttempts # 0
  BY SupervisorAssumption DEF Modules
<1>5. Init => RestOK  BY <1>4 DEF Init, RestOK
<1>6. Init => AttemptsInv  BY <1>4 DEF Init, AttemptsInv
<1> QED  BY <1>3, <1>5, <1>6, TypeIsRest

(* The attempts never exceed the budget, and the file stays a list.         *)
THEOREM SupervisorTypeCorrect == Spec => []TypeOK
<1>1. Init => TypeInv  BY InitType
<1>2. TypeInv /\ [Next]_vars => TypeInv'  BY TypeStep
<1>3. TypeInv => TypeOK  BY DEF TypeInv
<1> QED  BY <1>1, <1>2, <1>3, PTL DEF Spec
-----------------------------------------------------------------------------
(* The entries cover the incidents. *)
LEMMA FreezesStep ==
  ASSUME TypeInv, TypeInv', FreezesInv, [Next]_vars
  PROVE  FreezesInv'
<1> DEFINE n == Count(ctl.stack, "supervisor")
<1>1. CtlInv /\ RestOK /\ AttemptsInv  BY TypeIsRest
<1>2. n \in Nat  BY <1>1, CountType DEF CtlInv
<1>3. Open \subseteq Modules /\ Repaired \subseteq Modules
  BY <1>1 DEF Open, Repaired, RestOK
<1>4. Cardinality(Repaired) \in Nat /\ Cardinality(Repaired) <= n
  BY <1>3, RepairedFinite DEF FreezesInv
<1>5. Open' \subseteq Modules /\ Cardinality(Repaired') \in Nat /\ Cardinality(Open') \in Nat
  <2>1. RestOK'  BY TypeIsRest DEF TypeInv, TypeOK, RestOK
  <2>2. Repaired' \subseteq Modules /\ Open' \subseteq Modules  BY <2>1 DEF Open, Repaired, RestOK
  <2> QED  BY <2>2, RepairedFinite
<1> HIDE DEF n
\* A step that leaves the file alone and opens no incident.
<1>6. ASSUME ctl' = ctl, Repaired' \subseteq Repaired, pc' \in {"recovered", "failed"} => attempts'[target'] > 0
      PROVE  FreezesInv'
  <2>1. Cardinality(Repaired') <= Cardinality(Repaired)  BY <1>3, <1>6, SmallerSet
  <2>2. n' = n  BY <1>6 DEF n
  <2> QED  BY <1>2, <1>4, <1>5, <1>6, <2>1, <2>2 DEF FreezesInv, n
<1>7. ASSUME UNCHANGED supVars, n' = n
      PROVE  FreezesInv'
  BY <1>7 DEF FreezesInv, supVars, Repaired, Open, n
<1>8. CASE UNCHANGED vars  BY <1>7, <1>8 DEF vars, supVars, n
<1>9. ASSUME NEW m \in Modules, ModuleCrash(m) \/ ModuleHang(m) \/ Beat(m) \/ GoStale(m)
      PROVE  FreezesInv'
  <2>1. UNCHANGED supVars /\ ctl' = ctl
    BY <1>9 DEF ModuleCrash, ModuleHang, Beat, GoStale
  <2> QED  BY <1>7, <2>1 DEF n
<1>10. CASE SleepOrWake \/ FreezeWatch
  <2>1. UNCHANGED supVars /\ ctl' = ctl  BY <1>10 DEF SleepOrWake, FreezeWatch
  <2> QED  BY <1>7, <2>1 DEF n
<1>11. ASSUME NEW source \in Others, OtherFreeze(source) \/ OtherRelease(source)
       PROVE  FreezesInv'
  <2>1. n' = n  BY <1>1, <1>11, OthersKeepCtl DEF n
  <2>2. UNCHANGED supVars  BY <1>11 DEF OtherFreeze, OtherRelease
  <2> QED  BY <1>7, <2>1, <2>2
<1>12. ASSUME NEW m, attempts' = DropAliveBelow(m), pc # "frozen", pc' \in {"idle", "detected"}, ctl' = ctl
       PROVE  FreezesInv'
  <2>1. \A k \in Modules : attempts'[k] \in {0, attempts[k]}  BY <1>1, <1>12, DropLowers
  <2>2. Open' \subseteq Open  BY <2>1 DEF Open
  <2>3. Repaired = Open /\ Repaired' = Open'  BY <1>12 DEF Repaired
  <2> QED  BY <1>6, <1>12, <2>2, <2>3
<1>13. CASE PollQuiet \/ \E m \in Modules : PollDetect(m)
  <2>1. PICK m : attempts' = DropAliveBelow(m)  BY <1>13 DEF PollQuiet, PollDetect
  <2>2. pc = "idle" /\ pc' \in {"idle", "detected"} /\ ctl' = ctl
    BY <1>13 DEF PollQuiet, PollDetect
  <2> QED  BY <1>12, <2>1, <2>2
<1>14. CASE PollFreeze
  <2>1. n' = n + 1  BY <1>1, <1>14, FreezeKeepsCtl DEF n
  <2>2. pc = "detected" /\ pc' = "frozen" /\ UNCHANGED <<attempts, target>>
    BY <1>14 DEF PollFreeze
  <2>3. Repaired = Open /\ Repaired' = Open \cup {target}  BY <2>2 DEF Repaired, Open
  <2>4. IsFiniteSet(Open)  BY <1>3, RepairedFinite
  <2>5. Cardinality(Open \cup {target}) <= Cardinality(Open) + 1
    <3>1. CASE target \in Open
      <4>1. Open \cup {target} = Open  BY <3>1
      <4> QED  BY <4>1, <1>4, <2>3
    <3>2. CASE target \notin Open
      <4>1. Cardinality(Open) \in Nat  BY <1>3, RepairedFinite
      <4>2. Cardinality(Open \cup {target}) = Cardinality(Open) + 1
        BY <3>2, <2>4, FS_AddElement
      <4> QED  BY <4>1, <4>2
    <3> QED  BY <3>1, <3>2
  <2>6. Cardinality(Repaired') <= n'  BY <1>2, <1>4, <1>5, <2>1, <2>3, <2>5
  <2> QED  BY <2>2, <2>6 DEF FreezesInv, n
<1>15. CASE PollRestart
  <2>1. /\ pc = "frozen" /\ attempts' = [attempts EXCEPT ![target] = @ + 1]
        /\ pc' \in {"recovered", "failed"} /\ ctl' = ctl /\ target' = target
    BY <1>15 DEF PollRestart
  <2>2. target \in Modules /\ attempts \in [Modules -> 0 .. MaxAttempts]  BY <1>1 DEF RestOK
  <2>3. attempts[target] \in Nat /\ attempts'[target'] > 0  BY <2>1, <2>2, SupervisorAssumption
  <2>4. \A k \in Modules \ {target} : attempts'[k] = attempts[k]  BY <2>1, <2>2
  <2>5. Repaired' = Open' /\ Repaired = Open \cup {target}  BY <2>1 DEF Repaired
  <2>6. Open' \subseteq Open \cup {target}  BY <2>4 DEF Open
  <2> QED  BY <1>6, <2>1, <2>3, <2>5, <2>6
<1>16. CASE PollRecovered
  <2>1. pc = "recovered" /\ attempts' = [attempts EXCEPT ![target] = 0] /\ pc' = "idle"
    BY <1>16 DEF PollRecovered
  <2>2. target \in Modules /\ attempts \in [Modules -> 0 .. MaxAttempts]  BY <1>1 DEF RestOK
  <2>3. attempts[target] > 0  BY <2>1 DEF FreezesInv
  <2>4. Repaired = Open /\ Repaired' = Open'  BY <2>1 DEF Repaired
  <2>5. Open' = Open \ {target} /\ target \in Open  BY <2>1, <2>2, <2>3 DEF Open
  <2>6. IsFiniteSet(Open) /\ Cardinality(Open) \in Nat  BY <1>3, RepairedFinite
  <2>7. Cardinality(Open') = Cardinality(Open) - 1  BY <2>5, <2>6, FS_RemoveElement
  <2>8. n' \in Nat /\ n' + 1 >= n  BY <1>1, <1>16, RecoveryKeepsCtl DEF n
  <2>9. Cardinality(Repaired') = Cardinality(Open') /\ Cardinality(Repaired) = Cardinality(Open)
    BY <2>4
  <2>10. Cardinality(Repaired') <= n'
    <3>1. Cardinality(Open) <= n  BY <1>4, <2>9
    <3>2. Cardinality(Repaired') = Cardinality(Open) - 1  BY <2>7, <2>9
    <3>3. \A a, b, c \in Nat : a <= b /\ c + 1 >= b => a - 1 <= c  OBVIOUS
    <3>4. Cardinality(Open) - 1 <= n'  BY <1>2, <2>6, <2>8, <3>1, <3>3
    <3> QED  BY <3>2, <3>4
  <2> QED  BY <2>1, <2>10 DEF FreezesInv, n
<1>17. CASE PollBackOff \/ PollEscalate
  <2>1. attempts' = attempts /\ pc = "failed" /\ pc' \in {"idle", "halted"} /\ ctl' = ctl
    BY <1>17 DEF PollBackOff, PollEscalate
  <2>2. Repaired' = Repaired  BY <2>1 DEF Repaired, Open
  <2> QED  BY <1>6, <2>1, <2>2
<1>18. CASE PollCrash
  <2>1. /\ pc \in {"detected", "recovered"} /\ pc' = "halted" /\ ctl' = ctl
        /\ attempts' = attempts \/ attempts' = [attempts EXCEPT ![target] = 0]
    BY <1>18 DEF PollCrash
  <2>2. \A k \in Modules : attempts'[k] \in {0, attempts[k]}  BY <1>1, <2>1 DEF RestOK
  <2>3. Repaired = Open /\ Repaired' = Open'  BY <2>1 DEF Repaired
  <2>4. Open' \subseteq Open  BY <2>2 DEF Open
  <2> QED  BY <1>6, <2>1, <2>3, <2>4
<1> QED
  BY <1>8, <1>9, <1>10, <1>11, <1>13, <1>14, <1>15, <1>16, <1>17, <1>18 DEF Next, Poll

(* While an incident is open the cycle is frozen in the supervisor's own   *)
(* name, for any number of modules, attempts and other holders.            *)
THEOREM RepairsUnderFreeze == Spec => []RepairUnderFreeze
<1>1. Init => IInv
  <2> SUFFICES ASSUME Init PROVE FreezesInv
    BY InitType DEF IInv
  <2>1. Repaired = {}  BY DEF Init, Repaired, Open
  <2>2. Cardinality(Repaired) = 0  BY <2>1, FS_EmptySet
  <2>3. Count(ctl.stack, "supervisor") \in Nat  BY InitType, CountType DEF TypeInv, CtlInv
  <2> QED  BY <2>2, <2>3 DEF Init, FreezesInv
<1>2. IInv /\ [Next]_vars => IInv'  BY TypeStep, FreezesStep DEF IInv
<1>3. IInv => RepairUnderFreeze
  <2> SUFFICES ASSUME IInv, NEW m \in Modules, attempts[m] > 0
               PROVE  "supervisor" \in Holders(ctl)
    BY DEF RepairUnderFreeze
  <2>1. CtlInv /\ RestOK  BY TypeIsRest DEF IInv
  <2>2. Repaired \subseteq Modules /\ m \in Repaired  BY <2>1 DEF Repaired, Open, RestOK
  <2>3. IsFiniteSet(Repaired) /\ Cardinality(Repaired) \in Nat  BY <2>2, RepairedFinite
  <2>4. Cardinality(Repaired) # 0  BY <2>2, <2>3, FS_EmptySet
  <2>5. Count(ctl.stack, "supervisor") \in Nat  BY <2>1, CountType DEF CtlInv
  <2>6. Count(ctl.stack, "supervisor") > 0  BY <2>3, <2>4, <2>5 DEF IInv, FreezesInv
  <2> QED  BY <2>1, <2>6, CountType DEF CtlInv
<1> QED  BY <1>1, <1>2, <1>3, PTL DEF Spec

(* A recovery, an escalation or a crash of the supervisor never lifts the  *)
(* freeze of another holder.                                               *)
THEOREM SupervisorKeepsForeignFreezes == Spec => ForeignFreezesKept
<1> DEFINE Kept == Poll => Holders(ctl) \ {"supervisor"} \subseteq Holders(ctl')
<1>1. CtlInv /\ [Next]_vars => [Kept]_vars
  <2> SUFFICES ASSUME CtlInv, Poll PROVE Holders(ctl) \ {"supervisor"} \subseteq Holders(ctl')
    OBVIOUS
  <2>1. CASE PollFreeze  BY <2>1, FreezeKeepsCtl
  <2>2. CASE PollRecovered  BY <2>2, RecoveryKeepsCtl
  <2>3. CASE ~PollFreeze /\ ~PollRecovered  BY <2>3, OtherPollsKeepCtl
  <2> QED  BY <2>1, <2>2, <2>3
<1>2. Init => CtlInv  BY InitType DEF TypeInv
<1>3. CtlInv /\ [Next]_vars => CtlInv'  BY CtlStep
<1>4. ForeignFreezesKept <=> [][Kept]_vars  BY DEF ForeignFreezesKept
<1> HIDE DEF Kept
<1> QED  BY <1>1, <1>2, <1>3, <1>4, PTL DEF Spec
=============================================================================
