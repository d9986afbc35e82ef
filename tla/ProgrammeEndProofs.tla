------------------------- MODULE ProgrammeEndProofs -------------------------
(***************************************************************************)
(* For any other holders, any number of requests and boots: the preserve   *)
(* watcher, with the programme watcher beside it, captures only under a    *)
(* freeze of its own, never holds the cycle twice, and takes no request up *)
(* whose result is on disk; and the composition of the two makes only      *)
(* steps the preserve watcher's own specification allows.                  *)
(***************************************************************************)
EXTENDS ProgrammeEnd, ControlStateTheorems

CtlInv == WellFormed(ctl) /\ ctl.readable

(* The types, but for the file. *)
PreserveRestOK ==
  /\ paused \in BOOLEAN
  /\ proc \in {"running", "stopping", "down"}
  /\ boots \in 0 .. MaxBoots
  /\ request \in Requests /\ current \in Requests
  /\ result \in [id : Ids, ok : BOOLEAN]
  /\ pc \in {"poll", "pausing", "preserving"}
  /\ lastHandled \in Ids /\ releasePending \in BOOLEAN
  /\ answered \subseteq Ids

(* The watcher holds one entry while it handles a request, and none between *)
(* requests, but for a release that is still to be retried.                 *)
HoldInv ==
  /\ Count(ctl.stack, "preserve") <= 1
  /\ pc # "poll" => Count(ctl.stack, "preserve") = 1
  /\ (proc = "running" /\ pc = "poll" /\ ~releasePending) => Count(ctl.stack, "preserve") = 0

(* Ids only grow: answered <= result <= handled <= requested. *)
IdInv ==
  /\ \A i \in answered : i <= result.id
  /\ result.id <= request.id
  /\ proc # "down" => result.id <= lastHandled /\ lastHandled <= request.id
  /\ pc # "poll" => /\ proc = "running"
                    /\ lastHandled <= current.id /\ current.id <= request.id

PInv == CtlInv /\ PreserveRestOK /\ HoldInv /\ IdInv

LEMMA PreserveTypes == CtlInv /\ PreserveRestOK => PreserveTypeOK
BY DEF CtlInv, PreserveRestOK, PreserveTypeOK, WellFormed, ListOfEntries

LEMMA HoldCount == CtlInv => Count(ctl.stack, "preserve") \in Nat
BY CountType DEF CtlInv

LEMMA IdTypes ==
  ASSUME PreserveRestOK
  PROVE  /\ request.id \in Nat /\ result.id \in Nat /\ current.id \in Nat /\ lastHandled \in Nat
         /\ \A i \in answered : i \in Nat
BY PreserveWatchAssumption DEF PreserveRestOK, Requests, Ids

-----------------------------------------------------------------------------
(* Steps of anyone else: a file with as many preserve entries as before, and *)
(* at most a newer request.                                                  *)
ElsewhereStep ==
  /\ CtlInv' /\ Count(ctl'.stack, "preserve") = Count(ctl.stack, "preserve")
  /\ request' \in Requests /\ request'.id >= request.id
  /\ paused' \in BOOLEAN
  /\ UNCHANGED <<proc, boots, result, watcher, answered>>

LEMMA ElsewhereKeeps ==
  ASSUME PInv, ElsewhereStep
  PROVE  PInv'
<1>1. PreserveRestOK'  BY DEF PInv, PreserveRestOK, ElsewhereStep, watcher
<1>2. HoldInv'  BY DEF PInv, HoldInv, ElsewhereStep, watcher
<1>3. IdInv'
  <2>1. request'.id \in Nat  BY <1>1, PreserveWatchAssumption DEF PreserveRestOK, Requests, Ids
  <2> QED  BY <2>1, IdTypes DEF PInv, IdInv, ElsewhereStep, watcher
<1> QED  BY <1>1, <1>2, <1>3 DEF PInv, ElsewhereStep

LEMMA PushElsewhere ==
  ASSUME CtlInv, NEW source \in Sources \ {"preserve"}, ctl' = push_freeze(ctl, source)
  PROVE  CtlInv' /\ Count(ctl'.stack, "preserve") = Count(ctl.stack, "preserve")
<1>1. source \in Sources /\ source # "preserve"  OBVIOUS
<1>2. WellFormed(ctl)'  BY <1>1, PushFreeze DEF CtlInv
<1>3. /\ push_freeze(ctl, source).readable
      /\ Count(push_freeze(ctl, source).stack, "preserve") = Count(ctl.stack, "preserve")
  BY <1>1, PushCount DEF CtlInv
<1> QED  BY <1>2, <1>3 DEF CtlInv

LEMMA LiftElsewhere ==
  ASSUME CtlInv, NEW source \in Sources \ {"preserve"}, ctl' = stand_down(ctl, source)
  PROVE  CtlInv' /\ Count(ctl'.stack, "preserve") = Count(ctl.stack, "preserve")
<1>1. WellFormed(ctl)'  BY StandDown DEF CtlInv
<1>2. /\ stand_down(ctl, source).readable
      /\ Count(stand_down(ctl, source).stack, "preserve") = Count(ctl.stack, "preserve")
  <2>1. "preserve" # source  OBVIOUS
  <2>2. WellFormed(ctl) /\ ctl.readable  BY DEF CtlInv
  <2>3. stand_down(ctl, source).readable  BY <2>2, StandDownCount, Zenon
  <2>4. \A other : other # source =>
          Count(stand_down(ctl, source).stack, other) = Count(ctl.stack, other)
    BY <2>2, StandDownCount, Zenon
  <2> QED  BY <2>1, <2>3, <2>4, Zenon
<1> QED  BY <1>1, <1>2 DEF CtlInv

(* An override of programme_end is a stand-down of it. *)
LEMMA OverrideLiftsEnd ==
  ASSUME CtlInv
  PROVE  override(ctl, {"programme_end"}) = stand_down(ctl, "programme_end")
<1>1. {e \in ctl.stack : e.source \notin {"programme_end"}} = {e \in ctl.stack : e.source # "programme_end"}
  OBVIOUS
<1> QED  BY <1>1 DEF CtlInv, override, stand_down, update_stack

LEMMA OthersAreElsewhere ==
  ASSUME PInv,
         \/ \E stop \in BOOLEAN : WriteRequest(stop)
         \/ \E source \in Others : OtherFreeze(source) \/ OtherRelease(source)
         \/ FreezeWatch
         \/ UNCHANGED preserveVars
  PROVE  ElsewhereStep
<1>1. CtlInv /\ PreserveRestOK /\ request.id \in Nat  BY IdTypes DEF PInv
<1>2. ASSUME NEW stop \in BOOLEAN, WriteRequest(stop) PROVE ElsewhereStep
  <2>1. request.id + 1 \in Ids
    BY <1>1, <1>2, PreserveWatchAssumption DEF WriteRequest, Ids
  <2>2. request' \in Requests /\ request'.id = request.id + 1
    BY <1>2, <2>1 DEF WriteRequest, Requests
  <2>3. UNCHANGED <<ctl, paused, proc, boots, result, watcher, answered>>
    BY <1>2 DEF WriteRequest
  <2>4. CtlInv' /\ Count(ctl'.stack, "preserve") = Count(ctl.stack, "preserve")
    BY <1>1, <2>3 DEF CtlInv
  <2> QED  BY <1>1, <2>2, <2>3, <2>4 DEF ElsewhereStep, PreserveRestOK
<1>3. ASSUME NEW source \in Others, OtherFreeze(source) \/ OtherRelease(source)
      PROVE  ElsewhereStep
  <2>1. source \in Sources \ {"preserve"}  BY PreserveWatchAssumption
  <2>2. ctl' = push_freeze(ctl, source) \/ ctl' = stand_down(ctl, source)
    BY <1>3 DEF OtherFreeze, OtherRelease
  <2>3. CtlInv' /\ Count(ctl'.stack, "preserve") = Count(ctl.stack, "preserve")
    BY <1>1, <2>1, <2>2, PushElsewhere, LiftElsewhere
  <2>4. UNCHANGED <<paused, proc, boots, request, result, watcher, answered>>
    BY <1>3 DEF OtherFreeze, OtherRelease, filesVars
  <2> QED  BY <1>1, <2>3, <2>4 DEF ElsewhereStep, PreserveRestOK
<1>4. CASE FreezeWatch
  <2>1. paused' \in BOOLEAN  BY <1>4 DEF FreezeWatch, Frozen
  <2>2. UNCHANGED <<ctl, proc, boots, request, result, watcher, answered>>
    BY <1>4 DEF FreezeWatch, filesVars
  <2>3. CtlInv' /\ Count(ctl'.stack, "preserve") = Count(ctl.stack, "preserve")
    BY <1>1, <2>2 DEF CtlInv
  <2> QED  BY <1>1, <2>1, <2>2, <2>3 DEF ElsewhereStep, PreserveRestOK
<1>5. CASE UNCHANGED preserveVars
  BY <1>1, <1>5 DEF preserveVars, ElsewhereStep, PreserveRestOK, CtlInv, watcher
<1> QED  BY <1>2, <1>3, <1>4, <1>5
-----------------------------------------------------------------------------
(* Steps of the watcher, of a crash and of a boot. *)

LEMMA PopPreserve ==
  ASSUME CtlInv, HoldInv, ctl' = pop_freeze(ctl, "preserve")
  PROVE  CtlInv' /\ Count(ctl'.stack, "preserve") = 0
<1>1. WellFormed(ctl)'  BY PopFreeze DEF CtlInv
<1>2. /\ pop_freeze(ctl, "preserve").readable
      /\ Count(pop_freeze(ctl, "preserve").stack, "preserve") = 0
  BY PopCount DEF CtlInv, HoldInv
<1> QED  BY <1>1, <1>2 DEF CtlInv

LEMMA RetryKeeps ==
  ASSUME PInv, RetryRelease
  PROVE  PInv'
<1>1. CtlInv' /\ Count(ctl'.stack, "preserve") = 0
  BY PopPreserve DEF PInv, RetryRelease
<1>2. UNCHANGED <<paused, proc, boots, request, result, pc, current, lastHandled, answered>>
      /\ releasePending' = FALSE /\ pc = "poll"
  BY DEF RetryRelease, filesVars, Polling
<1>3. PreserveRestOK'  BY <1>2 DEF PInv, PreserveRestOK
<1>4. HoldInv'  BY <1>1, <1>2 DEF HoldInv
<1>5. IdInv'  BY <1>2 DEF PInv, IdInv
<1> QED  BY <1>1, <1>3, <1>4, <1>5 DEF PInv

(* A request taken up is newer than every answered one. *)
LEMMA BeginKeeps ==
  ASSUME PInv, BeginRequest
  PROVE  PInv' /\ current'.id \notin answered
<1>1. /\ proc = "running" /\ pc = "poll" /\ ~releasePending /\ request.id # lastHandled
      /\ current' = request /\ pc' = "pausing" /\ ctl' = push_freeze(ctl, "preserve")
      /\ UNCHANGED <<paused, proc, boots, request, result, lastHandled, releasePending, answered>>
  BY DEF BeginRequest, Polling, filesVars
<1>2. "preserve" \in Sources  BY DEF Sources
<1>3. Count(ctl.stack, "preserve") = 0  BY <1>1 DEF PInv, HoldInv
<1>4. WellFormed(ctl)'  BY <1>1, <1>2, PushFreeze DEF PInv, CtlInv
<1>5. ctl'.readable /\ Count(ctl'.stack, "preserve") = 1
  BY <1>1, <1>2, <1>3, PushCount DEF PInv, CtlInv
<1>6. PreserveRestOK'  BY <1>1 DEF PInv, PreserveRestOK
<1>7. HoldInv'  BY <1>1, <1>5 DEF HoldInv
<1>8. lastHandled <= request.id /\ result.id <= lastHandled  BY <1>1 DEF PInv, IdInv
<1>9. \A i \in answered : i # request.id
  BY <1>1, <1>8, IdTypes DEF PInv, IdInv
<1>10. IdInv'  BY <1>1, <1>8, IdTypes DEF PInv, IdInv
<1> QED  BY <1>1, <1>4, <1>5, <1>6, <1>7, <1>9, <1>10 DEF PInv, CtlInv

LEMMA PauseKeeps ==
  ASSUME PInv, PauseSeen
  PROVE  PInv'
<1>1. /\ pc = "pausing" /\ pc' = "preserving" /\ proc = "running"
      /\ UNCHANGED <<ctl, paused, proc, boots, request, result, current, lastHandled,
                     releasePending, answered>>
  BY DEF PauseSeen, filesVars
<1> QED  BY <1>1 DEF PInv, CtlInv, PreserveRestOK, HoldInv, IdInv

LEMMA FinishKeeps ==
  ASSUME PInv, NEW ok \in BOOLEAN, FinishRequest(ok)
  PROVE  PInv'
<1>1. /\ proc = "running" /\ pc = "preserving" /\ pc' = "poll" /\ lastHandled' = current.id
      /\ UNCHANGED <<paused, boots, request, current>>
      /\ \/ result' = [id |-> current.id, ok |-> ok] /\ answered' = answered \cup {current.id}
         \/ UNCHANGED <<result, answered>>
  BY DEF FinishRequest, HandledId
<1>2. \/ proc' = "stopping" /\ UNCHANGED <<ctl, releasePending>>
      \/ proc' = proc /\ ctl' = pop_freeze(ctl, "preserve") /\ releasePending' = FALSE
      \/ proc' = proc /\ ctl' = ctl /\ releasePending' = TRUE
  BY DEF FinishRequest, PendingAfter
<1>3. Count(ctl.stack, "preserve") = 1 /\ Count(ctl.stack, "preserve") \in Nat
  BY <1>1, HoldCount DEF PInv, HoldInv
<1>4. CtlInv' /\ HoldInv'
  <2>1. CASE proc' = "stopping" /\ UNCHANGED <<ctl, releasePending>>
    BY <1>1, <1>3, <2>1 DEF PInv, CtlInv, HoldInv
  <2>2. CASE proc' = proc /\ ctl' = pop_freeze(ctl, "preserve") /\ releasePending' = FALSE
    <3>1. CtlInv' /\ Count(ctl'.stack, "preserve") = 0  BY <2>2, PopPreserve DEF PInv
    <3> QED  BY <1>1, <3>1 DEF HoldInv
  <2>3. CASE proc' = proc /\ ctl' = ctl /\ releasePending' = TRUE
    BY <1>1, <1>3, <2>3 DEF PInv, CtlInv, HoldInv
  <2> QED  BY <1>2, <2>1, <2>2, <2>3
<1>5. current.id \in Ids /\ current \in Requests /\ request \in Requests
  BY DEF PInv, PreserveRestOK, Requests
<1>6. result' \in [id : Ids, ok : BOOLEAN] /\ answered' \subseteq Ids
  BY <1>1, <1>5 DEF PInv, PreserveRestOK
<1>7. PreserveRestOK'
  BY <1>1, <1>2, <1>5, <1>6 DEF PInv, PreserveRestOK
<1>8. result.id <= lastHandled /\ lastHandled <= current.id /\ current.id <= request.id
  BY <1>1 DEF PInv, IdInv
<1>9. \A i \in answered : i <= current.id  BY <1>8, IdTypes DEF PInv, IdInv
<1>10. IdInv'
  <2>1. CASE result' = [id |-> current.id, ok |-> ok] /\ answered' = answered \cup {current.id}
    BY <1>1, <1>8, <1>9, <2>1, IdTypes DEF PInv, IdInv
  <2>2. CASE UNCHANGED <<result, answered>>
    BY <1>1, <1>8, <2>2, IdTypes DEF PInv, IdInv
  <2> QED  BY <1>1, <2>1, <2>2
<1> QED  BY <1>4, <1>7, <1>10 DEF PInv

LEMMA WatcherKeeps ==
  ASSUME PInv, Watcher
  PROVE  PInv'
BY RetryKeeps, BeginKeeps, PauseKeeps, FinishKeeps DEF Watcher

(* A crash forgets the watcher's state and leaves what it holds in the file. *)
LEMMA DownKeeps ==
  ASSUME PInv, Down
  PROVE  PInv'
<1>1. /\ proc' = "down" /\ paused' = FALSE /\ pc' = "poll" /\ current' = NoRequest
      /\ lastHandled' = 0 /\ releasePending' = FALSE
      /\ UNCHANGED <<ctl, boots, request, result, answered>>
  BY DEF Down, filesVars
<1>2. 0 \in Ids /\ NoRequest \in Requests
  BY PreserveWatchAssumption DEF Ids, NoRequest, Requests
<1> QED  BY <1>1, <1>2 DEF PInv, CtlInv, PreserveRestOK, HoldInv, IdInv

(* A boot clears it and takes the last handled id from the result file. *)
LEMMA BootKeeps ==
  ASSUME PInv, Boot
  PROVE  PInv'
<1>1. /\ proc = "down" /\ boots < MaxBoots /\ proc' = "running" /\ boots' = boots + 1
      /\ ctl' = unfreeze_for_boot(ctl) /\ paused' = Frozen(ctl') /\ lastHandled' = result.id
      /\ UNCHANGED <<request, result, pc, current, releasePending, answered>>
  BY DEF Boot, filesVars, PriorHandled
<1>2. WellFormed(ctl)'  BY <1>1, UnfreezeForBoot DEF PInv, CtlInv
<1>3. /\ unfreeze_for_boot(ctl).readable
      /\ Count(unfreeze_for_boot(ctl).stack, "preserve") = 0
  BY BootCount DEF PInv, CtlInv
<1>4. pc = "poll"  BY <1>1 DEF PInv, IdInv, PreserveRestOK
<1>5. HoldInv'  BY <1>1, <1>3, <1>4 DEF HoldInv
<1>6. result.id \in Ids /\ paused' \in BOOLEAN /\ boots' \in 0 .. MaxBoots
  BY <1>1, PreserveWatchAssumption DEF PInv, PreserveRestOK, Frozen
<1>7. PreserveRestOK'  BY <1>1, <1>6 DEF PInv, PreserveRestOK
<1>8. IdInv'  BY <1>1, <1>4, IdTypes DEF PInv, IdInv
<1> QED  BY <1>1, <1>2, <1>3, <1>5, <1>7, <1>8 DEF PInv, CtlInv
-----------------------------------------------------------------------------
(* The programme watcher beside it. *)

EndRestOK ==
  /\ ended \in BOOLEAN
  /\ pe \in {"watching", "waiting", "done", "unfrozen"}
  /\ peId \in Ids
  /\ overrides \in 0 .. MaxOverrides

(* Its freeze is placed once in a run, as its last act. *)
EndInv ==
  /\ "programme_end" \in Holders(ctl) => proc = "down" \/ pe = "done"
  /\ EndRestOK

IInv == PInv /\ EndInv

LEMMA EndSource ==
  /\ "programme_end" \in Sources \ {"preserve"}
  /\ "programme_end" \notin Others /\ "preserve" \notin Others /\ Others \subseteq Sources
BY PreserveWatchAssumption, ProgrammeEndAssumption DEF Sources

LEMMA RequestIsElsewhere ==
  ASSUME PInv, EndRequest
  PROVE  ElsewhereStep /\ ctl' = ctl /\ peId' \in Ids /\ pe' = "waiting"
<1>1. CtlInv /\ PreserveRestOK /\ request.id \in Nat  BY IdTypes DEF PInv
<1>2. request.id + 1 \in Ids  BY <1>1, PreserveWatchAssumption DEF EndRequest, Ids
<1>3. request' \in Requests /\ request'.id = request.id + 1 /\ peId' = request.id + 1
  BY <1>2 DEF EndRequest, Requests
<1>4. UNCHANGED <<ctl, paused, proc, boots, result, watcher, answered>> /\ pe' = "waiting"
  BY DEF EndRequest
<1>5. CtlInv' /\ Count(ctl'.stack, "preserve") = Count(ctl.stack, "preserve")
  BY <1>1, <1>4 DEF CtlInv
<1> QED  BY <1>1, <1>2, <1>3, <1>4, <1>5 DEF ElsewhereStep, PreserveRestOK

LEMMA FreezeIsElsewhere ==
  ASSUME PInv, EndRequestFails \/ EndFails
  PROVE  /\ ElsewhereStep /\ proc # "down" /\ pe \in {"watching", "waiting"}
         /\ UNCHANGED <<paused, proc, boots, filesVars, watcher, answered, ended, peId, overrides>>
         /\ \/ pe' = "done" /\ ctl' = push_freeze(ctl, "programme_end")
            \/ pe' = "unfrozen" /\ ctl' = ctl
<1>1. CtlInv /\ PreserveRestOK /\ request.id \in Nat  BY IdTypes DEF PInv
<1>2. /\ proc # "down" /\ pe \in {"watching", "waiting"}
      /\ UNCHANGED <<paused, proc, boots, filesVars, watcher, answered, ended, peId, overrides>>
  BY DEF EndRequestFails, EndFails
<1>3. \/ pe' = "done" /\ ctl' = push_freeze(ctl, "programme_end")
      \/ pe' = "unfrozen" /\ ctl' = ctl
  BY DEF EndRequestFails, EndFails, FreezeWithoutSenses
<1>4. CtlInv' /\ Count(ctl'.stack, "preserve") = Count(ctl.stack, "preserve")
  <2>1. CASE ctl' = push_freeze(ctl, "programme_end")  BY <1>1, <2>1, PushElsewhere, EndSource
  <2>2. CASE ctl' = ctl  BY <1>1, <2>2 DEF CtlInv
  <2> QED  BY <1>3, <2>1, <2>2
<1>5. ElsewhereStep  BY <1>1, <1>2, <1>4 DEF ElsewhereStep, PreserveRestOK, filesVars
<1> QED  BY <1>2, <1>3, <1>5

LEMMA OverrideIsElsewhere ==
  ASSUME PInv, Override
  PROVE  /\ ElsewhereStep /\ ctl' = stand_down(ctl, "programme_end")
         /\ "programme_end" \in Holders(ctl)
         /\ UNCHANGED <<paused, proc, boots, filesVars, watcher, answered, ended, pe, peId>>
<1>1. CtlInv /\ PreserveRestOK /\ request.id \in Nat  BY IdTypes DEF PInv
<1>2. /\ ctl' = stand_down(ctl, "programme_end")
      /\ UNCHANGED <<paused, proc, boots, filesVars, watcher, answered, ended, pe, peId>>
  BY <1>1, OverrideLiftsEnd DEF Override
<1>3. CtlInv' /\ Count(ctl'.stack, "preserve") = Count(ctl.stack, "preserve")
  BY <1>1, <1>2, LiftElsewhere, EndSource
<1>4. "programme_end" \in Holders(ctl)
  BY <1>1 DEF Override, can_override, CtlInv, Holders, read_control
<1> QED  BY <1>1, <1>2, <1>3, <1>4 DEF ElsewhereStep, PreserveRestOK, filesVars

LEMMA PreserveStep ==
  ASSUME PInv, [Next]_vars
  PROVE  PInv'
<1>1. CASE OthersNext
  BY <1>1, OthersAreElsewhere, ElsewhereKeeps, WatcherKeeps, BootKeeps DEF OthersNext
<1>2. CASE ProgrammeEnds \/ EndPreserved \/ UNCHANGED vars
  <2>1. UNCHANGED preserveVars  BY <1>2 DEF ProgrammeEnds, EndPreserved, vars
  <2> QED  BY <2>1, OthersAreElsewhere, ElsewhereKeeps
<1>3. CASE EndRequest  BY <1>3, RequestIsElsewhere, ElsewhereKeeps
<1>4. CASE EndRequestFails \/ EndFails  BY <1>4, FreezeIsElsewhere, ElsewhereKeeps
<1>5. CASE Override  BY <1>5, OverrideIsElsewhere, ElsewhereKeeps
<1>6. CASE Restart  BY <1>6, DownKeeps DEF Restart
<1> QED  BY <1>1, <1>2, <1>3, <1>4, <1>5, <1>6 DEF Next, Ending

(* Nobody else places its freeze, and a boot clears it. *)
LEMMA EndHolders ==
  ASSUME PInv, OthersNext, "programme_end" \in Holders(ctl')
  PROVE  "programme_end" \in Holders(ctl) /\ (proc = "down" => proc' = "down")
<1>1. CtlInv /\ WellFormed(ctl) /\ ctl.readable  BY DEF PInv, CtlInv
<1>2. ASSUME UNCHANGED <<ctl, proc>> PROVE "programme_end" \in Holders(ctl) /\ (proc = "down" => proc' = "down")
  BY <1>2
<1>3. CASE (\E stop \in BOOLEAN : WriteRequest(stop)) \/ FreezeWatch \/ PauseSeen
  BY <1>2, <1>3 DEF WriteRequest, FreezeWatch, PauseSeen
<1>4. ASSUME NEW source \in Others, OtherFreeze(source)
      PROVE  "programme_end" \in Holders(ctl) /\ (proc = "down" => proc' = "down")
  <2>1. ctl' = push_freeze(ctl, source) /\ proc' = proc  BY <1>4 DEF OtherFreeze
  <2>2. source \in Sources /\ source # "programme_end"  BY EndSource
  <2>3. Holders(ctl') = Holders(ctl) \cup {source}  BY <1>1, <2>1, <2>2, PushFreeze
  <2> QED  BY <2>1, <2>2, <2>3
<1>5. ASSUME NEW source \in Others, OtherRelease(source)
      PROVE  "programme_end" \in Holders(ctl) /\ (proc = "down" => proc' = "down")
  <2>1. ctl' = stand_down(ctl, source) /\ proc' = proc  BY <1>5 DEF OtherRelease
  <2>2. Holders(ctl') = Holders(ctl) \ {source}  BY <1>1, <2>1, StandDown
  <2> QED  BY <2>1, <2>2
<1>6. CASE BeginRequest
  <2>1. ctl' = push_freeze(ctl, "preserve") /\ proc' = proc  BY <1>6 DEF BeginRequest
  <2>2. Holders(ctl') = Holders(ctl) \cup {"preserve"}
    BY <1>1, <2>1, PushFreeze DEF Sources
  <2> QED  BY <2>1, <2>2
<1>7. CASE RetryRelease \/ \E ok \in BOOLEAN : FinishRequest(ok)
  <2>1. proc = "running" /\ (ctl' = ctl \/ ctl' = pop_freeze(ctl, "preserve"))
    BY <1>7 DEF RetryRelease, Polling, FinishRequest
  <2>2. Holders(pop_freeze(ctl, "preserve")) \subseteq Holders(ctl)  BY <1>1, PopFreeze
  <2> QED  BY <2>1, <2>2
<1>8. CASE Boot
  <2>1. ctl' = unfreeze_for_boot(ctl)  BY <1>8 DEF Boot
  <2>2. Holders(ctl') = Holders(ctl) \cap {"welfare"}  BY <1>1, <2>1, UnfreezeForBoot
  <2> QED  BY <2>2
<1> QED  BY <1>3, <1>4, <1>5, <1>6, <1>7, <1>8 DEF OthersNext, Watcher

LEMMA EndStep ==
  ASSUME PInv, EndInv, [Next]_vars
  PROVE  EndInv'
<1>1. CtlInv /\ WellFormed(ctl) /\ ctl.readable /\ PreserveRestOK
  BY DEF PInv, CtlInv
<1>2. CASE OthersNext
  <2>1. UNCHANGED <<ended, pe, peId, overrides>>  BY <1>2 DEF OthersNext, peVars
  <2>2. "programme_end" \in Holders(ctl') => proc' = "down" \/ pe' = "done"
    BY <1>2, <2>1, EndHolders DEF EndInv
  <2> QED  BY <2>1, <2>2 DEF EndInv, EndRestOK
<1>3. CASE ProgrammeEnds \/ UNCHANGED vars
  BY <1>3 DEF ProgrammeEnds, vars, preserveVars, peVars, EndInv, EndRestOK
<1>4. CASE EndPreserved
  BY <1>4 DEF EndPreserved, EndInv, EndRestOK
<1>5. CASE EndRequest
  <2>1. ctl' = ctl /\ peId' \in Ids /\ pe' = "waiting"  BY <1>5, RequestIsElsewhere DEF PInv
  <2>2. pe = "watching" /\ proc = "running" /\ UNCHANGED <<proc, ended, overrides>>
    BY <1>5 DEF EndRequest
  <2> QED  BY <2>1, <2>2 DEF EndInv, EndRestOK
<1>6. CASE EndRequestFails \/ EndFails
  <2>1. /\ proc # "down" /\ pe \in {"watching", "waiting"}
        /\ UNCHANGED <<proc, ended, peId, overrides>>
        /\ \/ pe' = "done" /\ ctl' = push_freeze(ctl, "programme_end")
           \/ pe' = "unfrozen" /\ ctl' = ctl
    BY <1>6, FreezeIsElsewhere
  <2> QED  BY <2>1 DEF EndInv, EndRestOK
<1>7. CASE Override
  <2>1. ctl' = stand_down(ctl, "programme_end") /\ UNCHANGED <<ended, pe, peId>>
    BY <1>7, OverrideIsElsewhere
  <2>2. Holders(ctl') = Holders(ctl) \ {"programme_end"}  BY <1>1, <2>1, StandDown
  <2>3. overrides' \in 0 .. MaxOverrides
    BY <1>7, ProgrammeEndAssumption DEF Override, EndInv, EndRestOK
  <2> QED  BY <2>1, <2>2, <2>3 DEF EndInv, EndRestOK
<1>8. CASE Restart
  <2>1. proc' = "down" /\ ended' = FALSE /\ pe' = "watching" /\ peId' = 0 /\ overrides' = overrides
    BY <1>8 DEF Restart, Down
  <2>2. 0 \in Ids  BY PreserveWatchAssumption DEF Ids
  <2> QED  BY <2>1, <2>2 DEF EndInv, EndRestOK
<1> QED  BY <1>2, <1>3, <1>4, <1>5, <1>6, <1>7, <1>8 DEF Next, Ending

LEMMA InitInv == Init => IInv
<1> SUFFICES ASSUME Init PROVE IInv
  OBVIOUS
<1>1. ListOfEntries({})  BY FS_EmptySet DEF ListOfEntries, IsList
<1>2. WellFormed(Readable({})) /\ Readable({}).readable /\ Readable({}).stack = {}
  BY <1>1 DEF WellFormed, Readable, ControlFiles
<1>3. CtlInv /\ ctl.stack = {}  BY <1>2 DEF Init, PreserveInit, CtlInv
<1>4. EntriesOf({}, "preserve") = {}  BY DEF EntriesOf
<1>5. Count(ctl.stack, "preserve") = 0  BY <1>3, <1>4, FS_EmptySet DEF Count
<1>6. Holders(ctl) = {}  BY <1>3 DEF CtlInv, Holders, HoldersOf, read_control
<1>7. 0 \in Ids /\ NoRequest \in Requests /\ NoResult \in [id : Ids, ok : BOOLEAN]
      /\ 0 \in 0 .. MaxBoots /\ 0 \in 0 .. MaxOverrides
  BY PreserveWatchAssumption, ProgrammeEndAssumption DEF Ids, NoRequest, NoResult, Requests
<1>8. PreserveRestOK  BY <1>7 DEF Init, PreserveInit, PreserveRestOK
<1>9. HoldInv  BY <1>5 DEF Init, PreserveInit, HoldInv
<1>10. IdInv  BY DEF Init, PreserveInit, IdInv, NoRequest, NoResult
<1>11. EndInv  BY <1>6, <1>7 DEF Init, EndInv, EndRestOK
<1> QED  BY <1>3, <1>8, <1>9, <1>10, <1>11 DEF IInv, PInv

LEMMA StepInv == IInv /\ [Next]_vars => IInv'
BY PreserveStep, EndStep DEF IInv

-----------------------------------------------------------------------------
THEOREM TypeCorrect == Spec => []TypeOK
<1>1. IInv => TypeOK
  BY PreserveTypes DEF IInv, PInv, TypeOK, EndInv, EndRestOK
<1> QED  BY <1>1, InitInv, StepInv, PTL DEF Spec

(* A live entity is captured only while its cycle is frozen in the watcher's *)
(* name, whoever else lets go meanwhile, and the watcher never holds it      *)
(* twice, whatever release raised before.                                    *)
THEOREM CaptureIsFrozen == Spec => []CapturedUnderOneFreeze
<1>1. IInv /\ pc # "poll" => "preserve" \in Holders(ctl)
  <2> SUFFICES ASSUME IInv, pc # "poll" PROVE "preserve" \in Holders(ctl)
    OBVIOUS
  <2>1. Count(ctl.stack, "preserve") > 0  BY DEF IInv, PInv, HoldInv
  <2> QED  BY <2>1, CountType DEF IInv, PInv, CtlInv
<1>2. IInv => Cardinality({e \in ctl.stack : e.source = "preserve"}) <= 1
  BY DEF IInv, PInv, HoldInv, Count, EntriesOf
<1>3. IInv => CapturedUnderOneFreeze
  BY <1>1, <1>2 DEF CapturedUnderOneFreeze
<1> QED  BY <1>3, InitInv, StepInv, PTL DEF Spec

(* A request whose result is on disk is not taken up again, by a later poll *)
(* or after a restart.                                                      *)
THEOREM AnsweredOnce == Spec => NeverAnsweredTwice
<1> DEFINE Once == pc = "poll" /\ pc' = "pausing" => current'.id \notin answered
<1>1. IInv /\ [Next]_vars => [Once]_preserveVars
  <2> SUFFICES ASSUME IInv, [Next]_vars, pc = "poll", pc' = "pausing"
               PROVE  current'.id \notin answered
    OBVIOUS
  <2>1. BeginRequest
    BY DEF Next, OthersNext, WriteRequest, OtherFreeze, OtherRelease, FreezeWatch, Watcher,
           RetryRelease, PauseSeen, FinishRequest, Boot, Down, Restart, ProgrammeEnds, Ending,
           EndRequest, EndRequestFails, EndPreserved, EndFails, Override, vars, preserveVars, watcher
  <2> QED  BY <2>1, BeginKeeps DEF IInv
<1>2. NeverAnsweredTwice <=> [][Once]_preserveVars  BY DEF NeverAnsweredTwice
<1> HIDE DEF Once
<1> QED  BY <1>1, <1>2, InitInv, StepInv, PTL DEF Spec
-----------------------------------------------------------------------------
(* Every step of the composition is one the preserve watcher's own           *)
(* specification allows, with programme_end among its other holders, or      *)
(* leaves that component alone.                                              *)

(* The instance's own copy of the control file's operations. *)
LEMMA SameControl ==
  /\ \A file : Preserve!Holders(file) = Holders(file) /\ Preserve!Frozen(file) = Frozen(file)
  /\ \A file, source : /\ Preserve!push_freeze(file, source) = push_freeze(file, source)
                       /\ Preserve!pop_freeze(file, source) = pop_freeze(file, source)
                       /\ Preserve!stand_down(file, source) = stand_down(file, source)
  /\ \A file : Preserve!unfreeze_for_boot(file) = unfreeze_for_boot(file)
  /\ Preserve!Readable({}) = Readable({})
<1>0. \A S : Preserve!Cardinality(S) = Cardinality(S)
  BY Zenon DEF Preserve!Cardinality, Cardinality
<1>1. \A file, stack : Preserve!update_stack(file, stack) = update_stack(file, stack)
  BY DEF Preserve!update_stack, update_stack, Preserve!Readable, Readable
<1>2. \A stack : Preserve!Ranked(stack) = Ranked(stack)
  BY <1>0 DEF Preserve!Ranked, Ranked
<1>3. \A file : Preserve!Holders(file) = Holders(file) /\ Preserve!Frozen(file) = Frozen(file)
  BY DEF Preserve!Holders, Preserve!Frozen, Preserve!HoldersOf, Preserve!read_control,
         Preserve!fail_closed_state, Holders, Frozen, HoldersOf, read_control, fail_closed_state
<1>4. \A file, source : Preserve!push_freeze(file, source) = push_freeze(file, source)
  BY <1>0, <1>1 DEF Preserve!push_freeze, push_freeze
<1>5. \A file, source : Preserve!pop_freeze(file, source) = pop_freeze(file, source)
  BY <1>1, <1>2 DEF Preserve!pop_freeze, pop_freeze
<1>6. \A file, source : Preserve!stand_down(file, source) = stand_down(file, source)
  BY <1>1, <1>2 DEF Preserve!stand_down, stand_down
<1>7. \A file : Preserve!unfreeze_for_boot(file) = unfreeze_for_boot(file)
  BY <1>1, <1>2 DEF Preserve!unfreeze_for_boot, unfreeze_for_boot
<1>8. Preserve!Readable({}) = Readable({})  BY DEF Preserve!Readable, Readable
<1> QED  BY <1>3, <1>4, <1>5, <1>6, <1>7, <1>8

LEMMA StepRefines ==
  ASSUME IInv, [Next]_vars
  PROVE  [Preserve!PreserveNext]_preserveVars
<1> USE DEF Preserve!PreserveNext, Preserve!preserveVars, Preserve!watcher, Preserve!filesVars,
            preserveVars, watcher, filesVars
<1>1. ASSUME NEW stop \in BOOLEAN, WriteRequest(stop) PROVE Preserve!WriteRequest(stop)
  BY <1>1 DEF WriteRequest, Preserve!WriteRequest
<1>2. ASSUME NEW source \in Others \cup {"programme_end"}, OtherFreeze(source)
      PROVE  Preserve!OtherFreeze(source)
  BY <1>2, SameControl DEF OtherFreeze, Preserve!OtherFreeze
<1>3. ASSUME NEW source \in Others \cup {"programme_end"}, OtherRelease(source)
      PROVE  Preserve!OtherRelease(source)
  BY <1>3, SameControl DEF OtherRelease, Preserve!OtherRelease
<1>4. FreezeWatch => Preserve!FreezeWatch  BY SameControl DEF FreezeWatch, Preserve!FreezeWatch
<1>5. Watcher => Preserve!Watcher
  <2>1. RetryRelease => Preserve!RetryRelease
    BY SameControl DEF RetryRelease, Preserve!RetryRelease, Polling, Preserve!Polling
  <2>2. BeginRequest => Preserve!BeginRequest
    BY SameControl DEF BeginRequest, Preserve!BeginRequest, Polling, Preserve!Polling
  <2>3. PauseSeen => Preserve!PauseSeen  BY DEF PauseSeen, Preserve!PauseSeen
  <2>4. ASSUME NEW ok \in BOOLEAN, FinishRequest(ok) PROVE Preserve!FinishRequest(ok)
    BY <2>4, SameControl
       DEF FinishRequest, Preserve!FinishRequest, PendingAfter, Preserve!PendingAfter,
           HandledId, Preserve!HandledId
  <2> QED  BY <2>1, <2>2, <2>3, <2>4 DEF Watcher, Preserve!Watcher
<1>6. Boot => Preserve!Boot  BY SameControl DEF Boot, Preserve!Boot, PriorHandled, Preserve!PriorHandled
<1>7. Down => Preserve!Down  BY DEF Down, Preserve!Down, NoRequest, Preserve!NoRequest
<1>8. CASE OthersNext
  BY <1>1, <1>2, <1>3, <1>4, <1>5, <1>6, <1>8 DEF OthersNext
<1>9. CASE ProgrammeEnds \/ EndPreserved \/ UNCHANGED vars
  BY <1>9 DEF ProgrammeEnds, EndPreserved, vars
<1>10. CASE EndRequest
  <2>1. WriteRequest(TRUE)  BY <1>10 DEF EndRequest, WriteRequest
  <2> QED  BY <1>1, <2>1
<1>11. CASE EndRequestFails \/ EndFails
  <2>1. /\ proc # "down" /\ pe \in {"watching", "waiting"}
        /\ UNCHANGED <<paused, proc, boots, filesVars, watcher, answered>>
        /\ \/ ctl' = push_freeze(ctl, "programme_end")
           \/ ctl' = ctl
    BY <1>11, FreezeIsElsewhere DEF IInv
  <2>2. "programme_end" \notin Holders(ctl)  BY <2>1 DEF IInv, EndInv
  <2>3. CASE ctl' = ctl  BY <2>1, <2>3
  <2>4. CASE ctl' = push_freeze(ctl, "programme_end")
    <3>1. OtherFreeze("programme_end")  BY <2>1, <2>2, <2>4 DEF OtherFreeze
    <3> QED  BY <1>2, <3>1
  <2> QED  BY <2>1, <2>3, <2>4
<1>12. CASE Override
  <2>1. OtherRelease("programme_end")
    BY <1>12, OverrideIsElsewhere DEF IInv, OtherRelease
  <2> QED  BY <1>3, <2>1
<1>13. CASE Restart  BY <1>7, <1>13 DEF Restart
<1> QED  BY <1>8, <1>9, <1>10, <1>11, <1>12, <1>13 DEF Next, Ending

THEOREM RefinesPreserveWatch ==
  Spec => Preserve!PreserveInit /\ [][Preserve!PreserveNext]_preserveVars
<1>1. Init => Preserve!PreserveInit
  BY SameControl DEF Init, PreserveInit, Preserve!PreserveInit, NoRequest, NoResult,
         Preserve!NoRequest, Preserve!NoResult
<1>2. IInv /\ [Next]_vars => [Preserve!PreserveNext]_preserveVars  BY StepRefines
<1> QED  BY <1>1, <1>2, InitInv, StepInv, PTL DEF Spec
=============================================================================
