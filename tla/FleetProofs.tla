---------------------------- MODULE FleetProofs ----------------------------
(***************************************************************************)
(* Proofs about Fleet, for any number of instances: type correctness, that  *)
(* nobody takes a lease away from the instance that holds it, and what the  *)
(* forced mode keeps.                                                       *)
(***************************************************************************)
EXTENDS Fleet, SequenceTheorems, TLAPS

\* The inductive invariant: what is published is a mode, so channels carry modes.
IndInv == TypeOK /\ Announced

-----------------------------------------------------------------------------
(* One lemma per group of actions. *)

\* A process starts, dies, or takes part in the election.
LEMMA IndElect ==
    ASSUME IndInv, NEW i \in Instance, Start(i) \/ Crash(i) \/ Elect(i)
    PROVE  IndInv'
<1> USE FleetAssumption DEF IndInv, TypeOK, Announced, GoTo, Pc, Mode
<1>1. CASE Start(i)
  BY <1>1 DEF Start, env
<1>2. CASE Crash(i)
  <2>1. channel' \in [Instance -> Seq({"offpeak", "peak"})]
    BY <1>2 DEF Crash
  <2>2. \A j \in Instance : Len(channel'[j]) <= MaxInFlight
    BY <1>2 DEF Crash
  <2>3. crashes' \in 0..MaxCrashes
    BY <1>2 DEF Crash
  <2> QED
    BY <1>2, <2>1, <2>2, <2>3 DEF Crash, env
<1>3. CASE TryLeaderLock(i)
  BY <1>3 DEF TryLeaderLock, env
<1>4. CASE StandDown(i)
  BY <1>4 DEF StandDown, env, redis
<1>5. CASE Release(i)
  BY <1>5 DEF Release, env
<1>6. CASE Resign(i)
  BY <1>6 DEF Resign, env, redis
<1> QED
  BY <1>1, <1>2, <1>3, <1>4, <1>5, <1>6 DEF Elect

\* What enterMode does to the variables it changes.
LEMMA EnterModeKeeps ==
    ASSUME IndInv, NEW i \in Instance, NEW m \in Mode, EnterMode(i, m)
    PROVE  /\ modeKey' \in Mode \cup {None}
           /\ mode' \in [Instance -> Mode]
           /\ announcing' \in [Instance -> Mode \cup {None}]
           /\ pc' \in [Instance -> Pc]
           /\ Announced'
<1>1. CASE UNCHANGED <<modeKey, pc, mode, announcing>>
  BY <1>1 DEF IndInv, TypeOK, Announced
<1>2. CASE /\ modeKey' = m
           /\ mode' = [mode EXCEPT ![i] = m]
           /\ announcing' = [announcing EXCEPT ![i] = m]
           /\ pc' = [pc EXCEPT ![i] = "publishing"]
  BY <1>2 DEF IndInv, TypeOK, Announced, Pc
<1> QED
  BY <1>1, <1>2 DEF EnterMode, GoTo

\* The duties of a leader.
LEMMA IndDuties ==
    ASSUME IndInv, NEW i \in Instance, Duties(i)
    PROVE  IndInv'
<1>1. "peak" \in Mode /\ "offpeak" \in Mode
  BY DEF Mode
<1>2. ASSUME NEW b \in BOOLEAN, EvaluateMode(i, b) PROVE IndInv'
  <2>1. /\ UNCHANGED <<modeKey, pc, mode, announcing>> \/ \E m \in Mode : EnterMode(i, m)
        /\ quiet' = quiet \/ quiet' = [quiet EXCEPT ![i] = FALSE]
    BY <1>1, <1>2 DEF EvaluateMode, IndInv, TypeOK
  <2>2. /\ modeKey' \in Mode \cup {None}
        /\ mode' \in [Instance -> Mode]
        /\ announcing' \in [Instance -> Mode \cup {None}]
        /\ pc' \in [Instance -> Pc]
        /\ Announced'
    <3>1. CASE UNCHANGED <<modeKey, pc, mode, announcing>>
      BY <3>1 DEF IndInv, TypeOK, Announced
    <3> QED
      BY <2>1, <3>1, EnterModeKeeps
  <2>3. quiet' \in [Instance -> BOOLEAN]
    BY <2>1 DEF IndInv, TypeOK
  <2> QED
    BY <1>2, <2>2, <2>3 DEF EvaluateMode, IndInv, TypeOK, env
<1>3. ASSUME NEW b \in BOOLEAN, ApplySchedule(i, b) PROVE IndInv'
  <2>1. \E m \in Mode : EnterMode(i, m)
    BY <1>1, <1>3 DEF ApplySchedule
  <2> QED
    BY <1>3, <2>1, EnterModeKeeps DEF ApplySchedule, IndInv, TypeOK, env
<1>4. CASE Publish(i)
  <2>1. /\ announcing' \in [Instance -> Mode \cup {None}]
        /\ pc' \in [Instance -> Pc]
        /\ Announced'
    BY <1>4 DEF Publish, IndInv, TypeOK, Announced, GoTo, Pc
  <2>2. announcing[i] \in Mode
    BY <1>4 DEF Publish, IndInv, Announced
  <2>3. PICK got \in SUBSET {j \in Instance : pc[j] # "down" /\ Len(channel[j]) < MaxInFlight} :
            channel' = [j \in Instance |-> IF j \in got THEN Append(channel[j], announcing[i])
                                           ELSE channel[j]]
    BY <1>4 DEF Publish
  <2>4. ASSUME NEW j \in Instance
        PROVE  channel'[j] \in Seq(Mode) /\ Len(channel'[j]) <= MaxInFlight
    <3>1. channel[j] \in Seq(Mode) /\ Len(channel[j]) <= MaxInFlight
      BY DEF IndInv, TypeOK
    <3>2. CASE j \in got
      <4>1. channel'[j] = Append(channel[j], announcing[i]) /\ Len(channel[j]) < MaxInFlight
        BY <2>3, <3>2
      <4>2. Append(channel[j], announcing[i]) \in Seq(Mode)
        BY <2>2, <3>1
      <4>3. Len(Append(channel[j], announcing[i])) = Len(channel[j]) + 1
        BY <2>2, <3>1
      <4> QED
        BY <3>1, <4>1, <4>2, <4>3, FleetAssumption
    <3>3. CASE j \notin got
      BY <2>3, <3>1, <3>3
    <3> QED
      BY <3>2, <3>3
  <2>5. channel' \in [Instance -> Seq(Mode)]
    BY <2>3, <2>4
  <2> QED
    BY <1>4, <2>1, <2>4, <2>5 DEF Publish, IndInv, TypeOK, env
<1> QED
  BY <1>2, <1>3, <1>4 DEF Duties

\* The subscriber, the follower, and time.
LEMMA IndFollow ==
    ASSUME IndInv, NEW i \in Instance, Follow(i) \/ CalmDown(i)
    PROVE  IndInv'
<1>1. CASE Receive(i)
  <2>1. channel[i] \in Seq(Mode) /\ channel[i] # << >> /\ Len(channel[i]) <= MaxInFlight
    BY <1>1 DEF Receive, IndInv, TypeOK
  <2>2. /\ Head(channel[i]) \in Mode /\ Tail(channel[i]) \in Seq(Mode)
        /\ Len(Tail(channel[i])) = Len(channel[i]) - 1 /\ Len(channel[i]) \in Nat
    BY <2>1
  <2>3. channel' = [channel EXCEPT ![i] = Tail(channel[i])]
    BY <1>1 DEF Receive
  <2>4. channel' \in [Instance -> Seq(Mode)] /\ \A j \in Instance : Len(channel'[j]) <= MaxInFlight
    BY <2>1, <2>2, <2>3, FleetAssumption DEF IndInv, TypeOK
  <2>5. mode' \in [Instance -> Mode]
    BY <1>1, <2>2 DEF Receive, IndInv, TypeOK
  <2> QED
    BY <1>1, <2>4, <2>5 DEF Receive, IndInv, TypeOK, Announced, env
<1>2. CASE ApplySharedMode(i)
  BY <1>2 DEF ApplySharedMode, IndInv, TypeOK, Announced, env, redis
<1>3. CASE CalmDown(i)
  BY <1>3 DEF CalmDown, IndInv, TypeOK, Announced, env, redis
<1> QED
  BY <1>1, <1>2, <1>3 DEF Follow

-----------------------------------------------------------------------------
(* The theorems. *)

LEMMA InitIndInv == Init => IndInv
<1> SUFFICES ASSUME Init PROVE IndInv
  OBVIOUS
<1>1. channel \in [Instance -> Seq(Mode)] /\ \A i \in Instance : Len(channel[i]) <= MaxInFlight
  BY FleetAssumption DEF Init
<1>2. fleetMode \in {"auto", "normal", "peak"} /\ hours \in {"unset", "in", "out"}
  <2>1. PICK s \in Settings : fleetMode = s[1] /\ hours = s[2]
    BY DEF Init
  <2>2. s \in {"auto", "normal", "peak"} \X {"unset", "in", "out"}
    BY FleetAssumption
  <2> QED
    BY <2>1, <2>2
<1> QED
  BY <1>1, <1>2, FleetAssumption DEF Init, IndInv, TypeOK, Announced, Mode, Pc

LEMMA IndInvStep == IndInv /\ [Next]_vars => IndInv'
<1> SUFFICES ASSUME IndInv, [Next]_vars PROVE IndInv'
  OBVIOUS
<1>1. CASE Expire
  BY <1>1 DEF Expire, IndInv, TypeOK, Announced, env, manager
<1>2. CASE ClockTurns
  BY <1>2 DEF ClockTurns, IndInv, TypeOK, Announced, redis, manager
<1>3. CASE UNCHANGED vars
  BY <1>3 DEF vars, env, redis, manager, IndInv, TypeOK, Announced
<1> QED
  BY <1>1, <1>2, <1>3, IndElect, IndDuties, IndFollow DEF Next

LEMMA IndInvAlways == Spec => []IndInv
BY InitIndInv, IndInvStep, PTL DEF Spec

\* Every reachable state of Fleet is well typed: channels hold modes only, within the
\* bound, and every instance's view is one of the two modes.
THEOREM TypeCorrect == Spec => []TypeOK
<1>1. IndInv => TypeOK
  BY DEF IndInv
<1> QED
  BY <1>1, IndInvAlways, PTL

\* A step that loses a lease lets it run out, or is the release of the instance that
\* holds it (leaderElectionLoop and the three scripts of the lease).
THEOREM LeaseIsKept == Spec => LeaseKept
<1> DEFINE Kept == lease # None /\ lease' # lease =>
        lease' = None /\ (pc' = pc \/ (pc[lease] = "releasing" /\ pc'[lease] = "released"))
<1>1. ASSUME IndInv, Next PROVE Kept
  <2>1. CASE Expire
    BY <2>1 DEF Expire, manager
  <2>2. ASSUME NEW i \in Instance, Release(i) PROVE Kept
    BY <1>1, <2>2 DEF Release, GoTo, IndInv, TypeOK
  <2>3. ASSUME NEW i \in Instance, TryLeaderLock(i) PROVE Kept
    BY <2>3 DEF TryLeaderLock
  <2>4. ASSUME lease' = lease PROVE Kept
    BY <2>4
  <2>5. ASSUME NEW i \in Instance,
               Start(i) \/ Crash(i) \/ StandDown(i) \/ Resign(i) \/ Duties(i) \/ Follow(i) \/ CalmDown(i)
        PROVE  lease' = lease
    BY <2>5 DEF Start, Crash, StandDown, Resign, Duties, EvaluateMode, ApplySchedule, Publish,
                Follow, Receive, ApplySharedMode, CalmDown, redis
  <2>6. CASE ClockTurns
    BY <2>4, <2>6 DEF ClockTurns, redis
  <2> QED
    BY <1>1, <2>1, <2>2, <2>3, <2>4, <2>5, <2>6 DEF Next, Elect
<1>2. IndInv /\ [Next]_vars => [Kept]_vars
  BY <1>1
<1> QED
  BY <1>2, IndInvAlways, PTL DEF Spec, LeaseKept

-----------------------------------------------------------------------------
(* The forced mode. *)

\* Nothing that an instance could take a mode from says peak.
NoPeak ==
    /\ modeKey \in {"offpeak", None}
    /\ \A i \in Instance : /\ mode[i] = "offpeak"
                           /\ channel[i] \in Seq({"offpeak"})
                           /\ pc[i] = "publishing" => announcing[i] = "offpeak"

Forced == fleetMode = "normal" /\ hours = "unset"

IndForced == Forced => NoPeak

\* A leader has no reason to enter peak, and what it publishes is what it entered.
LEMMA ForcedDuties ==
    ASSUME IndInv, Forced, NoPeak, NEW i \in Instance, Duties(i)
    PROVE  NoPeak'
<1> USE DEF NoPeak, Forced
<1>1. ASSUME NEW b \in BOOLEAN, EvaluateMode(i, b) PROVE NoPeak'
  <2>1. UNCHANGED <<modeKey, pc, mode, announcing, channel>>
    BY <1>1 DEF EvaluateMode, EnterMode
  <2> QED
    BY <2>1
<1>2. ASSUME NEW b \in BOOLEAN, ApplySchedule(i, b) PROVE NoPeak'
  BY <1>2 DEF ApplySchedule
<1>3. CASE Publish(i)
  <2>1. PICK got \in SUBSET {j \in Instance : pc[j] # "down" /\ Len(channel[j]) < MaxInFlight} :
            channel' = [j \in Instance |-> IF j \in got THEN Append(channel[j], announcing[i])
                                           ELSE channel[j]]
    BY <1>3 DEF Publish
  <2>2. announcing[i] = "offpeak"
    BY <1>3 DEF Publish
  <2>3. \A j \in Instance : channel'[j] \in Seq({"offpeak"})
    <3>1. \A j \in Instance : Append(channel[j], "offpeak") \in Seq({"offpeak"})
      OBVIOUS
    <3> QED
      BY <2>1, <2>2, <3>1
  <2>4. \A j \in Instance : pc'[j] = "publishing" => announcing'[j] = "offpeak"
    BY <1>3 DEF Publish, GoTo, IndInv, TypeOK
  <2> QED
    BY <1>3, <2>3, <2>4 DEF Publish
<1> QED
  BY <1>1, <1>2, <1>3 DEF Duties

\* What an instance receives or takes over is not peak.
LEMMA ForcedFollow ==
    ASSUME IndInv, NoPeak, NEW i \in Instance, Follow(i) \/ CalmDown(i)
    PROVE  NoPeak'
<1> USE DEF NoPeak
<1>1. CASE Receive(i)
  <2>1. channel[i] \in Seq({"offpeak"}) /\ channel[i] # << >>
    BY <1>1 DEF Receive
  <2>2. Head(channel[i]) = "offpeak" /\ Tail(channel[i]) \in Seq({"offpeak"})
    BY <2>1
  <2>3. \A j \in Instance : mode'[j] = "offpeak" /\ channel'[j] \in Seq({"offpeak"})
    BY <1>1, <2>2 DEF Receive, IndInv, TypeOK
  <2> QED
    BY <1>1, <2>3 DEF Receive
<1>2. CASE ApplySharedMode(i)
  BY <1>2 DEF ApplySharedMode, redis, IndInv, TypeOK
<1>3. CASE CalmDown(i)
  BY <1>3 DEF CalmDown, redis
<1> QED
  BY <1>1, <1>2, <1>3 DEF Follow

\* A process that starts writes the mode it has, which is not peak.
LEMMA ForcedElect ==
    ASSUME IndInv, NoPeak, NEW i \in Instance, Start(i) \/ Crash(i) \/ Elect(i)
    PROVE  NoPeak'
<1> USE DEF NoPeak, IndInv, TypeOK, GoTo
<1>1. CASE Start(i)
  BY <1>1 DEF Start
<1>2. CASE Crash(i)
  <2>1. \A j \in Instance : channel'[j] \in Seq({"offpeak"})
    BY <1>2 DEF Crash
  <2>2. \A j \in Instance : mode'[j] = "offpeak"
    BY <1>2 DEF Crash
  <2>3. \A j \in Instance : pc'[j] = "publishing" => announcing'[j] = "offpeak"
    BY <1>2 DEF Crash
  <2> QED
    BY <1>2, <2>1, <2>2, <2>3 DEF Crash
<1>3. CASE TryLeaderLock(i)
  BY <1>3 DEF TryLeaderLock
<1>4. CASE StandDown(i)
  BY <1>4 DEF StandDown, redis
<1>5. CASE Release(i)
  BY <1>5 DEF Release
<1>6. CASE Resign(i)
  BY <1>6 DEF Resign, redis
<1> QED
  BY <1>1, <1>2, <1>3, <1>4, <1>5, <1>6 DEF Elect

LEMMA InitForced == Init => IndForced
<1> SUFFICES ASSUME Init PROVE NoPeak
  BY DEF IndForced
<1>1. << >> \in Seq({"offpeak"})
  OBVIOUS
<1> QED
  BY <1>1 DEF Init, NoPeak

LEMMA ForcedStep == IndInv /\ IndForced /\ [Next]_vars => IndForced'
<1> SUFFICES ASSUME IndInv, IndForced, [Next]_vars, Forced' PROVE NoPeak'
  BY DEF IndForced
<1>1. Forced
  BY DEF Next, Start, Crash, Elect, TryLeaderLock, StandDown, Release, Resign, Duties,
         EvaluateMode, ApplySchedule, Publish, Follow, Receive, ApplySharedMode, CalmDown,
         Expire, ClockTurns, env, vars, Forced
<1>2. NoPeak
  BY <1>1 DEF IndForced
<1>3. CASE Expire
  BY <1>2, <1>3 DEF Expire, manager, NoPeak
<1>4. CASE ClockTurns
  BY <1>2, <1>4 DEF ClockTurns, redis, manager, NoPeak
<1>5. CASE UNCHANGED vars
  BY <1>2, <1>5 DEF vars, redis, manager, NoPeak
<1> QED
  BY <1>1, <1>2, <1>3, <1>4, <1>5, ForcedElect, ForcedDuties, ForcedFollow DEF Next

\* FLEET_MODE=normal keeps every instance out of peak if there are no peak hours,
\* whatever the load, and though broadcasts come late, two instances may lead at
\* once and processes die (evaluateMode; with peak hours the run fleet_forced shows
\* applySchedule break it).
THEOREM ForcedNormalKept == Spec => []ForcedNormalUnscheduled
<1>1. IndForced => ForcedNormalUnscheduled
  BY DEF IndForced, Forced, NoPeak, ForcedNormalUnscheduled, ForcedNormal
<1> QED
  BY <1>1, InitForced, ForcedStep, IndInvAlways, PTL DEF Spec
=============================================================================
