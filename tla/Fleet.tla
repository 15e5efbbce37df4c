------------------------------- MODULE Fleet -------------------------------
(***************************************************************************)
(* Who leads the fleet and which mode it is in: the lease fleet:leader, the *)
(* shared key fleet:mode, the channel fleet:control, and in every instance  *)
(* the goroutines of fleet.Manager.Run that use them (leader election and   *)
(* its duties, subscriber, follower).                                       *)
(***************************************************************************)
EXTENDS Naturals, Sequences

CONSTANTS Instance,     \* the processes, one per bot
          Settings,     \* the pairs of FLEET_MODE and FLEET_PEAK_HOURS to start with
          MaxCrashes,   \* bound: crashes, over the whole fleet
          MaxInFlight,  \* bound: broadcasts on the way to one instance
          None

ASSUME FleetAssumption == /\ MaxCrashes \in Nat /\ MaxInFlight \in Nat \ {0}
                          /\ None \notin Instance
                          /\ Settings \subseteq {"auto", "normal", "peak"} \X {"unset", "in", "out"}

VARIABLES
    fleetMode,  \* FLEET_MODE
    hours,      \* FLEET_PEAK_HOURS: unset, or whether it is that time now
    lease,      \* fleet:leader: the instance whose token it holds
    modeKey,    \* fleet:mode
    channel,    \* channel[i]: broadcasts that instance i has not read yet
    pc,         \* pc[i]: where leaderElectionLoop of instance i is
    mode,       \* mode[i]: Manager.mode
    quiet,      \* quiet[i]: lastBusy is 0, or FLEET_OFFPEAK_AFTER ago
    announcing, \* announcing[i]: the mode enterMode is about to publish
    crashes     \* how many processes have died

env == <<fleetMode, hours>>
redis == <<lease, modeKey, channel>>
manager == <<pc, mode, quiet, announcing>>
vars == <<env, redis, manager, crashes>>

Mode == {"offpeak", "peak"}

Pc == {"down", "candidate", "leading", "publishing", "releasing", "released"}

TypeOK ==
    /\ fleetMode \in {"auto", "normal", "peak"}
    /\ hours \in {"unset", "in", "out"}
    /\ lease \in Instance \cup {None}
    /\ modeKey \in Mode \cup {None}
    /\ channel \in [Instance -> Seq(Mode)]
    /\ \A i \in Instance : Len(channel[i]) <= MaxInFlight
    /\ pc \in [Instance -> Pc]
    /\ mode \in [Instance -> Mode]
    /\ quiet \in [Instance -> BOOLEAN]
    /\ announcing \in [Instance -> Mode \cup {None}]
    /\ crashes \in 0..MaxCrashes

Init ==
    /\ \E s \in Settings : fleetMode = s[1] /\ hours = s[2]
    /\ lease = None
    /\ modeKey = None
    /\ channel = [i \in Instance |-> << >>]
    /\ pc = [i \in Instance |-> "down"]
    /\ mode = [i \in Instance |-> "offpeak"]
    /\ quiet = [i \in Instance |-> TRUE]
    /\ announcing = [i \in Instance |-> None]
    /\ crashes = 0

\* Manager.IsLeader
IsLeader(i) == pc[i] \notin {"down", "candidate"}

GoTo(i, l) == pc' = [pc EXCEPT ![i] = l]

-----------------------------------------------------------------------------
(* Processes. *)

\* NewManager, and Run, which writes its own mode to the shared key before the loops
\* begin; Redis may refuse the write, which is only logged.
Start(i) ==
    /\ pc[i] = "down"
    /\ modeKey' = mode[i] \/ UNCHANGED modeKey
    /\ GoTo(i, "candidate")
    /\ UNCHANGED <<env, lease, channel, mode, quiet, announcing, crashes>>

\* The process dies with all it knew; what it wrote to Redis stays.
Crash(i) ==
    /\ pc[i] # "down" /\ crashes < MaxCrashes
    /\ crashes' = crashes + 1
    /\ GoTo(i, "down")
    /\ mode' = [mode EXCEPT ![i] = "offpeak"]
    /\ quiet' = [quiet EXCEPT ![i] = TRUE]
    /\ announcing' = [announcing EXCEPT ![i] = None]
    /\ channel' = [channel EXCEPT ![i] = << >>]
    /\ UNCHANGED <<env, lease, modeKey>>

-----------------------------------------------------------------------------
(* The lease. Its value is a token drawn for each term, told apart here by the  *)
(* instance: an instance uses no token but that of its present term.            *)

\* leaderElectionLoop wins the SETNX.
TryLeaderLock(i) ==
    /\ pc[i] = "candidate" /\ lease = None
    /\ lease' = i
    /\ GoTo(i, "leading")
    /\ UNCHANGED <<env, modeKey, channel, mode, quiet, announcing, crashes>>

\* Mutant: the SETNX gives the lease no time to live.
ExpireNever == FALSE /\ UNCHANGED vars

\* The lease runs out: its holder is dead, or has not renewed it in time.
Expire ==
    /\ lease # None
    /\ lease' = None
    /\ UNCHANGED <<env, modeKey, channel, manager, crashes>>

\* The renewal finds another token, or none, or fails; the duties stop.
StandDown(i) ==
    /\ pc[i] = "leading"
    /\ GoTo(i, "releasing")
    /\ UNCHANGED <<env, redis, mode, quiet, announcing, crashes>>

\* Mutant: the release deletes the key whoever holds it.
ReleaseUnchecked(i) ==
    /\ pc[i] = "releasing"
    /\ lease' = None \/ UNCHANGED lease
    /\ GoTo(i, "released")
    /\ UNCHANGED <<env, modeKey, channel, mode, quiet, announcing, crashes>>

\* ReleaseLeaderLock deletes the key if it still holds the token; it may fail.
Release(i) ==
    /\ pc[i] = "releasing"
    /\ lease' = (IF lease = i THEN None ELSE lease) \/ UNCHANGED lease
    /\ GoTo(i, "released")
    /\ UNCHANGED <<env, modeKey, channel, mode, quiet, announcing, crashes>>

\* isLeader is cleared after the release; another instance may lead already.
Resign(i) ==
    /\ pc[i] = "released"
    /\ GoTo(i, "candidate")
    /\ UNCHANGED <<env, redis, mode, quiet, announcing, crashes>>

-----------------------------------------------------------------------------
(* The duties of a leader, which do not look at the lease. *)

\* enterMode: the shared key, the local mode, and then (Publish) the broadcast.
EnterMode(i, m) ==
    IF mode[i] = m THEN UNCHANGED <<modeKey, pc, mode, announcing>>
    ELSE \/ /\ modeKey' = m
            /\ mode' = [mode EXCEPT ![i] = m]
            /\ announcing' = [announcing EXCEPT ![i] = m]
            /\ GoTo(i, "publishing")
         \/ UNCHANGED <<modeKey, pc, mode, announcing>>     \* Redis refuses the write

\* Subscribers get the broadcast, save those Redis or a full channel loses it for.
Publish(i) ==
    /\ pc[i] = "publishing"
    /\ \E got \in SUBSET {j \in Instance : pc[j] # "down" /\ Len(channel[j]) < MaxInFlight} :
        channel' = [j \in Instance |-> IF j \in got THEN Append(channel[j], announcing[i])
                                       ELSE channel[j]]
    /\ announcing' = [announcing EXCEPT ![i] = None]
    /\ GoTo(i, "leading")
    /\ UNCHANGED <<env, lease, modeKey, mode, quiet, crashes>>

\* evaluateMode; busy: the limiter is flooded or the main bot's queue is long.
EvaluateMode(i, busy) ==
    /\ pc[i] = "leading"
    /\ CASE fleetMode = "peak"   -> EnterMode(i, "peak") /\ UNCHANGED quiet
         [] fleetMode = "normal" -> EnterMode(i, "offpeak") /\ UNCHANGED quiet
         [] fleetMode = "auto" /\ busy ->
                EnterMode(i, "peak") /\ quiet' = [quiet EXCEPT ![i] = FALSE]
         [] fleetMode = "auto" /\ ~busy ->
                /\ IF mode[i] = "peak" /\ hours # "in" /\ quiet[i] THEN EnterMode(i, "offpeak")
                   ELSE UNCHANGED <<modeKey, pc, mode, announcing>>
                /\ UNCHANGED quiet
    /\ UNCHANGED <<env, lease, channel, crashes>>

\* applySchedule, whatever FLEET_MODE says.
ApplySchedule(i, flooded) ==
    /\ pc[i] = "leading" /\ hours # "unset"
    /\ \/ hours = "in" /\ EnterMode(i, "peak")
       \/ hours = "out" /\ ~flooded /\ EnterMode(i, "offpeak")
    /\ UNCHANGED <<env, lease, channel, quiet, crashes>>

-----------------------------------------------------------------------------
(* Every instance. *)

\* subscribeLoop takes what is broadcast, also when this instance leads.
Receive(i) ==
    /\ channel[i] # << >>
    /\ mode' = [mode EXCEPT ![i] = Head(channel[i])]
    /\ channel' = [channel EXCEPT ![i] = Tail(@)]
    /\ UNCHANGED <<env, lease, modeKey, pc, quiet, announcing, crashes>>

\* Mutant: a follower reconciles only while it thinks it is peak.
ApplySharedModeInPeak(i) ==
    /\ pc[i] = "candidate" /\ modeKey # None /\ modeKey # mode[i] /\ mode[i] = "peak"
    /\ mode' = [mode EXCEPT ![i] = modeKey]
    /\ UNCHANGED <<env, redis, pc, quiet, announcing, crashes>>

\* Mutant: an absent key is not told from a mode.
ApplySharedModeUnchecked(i) ==
    /\ pc[i] = "candidate" /\ modeKey # mode[i]
    /\ mode' = [mode EXCEPT ![i] = modeKey]
    /\ UNCHANGED <<env, redis, pc, quiet, announcing, crashes>>

\* applySharedMode: an instance that does not lead takes over the shared key. The
\* read and the store are one step: a store that comes late is a late Receive.
ApplySharedMode(i) ==
    /\ pc[i] = "candidate" /\ modeKey # None /\ modeKey # mode[i]
    /\ mode' = [mode EXCEPT ![i] = modeKey]
    /\ UNCHANGED <<env, redis, pc, quiet, announcing, crashes>>

\* FLEET_OFFPEAK_AFTER has passed since the last busy observation of instance i.
CalmDown(i) ==
    /\ ~quiet[i]
    /\ quiet' = [quiet EXCEPT ![i] = TRUE]
    /\ UNCHANGED <<env, redis, pc, mode, announcing, crashes>>

ClockTurns ==
    /\ \/ hours = "in" /\ hours' = "out"
       \/ hours = "out" /\ hours' = "in"
    /\ UNCHANGED <<fleetMode, redis, manager, crashes>>

-----------------------------------------------------------------------------
Elect(i) == TryLeaderLock(i) \/ StandDown(i) \/ Release(i) \/ Resign(i)

Duties(i) ==
    \/ \E b \in BOOLEAN : EvaluateMode(i, b) \/ ApplySchedule(i, b)
    \/ Publish(i)

Follow(i) == Receive(i) \/ ApplySharedMode(i)

Next ==
    \/ \E i \in Instance : Start(i) \/ Crash(i) \/ Elect(i) \/ Duties(i) \/ Follow(i) \/ CalmDown(i)
    \/ Expire \/ ClockTurns

Spec == Init /\ [][Next]_vars

(* A process that is down is started again (docker-compose: restart). A     *)
(* lease whose holder is gone runs out; a loop comes back to what it finds to do, and *)
(* a leader whose lease is gone comes to the tick of its renewal.                     *)
Fairness ==
    /\ WF_vars(Expire /\ pc[lease] \in {"down", "candidate"})
    /\ \A i \in Instance :
        /\ WF_vars(Start(i)) /\ SF_vars(TryLeaderLock(i))
        /\ WF_vars(\E b \in BOOLEAN : EvaluateMode(i, b) \/ ApplySchedule(i, b))
        /\ WF_vars(Publish(i)) /\ WF_vars(Release(i)) /\ WF_vars(Resign(i))
        /\ SF_vars(StandDown(i) /\ lease # i)
        /\ WF_vars(Receive(i)) /\ WF_vars(ApplySharedMode(i))

FairSpec == Spec /\ Fairness

-----------------------------------------------------------------------------
(* Properties. *)

\* An instance that is publishing has something to publish (why TypeOK is kept).
Announced == \A i \in Instance : pc[i] = "publishing" => announcing[i] \in Mode

\* A lease changes hands through nobody: it is lost only when it runs out or when the
\* instance that holds it stands down, so a leader that was slow to notice the loss
\* does not take away the lease of its successor ("release/renew safe for the holder only").
LeaseKept ==
    [][lease # None /\ lease' # lease =>
        lease' = None /\ (pc' = pc \/ (pc[lease] = "releasing" /\ pc'[lease] = "released"))]_vars

\* "If it dies, the lease expires and another instance takes over": the fleet always
\* comes to have a leader that holds the lease, though leaders stall and processes die.
LeadershipReturns == []<>(\E i \in Instance : lease = i /\ IsLeader(i))

\* A follower comes to the shared mode and stays, though broadcasts get lost, or come
\* after newer ones (followLoop "even if a pub/sub broadcast is missed").
FollowersAligned ==
    \A i \in Instance, m \in Mode :
        <>[](pc[i] = "candidate" /\ modeKey = m) => <>[](mode[i] = m)

\* "The leader is authoritative": while one instance leads in peak and another follows it,
\* the follower comes to peak and stays.
LeaderAuthoritative ==
    \A i, j \in Instance :
        <>[](lease = i /\ pc[i] = "leading" /\ mode[i] = "peak" /\ pc[j] = "candidate")
            => <>[](mode[j] = "peak")

\* FLEET_MODE=normal is a forced override (config.go): no instance is in peak.
ForcedNormal == fleetMode = "normal" => \A i \in Instance : mode[i] = "offpeak"

\* It is one as long as no peak hours are configured: load, broadcasts that come late,
\* two leaders at once and restarts bring no instance to peak (evaluateMode).
ForcedNormalUnscheduled == hours = "unset" => ForcedNormal
=============================================================================
