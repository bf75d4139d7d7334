---------------------------- MODULE PlatformTime ----------------------------
(***************************************************************************)
(* The gateway's logical UTC in HUB_MQTT mode: core/platform_time.py.      *)
(* Every method runs under the object's lock, so it is one step; what a    *)
(* method does is a function from the object's fields (the record clock)   *)
(* to its fields, as the methods call one another.                         *)
(*                                                                         *)
(* Readings are kept relative to the hub's clock: utc is _utc minus the    *)
(* hub's time, so a synchronised clock that is exact has utc = 0, and a    *)
(* hub that is set back raises it.  Moments on the monotonic clock are     *)
(* kept as ages.  Time passes in ticks, measured in units of the errors.   *)
(***************************************************************************)
EXTENDS Integers, Sequences, FiniteSets

CONSTANTS
    TickLength,   \* units in a tick
    ReqTimeout,   \* 2 s: a request is given up
    RoundMax,     \* 30 s: a round of requests is given up
    MaxAttempts,  \* 10 requests in a round
    Enough,       \* 3 candidates end a round
    GoodRtt,      \* 500 ms: a candidate that is good on its own
    Consistent,   \* 500 ms: candidates agree
    JumpMax,      \* 1000 ms: a deviation that is slewed, not suspected
    ErrorMax,     \* 1000 ms: readings below this error are valid
    HoldMax,      \* 3600 s: holdover
    Drift,        \* drift_ppm, per tick
    SlewMax,      \* 0.5 % of a tick
    Delay,        \* the next round waits (5 s to 300 s)
    TokenMax,     \* 2000 ms: a token is used up
    Floors,       \* durable floors that may be loaded, relative to the hub's time
    BiasMax, FloorMin, MaxRevision, MaxConnection, JumpSizes, MaxFaults   \* bounds, see the actions

ASSUME TimeAssumption ==
    /\ \A n \in {TickLength, ReqTimeout, RoundMax, MaxAttempts, Enough, JumpMax, ErrorMax, HoldMax,
                 Delay, TokenMax, FloorMin, BiasMax} : n \in Nat \ {0}
    /\ \A n \in {GoodRtt, Consistent, Drift, SlewMax, MaxRevision, MaxConnection, MaxFaults} : n \in Nat
    /\ 2 * SlewMax <= TickLength /\ BiasMax <= FloorMin
    /\ JumpSizes \subseteq Int /\ Floors \subseteq Int

NoAge == -1      \* no request is pending, no round is open, no token is held

VARIABLES
    clock,    \* the fields of PlatformTime, and the history fields listed below
    ahead,    \* _last_observed_mono - mono in ticks: > 0 if the source went back unseen, -1 if it only went on
    held,     \* a token that the storage worker or a publisher holds
    faults    \* bound: jumps of the hub and of the monotonic source so far

vars == <<clock, ahead, held, faults>>

Lost == {"UNSYNCED", "EXPIRED", "SUSPECT", "MAINTENANCE"}
States == Lost \cup {"SYNCING", "SYNCED", "HOLDOVER"}

Abs(n) == IF n < 0 THEN -n ELSE n

(* The last five fields are history: fenced, a step back of the monotonic  *)
(* source was observed; dirty, the hub or the monotonic source jumped and  *)
(* no round begun since then was adopted; dirtyRound, it did during this   *)
(* round; relived, the ticks that the reading lived twice since then;      *)
(* earned, the stages of this connection: 1 synchronised, 2 heartbeat, 3   *)
(* config/get.                                                             *)
NewClock ==
    [state |-> "UNSYNCED", known |-> FALSE, utc |-> 0, residual |-> 0, uncertainty |-> 0, syncAge |-> 0,
     confirm |-> FALSE, floored |-> FALSE, floor |-> 0, revision |-> 0, connection |-> 0,
     session |-> FALSE, synced |-> FALSE, heartbeat |-> FALSE, get |-> FALSE,
     request |-> NoAge, round |-> NoAge, attempts |-> 0, candidates |-> <<>>, wait |-> 0,
     fenced |-> FALSE, dirty |-> FALSE, dirtyRound |-> FALSE, relived |-> 0, earned |-> 0]

NoToken == [age |-> NoAge, revision |-> 0, connection |-> 0, broken |-> FALSE]

----------------------------------------------------------------------------
(* The private methods. *)

Bump(c) == [c EXCEPT !.revision = @ + 1]

(* _invalidate: a reading that was usable gets a new revision, and every   *)
(* stage of the connection has to be earned again.                         *)
Invalidate(c, state) ==
    [(IF c.state \in Lost THEN c ELSE Bump(c)) EXCEPT
        !.state = state, !.synced = FALSE, !.heartbeat = FALSE, !.get = FALSE,
        !.request = NoAge, !.wait = 0, !.earned = 0]

(* _utc = None; what described it means nothing any more. *)
Forget(c) ==
    [c EXCEPT !.known = FALSE, !.utc = 0, !.residual = 0, !.uncertainty = 0, !.syncAge = 0,
              !.relived = 0]

(* _advance: a step back of the monotonic source.  The slewing is in Tick: *)
(* it is linear in the time that passed, however often _advance runs.      *)
Advance(c) ==
    IF ahead <= 0 THEN c
    ELSE [Forget(Invalidate(c, "MAINTENANCE")) EXCEPT !.fenced = TRUE]

(* Fault: the error leaves out what is still to be slewed. *)
ErrorUnslewed(c) == c.uncertainty + c.syncAge * Drift

(* What a reading may be off by: half the path, drift since, and the rest of the slewing. *)
Error(c) == c.uncertainty + c.syncAge * Drift + Abs(c.residual)

Valid(c) ==
    c.known /\ c.state \in {"SYNCED", "HOLDOVER"} /\ c.syncAge < HoldMax /\ Error(c) < ErrorMax

(* snapshot *)
Snapshot(c) ==
    LET a == Advance(c)
    IN  IF Valid(a) THEN [a EXCEPT !.state = IF a.synced THEN "SYNCED" ELSE "HOLDOVER"]
        ELSE IF a.state \in {"SYNCED", "HOLDOVER"} THEN Invalidate(a, "EXPIRED") ELSE a

(* Fault: a token is tied to the connection only. *)
CurrentAnyRevision(c, token) ==
    /\ token.connection = c.connection
    /\ token.age \in 0..(TokenMax - 1)

(* valid(token, purpose), on the fields that snapshot left. *)
Current(c, token) ==
    /\ token.revision = c.revision /\ token.connection = c.connection
    /\ token.age \in 0..(TokenMax - 1)

Allows(c, purpose) ==
    CASE purpose = "ENQUEUE" -> Valid(c)
      [] purpose = "CONTROL_SEND" -> Valid(c) /\ c.session /\ c.synced
      [] purpose = "SEND" -> Valid(c) /\ c.session /\ c.synced /\ c.heartbeat /\ c.get

(* _adopt *)

Settle(c, target, error) ==
    LET fresh == ~c.known \/ c.state \in {"EXPIRED", "UNSYNCED", "SYNCING"}
        set == IF fresh THEN [Bump(c) EXCEPT !.known = TRUE, !.utc = target, !.residual = 0]
               ELSE [c EXCEPT !.residual = target - c.utc]
    IN  [set EXCEPT !.confirm = FALSE, !.uncertainty = error, !.syncAge = 0, !.state = "SYNCED",
                    !.synced = c.session, !.wait = Delay, !.dirty = @ /\ c.dirtyRound, !.relived = 0,
                    !.earned = IF c.session /\ @ = 0 THEN 1 ELSE @]

(* Fault: the durable floor is not looked at. *)
AdoptBelowFloor(c, target, error) ==
    LET a == Advance(c)
        suspect == Invalidate(a, "SUSPECT")
    IN  IF ~a.known \/ Abs(target - a.utc) <= JumpMax THEN Settle(a, target, error)
        ELSE IF ~a.confirm THEN [suspect EXCEPT !.confirm = TRUE]
        ELSE IF target + error < a.utc THEN Invalidate(suspect, "MAINTENANCE")
        ELSE Settle(Forget(Bump(suspect)), target, error)

(* A large deviation closes the gates; the next round confirms it.  A      *)
(* confirmed rollback, and a time before the floor, need maintenance.      *)
Adopt(c, target, error) ==
    LET a == Advance(c)
        suspect == Invalidate(a, "SUSPECT")
    IN  IF a.floored /\ target + error < a.floor THEN Invalidate(a, "MAINTENANCE")
        ELSE IF ~a.known \/ Abs(target - a.utc) <= JumpMax THEN Settle(a, target, error)
        ELSE IF ~a.confirm THEN [suspect EXCEPT !.confirm = TRUE]
        ELSE IF target + error < a.utc THEN Invalidate(suspect, "MAINTENANCE")
        ELSE Settle(Forget(Bump(suspect)), target, error)

(* _finish_round *)

(* The round is over; its count of attempts is reset here, not when the next one opens. *)
Closed(c) == [c EXCEPT !.round = NoAge, !.request = NoAge, !.candidates = <<>>, !.attempts = 0]

(* What may be chosen from: all, or of too few those with a short round trip. *)
Pool(c) ==
    {i \in DOMAIN c.candidates : Len(c.candidates) >= Enough \/ c.candidates[i].rtt <= GoodRtt}

(* The first one with the shortest path. *)
Best(c) ==
    LET shortest == {i \in Pool(c) : \A j \in Pool(c) : c.candidates[i].path <= c.candidates[j].path}
    IN  CHOOSE i \in shortest : \A j \in shortest : i <= j

Agreed(c) ==
    /\ Pool(c) # {}
    /\ \A i, j \in DOMAIN c.candidates :
           Abs(c.candidates[i].target - c.candidates[j].target) <= Consistent

FinishRound(c) ==
    IF Agreed(c)
    THEN Closed(Adopt(c, c.candidates[Best(c)].target, c.candidates[Best(c)].error))
    ELSE Closed([c EXCEPT !.wait = Delay,
                          !.state = IF c.known \/ @ = "MAINTENANCE" THEN @ ELSE "UNSYNCED"])

(* Fault: a new connection inherits the stages of the old one. *)
ConnectedAsBefore(c, session) ==
    [Closed(c) EXCEPT !.connection = @ + 1, !.session = session, !.synced = FALSE, !.wait = 0, !.earned = 0]

(* connect *)
Connected(c, session) ==
    [Closed(c) EXCEPT !.connection = @ + 1, !.session = session, !.synced = FALSE,
                      !.heartbeat = FALSE, !.get = FALSE, !.wait = 0, !.earned = 0]

(* request: what is left of the rounds before the next one is sent. *)

Overdue(c) == c.round >= RoundMax \/ c.attempts >= MaxAttempts

Expired(c) ==
    LET r == IF c.round # NoAge /\ (c.round >= RoundMax \/ (c.attempts >= MaxAttempts /\ c.request = NoAge))
             THEN FinishRound(c) ELSE c
    IN  IF r.request < ReqTimeout THEN r
        ELSE IF r.attempts >= MaxAttempts THEN FinishRound([r EXCEPT !.request = NoAge])
        ELSE [r EXCEPT !.request = NoAge]

(* A round is opened if there is none. *)
Opened(c) ==
    IF c.round # NoAge THEN c
    ELSE [c EXCEPT !.round = 0, !.dirtyRound = FALSE,
                   !.state = IF c.known THEN @ ELSE "SYNCING"]

Requested(c) ==
    LET s == Snapshot(c)
        e == Expired(s)
        o == Opened(e)
    IN  IF ~s.session \/ s.state = "MAINTENANCE" THEN s
        ELSE IF e.request # NoAge \/ e.wait > 0 THEN e
        ELSE IF Overdue(o) THEN FinishRound(o)
        ELSE [o EXCEPT !.request = 0, !.attempts = @ + 1]

----------------------------------------------------------------------------

Init ==
    /\ clock = NewClock
    /\ ahead = 0
    /\ held = NoToken
    /\ faults = 0

Usable(c) == c.state \in {"SYNCED", "HOLDOVER"}

(* The fields become c.  A token that is held sees whether the reading was *)
(* lost or the connection changed, and is forgotten when no later revision *)
(* can accept it.  Revisions and connections are bounded.                  *)
Becomes(c) ==
    /\ c.revision <= MaxRevision /\ c.connection <= MaxConnection
    /\ clock' = c
    /\ held' = IF ~Current(c, held) THEN NoToken
               ELSE [held EXCEPT !.broken = @ \/ (Usable(clock) /\ ~Usable(c))
                                              \/ c.connection # clock.connection]

Observed == ahead' = 0 /\ UNCHANGED faults

Connect == Becomes(Connected(clock, TRUE)) /\ UNCHANGED <<ahead, faults>>

Disconnect ==
    /\ clock.session
    /\ Becomes(Connected(clock, FALSE))
    /\ UNCHANGED <<ahead, faults>>

(* load_history_boundary, when a telemetry pipeline starts: the durable    *)
(* floor, on this basis or another.  It does not advance _utc, which lags  *)
(* by the time since the last method that did: less than nothing if the    *)
(* monotonic source went back since then.                                  *)
Lags == IF ahead > 0 THEN {-(ahead * TickLength)} ELSE {0, TickLength}

LoadBoundary(floor, lag) ==
    /\ LET c == [clock EXCEPT !.floor = IF clock.floored /\ @ > floor THEN @ ELSE floor, !.floored = TRUE]
       IN  Becomes(IF c.known /\ c.utc - lag + c.uncertainty < c.floor
                   THEN Invalidate(c, "MAINTENANCE") ELSE c)
    /\ UNCHANGED <<ahead, faults>>

LoadForeignBasis ==
    /\ Becomes(Invalidate(clock, "MAINTENANCE"))
    /\ UNCHANGED <<ahead, faults>>

Request == Becomes(Requested(clock)) /\ Observed

(* response to the pending request.  The path is rtt less the hub's        *)
(* processing; path is half of it, the error of a symmetric reading.       *)
Respond(rtt, path, off) ==
    /\ clock.request \in 0..(ReqTimeout - 1) /\ clock.round < RoundMax
    /\ rtt <= clock.request
    /\ LET error == path + (clock.request - rtt) * Drift
           c == [clock EXCEPT !.request = NoAge,
                              !.candidates = Append(@, [target |-> off, path |-> path, rtt |-> rtt,
                                                        error |-> error])]
       IN  /\ 2 * path <= rtt * TickLength
           /\ off \in (-error)..error
           /\ Becomes(IF Len(c.candidates) >= Enough THEN FinishRound(c) ELSE c)
           /\ ahead' = IF Len(c.candidates) >= Enough /\ Agreed(c) THEN 0 ELSE ahead
    /\ UNCHANGED faults

(* A response that is late, or whose delays are out of range. *)
RespondLate ==
    /\ clock.request # NoAge
    /\ Becomes([clock EXCEPT !.request = NoAge])
    /\ UNCHANGED <<ahead, faults>>

(* token: taken before a storage call or a publication is queued. *)
TakeToken ==
    /\ LET s == Snapshot(clock)
       IN  /\ s.revision <= MaxRevision
           /\ clock' = s
           /\ held' = [age |-> 0, revision |-> s.revision, connection |-> s.connection, broken |-> FALSE]
    /\ Observed

(* require for any purpose: snapshot is all that it changes. *)
Require == Becomes(Snapshot(clock)) /\ Observed

(* control_submitted: the heartbeat, then config/get, with the token they were built with. *)
ControlSubmitted(kind) ==
    /\ LET s == Snapshot(clock)
       IN  /\ Current(s, held) /\ Allows(s, "CONTROL_SEND")
           /\ Becomes(IF kind = "heartbeat"
                      THEN [s EXCEPT !.heartbeat = TRUE, !.earned = IF @ = 1 THEN 2 ELSE @]
                      ELSE IF s.heartbeat THEN [s EXCEPT !.get = TRUE, !.earned = IF @ = 2 THEN 3 ELSE @]
                      ELSE s)
    /\ Observed

----------------------------------------------------------------------------
(* The environment. *)

Clip(n, low, high) == IF n < low THEN low ELSE IF n > high THEN high ELSE n

Older(age, max) == IF age = NoAge THEN NoAge ELSE Clip(age + 1, 0, max)

(* Candidates seen by a clock that moved by n, with m more to be off by. *)
Shifted(S, n, m) ==
    [i \in 1..Len(S) |-> [target |-> S[i].target + n, path |-> S[i].path, rtt |-> S[i].rtt,
                          error |-> S[i].error + m]]

(* A tick: the residual is slewed away, the two clocks drift apart by d.   *)
(* Nothing is slewed while the monotonic source is behind what was seen of *)
(* it.  Ages saturate where nothing depends on them any more, and a round  *)
(* that ran out with candidates is ended before the next tick: the         *)
(* transport's loop asks for a request every 200 ms (in MAINTENANCE, where *)
(* request returns first and nothing reads them, this is only a bound).    *)
Tick(d) ==
    LET corr == IF ahead > 0 THEN 0 ELSE Clip(clock.residual, -SlewMax, SlewMax)
        utc  == clock.utc + corr + d
    IN  /\ d \in (-Drift)..Drift /\ Abs(utc) <= BiasMax
        /\ clock.round < RoundMax \/ clock.candidates = <<>>
        /\ clock' = [clock EXCEPT
               !.utc = IF clock.known THEN utc ELSE 0,
               !.residual = @ - corr,
               !.syncAge = IF clock.known THEN Clip(@ + 1, 0, HoldMax) ELSE 0,
               !.floor = IF clock.floored THEN Clip(@ - TickLength, -FloorMin, BiasMax) ELSE 0,
               !.request = Older(@, ReqTimeout), !.round = Older(@, RoundMax),
               !.wait = Clip(@ - 1, 0, Delay),
               !.candidates = Shifted(@, d, Drift)]
        /\ ahead' = Clip(ahead - 1, -1, MaxFaults)
        /\ held' = IF held.age + 1 \in 1..(TokenMax - 1) THEN [held EXCEPT !.age = @ + 1] ELSE NoToken
        /\ UNCHANGED faults

(* The hub's clock is set back by n (forward if n is negative). *)
HubJumps(n) ==
    /\ faults < MaxFaults
    /\ Abs(clock.utc + n) <= BiasMax
    /\ clock' = [clock EXCEPT
           !.utc = IF clock.known THEN @ + n ELSE 0,
           !.floor = IF clock.floored THEN Clip(@ + n, -FloorMin, BiasMax) ELSE 0,
           !.candidates = Shifted(@, n, 0),
           !.dirty = TRUE, !.dirtyRound = TRUE]
    /\ faults' = faults + 1
    /\ UNCHANGED <<ahead, held>>

(* The monotonic source goes back by a tick that was seen, though not      *)
(* behind the start of what it is timing.  If it catches up before anyone  *)
(* looks again, that tick is missing from every extrapolation.             *)
MonoGoesBack ==
    /\ faults < MaxFaults /\ ahead >= 0
    /\ clock.request # 0 /\ clock.round # 0 /\ (clock.known => clock.syncAge >= 1)
    /\ clock.utc - TickLength >= -BiasMax
    /\ LET Back(age) == IF age = NoAge THEN NoAge ELSE age - 1
       IN  /\ clock' = [clock EXCEPT
                  !.request = Back(@), !.round = Back(@),
                  !.utc = IF clock.known THEN @ - TickLength ELSE 0,
                  !.syncAge = IF clock.known THEN @ - 1 ELSE 0,
                  !.relived = IF clock.known THEN @ + 1 ELSE 0,
                  !.candidates = Shifted(@, -TickLength, 0),
                  !.dirty = TRUE, !.dirtyRound = TRUE]
           /\ held' = IF held.age < 1 THEN NoToken ELSE [held EXCEPT !.age = @ - 1]
    /\ ahead' = ahead + 1
    /\ faults' = faults + 1

----------------------------------------------------------------------------

(* What moves the reading; who uses it; and what goes wrong with the clocks. *)
ClockNext ==
    \/ Connect \/ Disconnect
    \/ \E floor \in Floors, lag \in Lags : LoadBoundary(floor, lag)
    \/ Request
    \/ \E rtt \in 0..(ReqTimeout - 1), path \in 0..TickLength, off \in (-BiasMax)..BiasMax :
           Respond(rtt, path, off)
    \/ RespondLate
    \/ Require
    \/ \E d \in (-Drift)..Drift : Tick(d)

UserNext == TakeToken \/ \E kind \in {"heartbeat", "config/get"} : ControlSubmitted(kind)

FaultNext == LoadForeignBasis \/ (\E n \in JumpSizes : HubJumps(n)) \/ MonoGoesBack

Next == ClockNext \/ UserNext \/ FaultNext

Spec == Init /\ [][Next]_vars

----------------------------------------------------------------------------
(* Properties. *)

(* The fields have their types: in particular a round never holds enough   *)
(* candidates to end it, and its attempts and its age stay within limits.  *)
TimeTypeOK ==
    /\ clock.state \in States
    /\ clock.revision \in 0..MaxRevision /\ clock.connection \in 0..MaxConnection
    /\ clock.request \in NoAge..ReqTimeout /\ clock.round \in NoAge..RoundMax
    /\ clock.attempts \in 0..MaxAttempts /\ Len(clock.candidates) < Enough
    /\ ahead \in -1..MaxFaults

(* A valid reading is the hub's time up to the error it states, through    *)
(* drift, slewing, holdover, reconnects and asymmetric paths; after a jump *)
(* of the hub, as soon as a round begun after it has been adopted.         *)
ReadingIsWithinError ==
    LET s == Snapshot(clock) IN Valid(s) /\ ~s.dirty => Abs(s.utc) <= Error(s)

(* A token is accepted only in the reading and the connection it was taken *)
(* in: if either was lost in between, whatever was prepared with the token *)
(* is refused at the commit or the hand-off, even when both are back.      *)
TokenIsCurrent ==
    LET s == Snapshot(clock)
    IN  held.age # NoAge /\ Current(s, held) /\ Allows(s, "ENQUEUE")
            => ~held.broken

(* Data may be sent only after this connection was synchronised, then sent *)
(* its heartbeat, then its config/get, all since the reading was last lost.*)
SendIsEarned == Allows(Snapshot(clock), "SEND") => clock.earned = 3

(* No valid reading lies before the durable floor: neither a restart nor a *)
(* resynchronisation gets around a rollback of the hub's clock.  A tick    *)
(* that the monotonic source repeats before anyone looks is not in the age *)
(* that the error grows with, so its drift is not covered.                 *)
FloorHolds ==
    LET s == Snapshot(clock)
    IN  Valid(s) /\ s.floored => s.utc + Error(s) + s.relived * Drift >= s.floor

(* "Keep the maintenance fence across subsequent resynchronization."  Once *)
(* _advance saw the monotonic source go back, no reading is valid again in *)
(* this process.  It does not hold: _adopt calls _advance and goes on, so  *)
(* a step back that the response completing a round is first to see raises *)
(* the fence and is synchronised over in the same call.                    *)
FenceHolds == clock.fenced => ~Valid(clock)

=============================================================================
