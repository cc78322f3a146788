-------------------------- MODULE MCResilienceSet --------------------------
(***************************************************************************)
(* Values of the constants of ResilienceSet for model checking, and a view *)
(* in which every time is an age.                                          *)
(*                                                                         *)
(* No action and no property reads an absolute time: each compares the     *)
(* difference of two times with a constant below Horizon.  Two states with *)
(* the same view therefore have the same futures, as far as the properties *)
(* tell, and TLC explores all of time with MaxTime out of its reach.       *)
(***************************************************************************)
EXTENDS ResilienceSetInv

NoGslb == [found |-> FALSE, healthy |-> TRUE, active |-> TRUE]
Serving == [found |-> TRUE, healthy |-> TRUE, active |-> TRUE]
Unhealthy == [found |-> TRUE, healthy |-> FALSE, active |-> FALSE]

OnlyNoGslb == {NoGslb}
OnlyServing == {Serving}
ServingOrUnhealthy == {Serving, Unhealthy}

NoSkew == [i \in CP |-> 0]
FirstAhead == [i \in CP |-> IF i = 1 THEN 1 ELSE 0]
SecondAhead == [i \in CP |-> IF i = 2 THEN 1 ELSE 0]

\* Ages beyond every constant they are compared with are alike.
Capped(age, cap) == IF age < cap THEN age ELSE cap

AgedTags(t) ==
  [t EXCEPT !.ts = IF @ = Missing THEN @ ELSE Capped(now - @, TTL + MaxSkew + 1)]

\* The own heartbeat as observed only feeds the throttle.
AgedOwn(i) ==
  LET t == ThrottleTags(i)
  IN  IF t.ts # Missing /\ LocalNow(i) - t.ts < Throttle THEN AgedTags(t) ELSE NoTags

AgedStatus(i) ==
  LET s == status[i]
  IN  [role |-> s.role,
       cand |-> IF s.cand = 0 THEN -1
                ELSE Capped(LocalNow(i) - s.cand, HysteresisWindow),
       continuous |-> ContinuousLeader(s, LocalNow(i)),
       selfAge |-> IF s.role = "leader"
                   THEN Capped(LocalNow(i) - s.selfEpoch, HysteresisWindow + 1)
                   ELSE -1]

\* The timers of a control plane that is down start afresh when it recovers.
AgedTimers(i) ==
  IF mode[i] = "down" THEN <<>>
  ELSE <<IF mode[i] = "up" THEN now - reconciledAt[i] ELSE -1,
         IF desired[i] # cloud[i] THEN now - dirtyAt[i] ELSE -1,
         IF Composed(i) THEN [j \in CP |-> now - polledAt[i][j]] ELSE <<>>>>

AgedView ==
  [i \in CP |->
     <<mode[i], gslb[i], AgedStatus(i), AgedTags(desired[i]), AgedTags(cloud[i]),
       AgedOwn(i), [j \in Peers(i) |-> AgedTags(observed[i][j])], AgedTimers(i)>>]

\* The history a property reads, as far as it reads it.
HeldView ==
  <<AgedView, [i \in CP |-> IF Holds(i)
                            THEN Capped(HeldFor(i), KnownAfter + ReconcilePeriod + 1)
                            ELSE -1]>>

\* How long each control plane has been in its mode.
ModeAges(cap) == [i \in CP |-> Capped(InModeFor(i), cap)]
ModesView == <<AgedView, ModeAges(KnownAfter + ReconcilePeriod + 1)>>
TravelView == <<HeldView, ModeAges(KnownAfter + ReconcilePeriod + 1)>>
FailoverView == <<AgedView, ModeAges(FailoverTime + 1)>>
\* Where nothing crashes, and only while one control plane alone is eligible.
GslbView ==
  <<AgedView, IF \E i \in CP : \A j \in CP : SelfEligible(gslb[j]) <=> i = j
              THEN Capped(now - gslbSince, FailoverTime + 1) ELSE -1>>
=============================================================================
