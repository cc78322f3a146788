---------------------------- MODULE MCDirectSet ----------------------------
(***************************************************************************)
(* Values of the constants of DirectSet for model checking, and the view   *)
(* in which every time is an age, as in MCResilienceSet.                   *)
(***************************************************************************)
EXTENDS DirectSet

NoGslb == [i \in CP |-> [found |-> FALSE, healthy |-> TRUE, active |-> TRUE]]

Capped(age, cap) == IF age < cap THEN age ELSE cap

Since(t, cap) == Capped(now - t, cap)

AgedTags(t) ==
  [t EXCEPT !.ts = IF @ = Missing THEN @ ELSE Since(@, TTL + PhaseBound + 1)]

\* The most preferred control plane never serves a hysteresis, so how recent its own
\* heartbeat is does not matter to it.
AgedStatus(i, s) ==
  [role |-> s.role,
   cand |-> IF s.cand = 0 THEN -1 ELSE Since(s.cand, HysteresisWindow + PhaseBound),
   self |-> IF s.role = "leader" /\ Higher(i) # {} THEN Since(s.selfEpoch, HysteresisWindow + PhaseBound + 1)
            ELSE -1]

\* Whether the stamp was written since j came up.
Current(tags, j) == tags.ts >= modeSince[j]

AgedRun(r) ==
  <<now - r.at, Seen(r), {j \in DOMAIN r.read : Current(r.read[j], j)}>>

\* Once a write is made, what was read matters only by the status to be written,
\* and to NeverPromotesBlind.
AgedRest(i, r) ==
  <<now - r.at, written[i],
    IF "status" \in written[i] THEN <<>>
    ELSE <<AgedStatus(i, [role |-> Verdict(i, r).role, cand |-> Verdict(i, r).cand,
                       selfEpoch |-> r.at]),
           {j \in Higher(i) : r.read[j].ts = Missing}>>>>

AgedTimers(i) ==
  IF mode[i] = "down" THEN <<>>
  ELSE <<IF run[i] = {} THEN now - reconciledAt[i] ELSE -1,
         IF desired[i] # cloud[i] THEN now - dirtyAt[i] ELSE -1>>

AgedView ==
  [i \in CP |->
     <<mode[i], AgedStatus(i, status[i]), AgedTags(desired[i]), AgedTags(cloud[i]),
       {IF written[i] = {} THEN AgedRun(r) ELSE AgedRest(i, r) : r \in run[i]},
       AgedTimers(i)>>]

\* Of two that hold ["*"], how long the later one has held it.
BothHeld(i, j) ==
  IF Holds(i) /\ Holds(j)
  THEN Since(IF holdsSince[i] > holdsSince[j] THEN holdsSince[i] ELSE holdsSince[j],
             HeardAfter + 1)
  ELSE -1

DirectView ==
  <<AgedView, [i \in CP |-> [j \in Peers(i) |-> BothHeld(i, j)]],
    [i \in CP |-> <<Current(cloud[i], i), Current(desired[i], i)>>]>>
=============================================================================
