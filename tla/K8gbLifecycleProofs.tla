------------------------ MODULE K8gbLifecycleProofs ------------------------
(***************************************************************************)
(* Proofs about K8gbLifecycle for every set of claims and statuses and any *)
(* number of disturbances, failed applications and edits, as long as one   *)
(* disturbed observation lacks no more than one resource.                  *)
(***************************************************************************)
EXTENDS K8gbLifecycle, FiniteSetTheorems, SequenceTheorems, TLAPS

\* An observation lacks at most one resource (main.py:236-243).
OneAtATime == AtOnce <= 1

\* What keeps the installation whole where no platform provides k8gb: nothing of
\* it is ever dropped, so nothing is ever being deleted, and what is deployed is
\* what the XR refers to.
Sticky ==
  ~platform =>
    /\ claim.install \in {"auto", "always"}
    /\ deleting = {}
    /\ \A p \in plan : Releases \subseteq p.desired
    /\ exists # {} => Releases \subseteq refs
    /\ deployed \subseteq exists

\* Whatever needs the CRD is there only together with it.
CrdGuards ==
  /\ "gslb" \in exists => Crd
  /\ other # {} => Crd
  /\ ready => "operator" \in deployed

Inv == Sticky /\ CrdGuards /\ NeverWithoutCrd

-----------------------------------------------------------------------------

LEMMA NeverBothMissing ==
  ASSUME OneAtATime, NEW A, NEW a \in A, NEW b \in A, a # b,
         IsFiniteSet(A), Cardinality(A) <= AtOnce
  PROVE  FALSE
<1>1. {a, b} \subseteq A OBVIOUS
<1>2. IsFiniteSet({a, b}) /\ Cardinality({a, b}) <= Cardinality(A)
  BY <1>1, FS_Subset
<1>3. Cardinality({a, b}) = 2
  <2>1. IsFiniteSet({a}) /\ Cardinality({a}) = 1
    BY FS_Singleton
  <2>2. Cardinality({a} \cup {b}) = Cardinality({a}) + 1
    BY <2>1, FS_AddElement
  <2>. QED BY <2>1, <2>2, {a, b} = {a} \cup {b}
<1>4. Cardinality(A) \in Nat
  BY FS_CardinalityType
<1>. QED BY <1>2, <1>3, <1>4, LifecycleAssumption DEF OneAtATime

LEMMA FiniteFaults ==
  ASSUME NEW A \in SUBSET Faults
  PROVE  IsFiniteSet(A)
<1>1. Faults = {"nginx", "operator", "gslb", "unready"}
  BY DEF Faults, Resources, Releases
<1>2. IsFiniteSet({"nginx", "operator", "gslb", "unready"})
  <2>1. IsFiniteSet({"nginx"}) BY FS_Singleton
  <2>2. IsFiniteSet({"nginx"} \cup {"operator"}) BY <2>1, FS_AddElement
  <2>3. IsFiniteSet({"nginx"} \cup {"operator"} \cup {"gslb"}) BY <2>2, FS_AddElement
  <2>4. IsFiniteSet({"nginx"} \cup {"operator"} \cup {"gslb"} \cup {"unready"})
    BY <2>3, FS_AddElement
  <2>5. {"nginx", "operator", "gslb", "unready"}
          = {"nginx"} \cup {"operator"} \cup {"gslb"} \cup {"unready"}
    OBVIOUS
  <2>. QED BY <2>4, <2>5
<1>. QED BY <1>1, <1>2, FS_Subset

\* A Gslb is found only if there is one.
LEMMA FoundIsThere ==
  ASSUME NEW fetched \in Fetches, NEW seen \in SUBSET exists,
         Signal(fetched, seen).found
  PROVE  Gslbs # {}
<1>1. CASE "gslb" \in seen
  BY <1>1 DEF Gslbs
<1>2. CASE "gslb" \notin seen
  <2>. SUFFICES ASSUME Gslbs = {} PROVE FALSE OBVIOUS
  <2>1. fetched = <<>>
    BY DEF Fetches
  <2>2. fetched \o <<>> = <<>>
    BY <2>1
  <2>. QED BY <1>2, <2>2 DEF Signal, Evaluate, NoGslbFound
<1>. QED BY <1>1, <1>2

\* The own Gslb, once observed, is always found.
LEMMA OwnIsFound ==
  ASSUME NEW fetched \in Fetches, NEW seen, "gslb" \in seen
  PROVE  Signal(fetched, seen).found
<1>1. fetched \o <<own>> # <<>>
  <2>1. fetched \in Seq(Gslbs)
    <3>1. CASE fetched = <<>> BY <3>1
    <3>2. ASSUME NEW g \in Gslbs, fetched = <<g>> PROVE fetched \in Seq(Gslbs)
      BY <3>2
    <3>3. ASSUME NEW s \in Gslbs \X Gslbs, fetched = s PROVE fetched \in Seq(Gslbs)
      <4>1. PICK g, h \in Gslbs : s = <<g, h>> OBVIOUS
      <4>. QED BY <3>3, <4>1
    <3>. QED BY <3>1, <3>2, <3>3 DEF Fetches
  <2>2. own \in {own} OBVIOUS
  <2>3. fetched \in Seq(Gslbs \cup {own}) /\ <<own>> \in Seq(Gslbs \cup {own})
    BY <2>1
  <2>. QED BY <2>3
<1>. QED BY <1>1 DEF Signal, Evaluate
-----------------------------------------------------------------------------

LEMMA InitType == Init => TypeOK
<1>. SUFFICES ASSUME Init PROVE TypeOK OBVIOUS
<1>1. plan = {} /\ Cardinality(plan) = 0 BY FS_EmptySet DEF Init
<1>2. claim \in Claims /\ platform \in Platforms BY DEF Init
<1>3. /\ refs = {} /\ exists = {} /\ deleting = {} /\ deployed = {}
      /\ ready = FALSE /\ own = Unreported /\ other = {} /\ disturbed = 0
  BY DEF Init
<1>4. \A p \in plan : /\ p.seen \subseteq Resources /\ p.desired \subseteq Resources
                      /\ p.signal \in Signals
  BY <1>1
<1>5. Cardinality(plan) <= 1 /\ disturbed \in 0..MaxDisturbances
  BY <1>1, <1>3, LifecycleAssumption
<1>. QED BY <1>2, <1>3, <1>4, <1>5 DEF TypeOK

LEMMA SignalType ==
  ASSUME NEW fetched, NEW seen
  PROVE  Signal(fetched, seen) \in Signals
BY DEF Signal, Evaluate, NoGslbFound, Signals, Healthy, Active, Lists

LEMMA DesiredType ==
  ASSUME NEW seen, NEW isReady, NEW found
  PROVE  Desired(seen, isReady, found) \subseteq Resources
BY DEF Desired, Resources

LEMMA StepType ==
  ASSUME TypeOK, [Next]_vars
  PROVE  TypeOK'
<1>. USE LifecycleAssumption DEF TypeOK
<1>1. ASSUME NEW faults \in SUBSET Faults, Observe(faults) PROVE TypeOK'
  <2>. DEFINE seen == (refs \cap exists) \ faults
              isReady == OperatorReady(seen, faults)
  <2>1. PICK fetched \in Fetches :
          plan' = {[seen |-> seen, signal |-> Signal(fetched, seen),
                    desired |-> Desired(seen, isReady, Signal(fetched, seen).found)]}
    BY <1>1 DEF Observe
  <2>. DEFINE signal == Signal(fetched, seen)
              desired == Desired(seen, isReady, signal.found)
  <2>2. signal \in Signals BY SignalType
  <2>3. desired \subseteq Resources BY DesiredType
  <2>4. seen \subseteq Resources OBVIOUS
  <2>5. /\ \A p \in plan' : /\ p.seen \subseteq Resources /\ p.desired \subseteq Resources
                            /\ p.signal \in Signals
        /\ Cardinality(plan') <= 1
    <3>. HIDE DEF signal, desired, seen, isReady
    <3>1. plan' = {[seen |-> seen, signal |-> signal, desired |-> desired]}
      BY <2>1 DEF signal, desired
    <3>2. Cardinality(plan') = 1 BY <3>1, FS_Singleton
    <3>. QED BY <2>2, <2>3, <2>4, <3>1, <3>2
  <2>6. disturbed' \in 0..MaxDisturbances
    <3>1. Cardinality(faults) \in Nat BY FiniteFaults, FS_CardinalityType
    <3>. QED BY <1>1, <3>1 DEF Observe, Disturbs
  <2>. QED BY <1>1, <2>5, <2>6 DEF Observe, world
<1>2. ASSUME NEW failed \in SUBSET Resources, Apply(failed) PROVE TypeOK'
  <2>1. PICK p \in plan, gone \in SUBSET refs :
          /\ gone \cap p.desired = {}
          /\ exists' = (exists \ (gone \ Releases))
                        \cup {r \in p.desired \ failed : r = "gslb" => Crd}
          /\ deleting' = deleting \cup (gone \cap Releases \cap exists)
          /\ own' = IF "gslb" \in exists' \ exists THEN Unreported ELSE own
          /\ refs' = p.desired
    BY <1>2 DEF Apply
  <2>2. exists' \subseteq Resources /\ refs' \subseteq Resources
    BY <2>1
  <2>3. deleting' \subseteq Releases \cap exists'
    BY <2>1
  <2>4. Cardinality(plan') <= 1
    BY <1>2, FS_EmptySet DEF Apply
  <2>5. disturbed' \in 0..MaxDisturbances
    BY <1>2 DEF Apply, Disturbs
  <2>6. own' \in Reports \cup {Unreported}
    BY <2>1
  <2>. QED BY <1>2, <2>2, <2>3, <2>4, <2>5, <2>6 DEF Apply
<1>3. CASE Abandon
  <2>1. Cardinality(plan') <= 1
    BY <1>3, FS_EmptySet DEF Abandon
  <2>. QED BY <1>3, <2>1 DEF Abandon, Disturbs, world
<1>4. ASSUME NEW c \in Claims, Edit(c) PROVE TypeOK'
  BY <1>4 DEF Edit, Disturbs, world
<1>5. ASSUME NEW r \in Releases, Deploy(r) PROVE TypeOK'
  BY <1>5 DEF Deploy
<1>6. ASSUME NEW r \in Releases, Uninstall(r) PROVE TypeOK'
  <2>1. r # "gslb" BY DEF Releases
  <2>2. exists' \subseteq Resources /\ deleting' \subseteq Releases \cap exists'
    BY <1>6, <2>1 DEF Uninstall, Releases
  <2>3. ready' \in BOOLEAN
    BY <1>6 DEF Uninstall
  <2>. QED BY <1>6, <2>2, <2>3 DEF Uninstall
<1>7. CASE BecomeReady BY <1>7 DEF BecomeReady
<1>8. CASE Report BY <1>8 DEF Report
<1>9. CASE OtherChanges BY <1>9 DEF OtherChanges
<1>10. CASE UNCHANGED vars BY <1>10 DEF vars, world
<1>. QED BY <1>1, <1>2, <1>3, <1>4, <1>5, <1>6, <1>7, <1>8, <1>9, <1>10 DEF Next

\* The types of K8gbLifecycle (TypeOK).
THEOREM LifecycleTypeCorrect == Spec => []TypeOK
<1>. QED BY InitType, StepType, PTL DEF Spec

-----------------------------------------------------------------------------

LEMMA InitInv == Init => Inv
BY LifecycleAssumption
   DEF Init, Inv, Sticky, CrdGuards, NeverWithoutCrd, Sensible, ClaimType, InstallModes

\* Where Gslbs are, the CRD is.
LEMMA GslbsNeedCrd ==
  ASSUME Inv, Gslbs # {}
  PROVE  Crd
BY DEF Inv, CrdGuards, Gslbs

\* What an observation desires: the Releases where no platform provides k8gb, and
\* the Gslb only when the CRD is there.
LEMMA ObservedPlan ==
  ASSUME OneAtATime, TypeOK, Inv, NEW faults \in SUBSET Faults, Observe(faults)
  PROVE  \A p \in plan' : /\ ~platform => Releases \subseteq p.desired
                          /\ "gslb" \in p.desired => Crd
<1>. DEFINE seen == (refs \cap exists) \ faults
            isReady == OperatorReady(seen, faults)
<1>1. PICK fetched \in Fetches :
        plan' = {[seen |-> seen, signal |-> Signal(fetched, seen),
                  desired |-> Desired(seen, isReady, Signal(fetched, seen).found)]}
  BY DEF Observe
<1>. DEFINE found == Signal(fetched, seen).found
            desired == Desired(seen, isReady, found)
<1>2. found => Crd
  BY FoundIsThere, GslbsNeedCrd
<1>3. ASSUME ~platform PROVE Releases \subseteq desired
  <2>1. claim.install \in {"auto", "always"}
    BY <1>3 DEF Inv, Sticky
  <2>2. ASSUME found PROVE seen \cap Resources # {}
    <3>1. "operator" \in deployed
      BY <1>2, <1>3, <2>2 DEF Crd
    <3>2. {"operator", "nginx"} \subseteq refs /\ "operator" \in exists
      BY <1>3, <3>1 DEF Inv, Sticky, Releases
    <3>3. SUFFICES ASSUME "operator" \notin seen, "nginx" \notin seen PROVE FALSE
      BY DEF Resources, Releases
    <3>4. {"operator", "nginx"} \subseteq faults \cup (refs \ exists)
      BY <3>2, <3>3
    <3>5. Cardinality(faults \cup (refs \ exists)) <= AtOnce
      BY <3>2, <3>3 DEF Observe
    <3>6. IsFiniteSet(faults \cup (refs \ exists))
      BY FiniteFaults DEF TypeOK, Faults
    <3>. QED BY <3>4, <3>5, <3>6, NeverBothMissing
  <2>3. ShouldInstall(claim.install, found, OperatorInstalled(seen))
    BY <2>1, <2>2 DEF ShouldInstall, OperatorInstalled
  <2>. QED BY <2>3 DEF Desired
<1>4. ASSUME "gslb" \in desired PROVE Crd
  <2>1. isReady \/ found
    BY <1>4 DEF Desired, ShouldManage, Releases
  <2>2. isReady => Crd
    BY DEF Inv, CrdGuards, Crd, OperatorReady
  <2>. QED BY <1>2, <2>1, <2>2
<1>5. plan' = {[seen |-> seen, signal |-> Signal(fetched, seen), desired |-> desired]}
  BY <1>1
<1>. HIDE DEF desired, seen
<1>. QED BY <1>3, <1>4, <1>5

LEMMA StepInv ==
  ASSUME OneAtATime, TypeOK, Inv, [Next]_vars
  PROVE  Inv'
<1>. USE DEF Inv, Sticky, CrdGuards, NeverWithoutCrd
<1>1. ASSUME NEW faults \in SUBSET Faults, Observe(faults) PROVE Inv'
  BY <1>1, ObservedPlan DEF Observe, world, Crd
<1>2. ASSUME NEW failed \in SUBSET Resources, Apply(failed) PROVE Inv'
  <2>1. PICK p \in plan, gone \in SUBSET refs :
          /\ gone \cap p.desired = {}
          /\ exists' = (exists \ (gone \ Releases))
                        \cup {r \in p.desired \ failed : r = "gslb" => Crd}
          /\ deleting' = deleting \cup (gone \cap Releases \cap exists)
          /\ refs' = p.desired
    BY <1>2 DEF Apply
  <2>2. /\ plan' = {} /\ Crd' = Crd
        /\ UNCHANGED <<claim, platform, deployed, ready, other>>
    BY <1>2 DEF Apply, Crd
  <2>3. ASSUME ~platform PROVE deleting' = {} /\ deployed' \subseteq exists'
    <3>1. gone \cap Releases = {}
      BY <2>1, <2>3
    <3>. QED BY <2>1, <2>2, <2>3, <3>1 DEF TypeOK
  <2>4. "gslb" \in exists' => Crd'
    BY <2>1, <2>2
  <2>. QED BY <2>1, <2>2, <2>3, <2>4
<1>3. CASE Abandon
  BY <1>3 DEF Abandon, world, Crd
<1>4. ASSUME NEW c \in Claims, Edit(c) PROVE Inv'
  BY <1>4, LifecycleAssumption DEF Edit, world, Crd, Sensible, ClaimType, InstallModes
<1>5. ASSUME NEW r \in Releases, Deploy(r) PROVE Inv'
  BY <1>5 DEF Deploy, Crd
<1>6. ASSUME NEW r \in Releases, Uninstall(r) PROVE Inv'
  <2>1. platform /\ Crd' /\ platform'
    BY <1>6 DEF Uninstall, Crd
  <2>. QED BY <1>6, <2>1 DEF Uninstall
<1>7. CASE BecomeReady BY <1>7 DEF BecomeReady, Crd
<1>8. CASE Report BY <1>8 DEF Report, Crd
<1>9. CASE OtherChanges BY <1>9 DEF OtherChanges, Crd
<1>10. CASE UNCHANGED vars BY <1>10 DEF vars, world, Crd
<1>. QED BY <1>1, <1>2, <1>3, <1>4, <1>5, <1>6, <1>7, <1>8, <1>9, <1>10 DEF Next

\* A Gslb is never desired, nor referred to, without its CRD (NeverWithoutCrd).
THEOREM GslbNeedsCrd ==
  ASSUME OneAtATime
  PROVE  Spec => []NeverWithoutCrd
<1>1. TypeOK /\ Inv /\ [Next]_vars => Inv' BY StepInv
<1>2. Inv => NeverWithoutCrd BY DEF Inv
<1>. QED BY InitInv, LifecycleTypeCorrect, <1>1, <1>2, PTL DEF Spec

\* Where no platform provides k8gb, a deployed chart stays deployed (StaysInstalled).
THEOREM InstallationSticks ==
  ASSUME OneAtATime
  PROVE  Spec => StaysInstalled
<1>1. TypeOK /\ Inv /\ [Next]_vars => Inv' BY StepInv
<1>2. ASSUME Inv, [Next]_vars, ~platform PROVE deployed \subseteq deployed'
  <2>1. ASSUME NEW r \in Releases, Uninstall(r) PROVE FALSE
    BY <1>2, <2>1 DEF Inv, Sticky, Uninstall
  <2>2. ASSUME NEW r \in Releases, Deploy(r) PROVE deployed \subseteq deployed'
    BY <2>2 DEF Deploy
  <2>. QED BY <1>2, <2>1, <2>2
       DEF Next, Observe, Apply, Abandon, Edit, BecomeReady, Report, OtherChanges, vars, world
<1>3. Inv /\ [Next]_vars => [~platform => deployed \subseteq deployed']_vars BY <1>2
<1>. QED BY InitInv, LifecycleTypeCorrect, <1>1, <1>3, PTL DEF Spec, StaysInstalled

\* While the operator is Ready, a wanted Gslb is not dropped (GslbKept).
THEOREM KeepsGslb ==
  ASSUME OneAtATime
  PROVE  Spec => GslbKept
<1>1. ASSUME TypeOK, [Next]_vars, NEW p \in plan', Decided(p), claim.manage, ready,
             "gslb" \in refs \cap exists, "operator" \in refs \cap exists
      PROVE  "gslb" \in p.desired
  <2>1. PICK faults \in SUBSET Faults : Observe(faults)
    BY <1>1 DEF Next, Decided, Apply, Abandon, Edit, Deploy, Uninstall, BecomeReady,
                Report, OtherChanges, vars, world
  <2>. DEFINE seen == (refs \cap exists) \ faults
              isReady == OperatorReady(seen, faults)
  <2>2. PICK fetched \in Fetches :
          plan' = {[seen |-> seen, signal |-> Signal(fetched, seen),
                    desired |-> Desired(seen, isReady, Signal(fetched, seen).found)]}
    BY <2>1 DEF Observe
  <2>. DEFINE found == Signal(fetched, seen).found
  <2>3. isReady \/ "gslb" \in seen
    <3>1. SUFFICES ASSUME "gslb" \in faults, ~isReady PROVE FALSE
      BY <1>1
    <3>2. PICK f \in faults : f # "gslb"
      BY <1>1, <3>1 DEF OperatorReady
    <3>3. Cardinality(faults \cup (refs \ exists)) <= AtOnce
      BY <2>1, <3>1 DEF Observe
    <3>4. IsFiniteSet(faults \cup (refs \ exists))
      BY <1>1, FiniteFaults DEF TypeOK, Faults
    <3>. QED BY <3>1, <3>2, <3>3, <3>4, NeverBothMissing
  <2>4. isReady \/ found
    BY <2>3, OwnIsFound
  <2>5. "gslb" \in Desired(seen, isReady, found)
    BY <1>1, <2>4 DEF Desired, ShouldManage
  <2>. HIDE DEF seen, isReady
  <2>. QED BY <2>2, <2>5
<1>2. TypeOK /\ [Next]_vars =>
        [\A p \in plan' :
           Decided(p) /\ claim.manage /\ ready /\ "gslb" \in refs \cap exists
                      /\ "operator" \in refs \cap exists
           => "gslb" \in p.desired]_vars
  BY <1>1
<1>. QED BY <1>2, LifecycleTypeCorrect, PTL DEF Spec, GslbKept

-----------------------------------------------------------------------------

\* What the signal is evaluated on are Gslbs there are, three at most.
LEMMA AtHand ==
  ASSUME NEW fetched \in Fetches, NEW seen \in SUBSET exists
  PROVE  LET gslbs == fetched \o (IF "gslb" \in seen THEN <<own>> ELSE <<>>)
         IN  gslbs \in Seq(Gslbs) /\ Len(gslbs) <= 3
<1> DEFINE mine == IF "gslb" \in seen THEN <<own>> ELSE <<>>
<1>1. mine \in Seq(Gslbs) /\ Len(mine) <= 1
  <2>1. CASE "gslb" \in seen
    <3>1. own \in Gslbs
      BY <2>1 DEF Gslbs
    <3> QED
      BY <2>1, <3>1
  <2>2. CASE "gslb" \notin seen
    BY <2>2
  <2> QED
    BY <2>1, <2>2
<1>2. fetched \in Seq(Gslbs) /\ Len(fetched) <= 2
  <2>1. CASE fetched = <<>>
    BY <2>1
  <2>2. ASSUME NEW g \in Gslbs, fetched = <<g>>
        PROVE  fetched \in Seq(Gslbs) /\ Len(fetched) <= 2
    BY <2>2
  <2>3. ASSUME NEW s \in Gslbs \X Gslbs, fetched = s
        PROVE  fetched \in Seq(Gslbs) /\ Len(fetched) <= 2
    <3>1. PICK g, h \in Gslbs : s = <<g, h>>
      OBVIOUS
    <3> QED
      BY <2>3, <3>1
  <2> QED
    BY <2>1, <2>2, <2>3 DEF Fetches
<1> HIDE DEF mine
<1>3. fetched \o mine \in Seq(Gslbs) /\ Len(fetched \o mine) = Len(fetched) + Len(mine)
  BY <1>1, <1>2
<1> QED
  BY <1>1, <1>2, <1>3 DEF mine

\* The Gslb selected is one of those at hand.
LEMMA SelectedIsAtHand ==
  ASSUME NEW S, NEW gslbs \in Seq(S), gslbs # <<>>, Len(gslbs) <= 3, NEW host
  PROVE  SelectGslb(gslbs, host) \in S
<1> DEFINE listing == {n \in DOMAIN gslbs : Lists(gslbs[n], host)}
           Fits(n) == IF listing = {} THEN n = 1 ELSE n \in listing /\ \A m \in listing : n <= m
<1>1. DOMAIN gslbs \subseteq {1, 2, 3} /\ 1 \in DOMAIN gslbs
  <2>1. Len(gslbs) \in Nat /\ Len(gslbs) # 0 /\ DOMAIN gslbs = 1..Len(gslbs)
    BY EmptySeq
  <2> QED
    BY <2>1
<1>2. \E n \in DOMAIN gslbs : Fits(n)
  <2>1. CASE listing = {}
    BY <1>1, <2>1
  <2>2. CASE listing # {}
    <3>1. listing \subseteq {1, 2, 3} /\ listing \subseteq DOMAIN gslbs
      BY <1>1
    <3> HIDE DEF listing
    <3>2. CASE 1 \in listing
      BY <2>2, <3>1, <3>2
    <3>3. CASE 1 \notin listing /\ 2 \in listing
      BY <2>2, <3>1, <3>3
    <3>4. CASE listing = {3}
      BY <2>2, <3>1, <3>4
    <3>5. 1 \in listing \/ (1 \notin listing /\ 2 \in listing) \/ listing = {3}
      BY <2>2, <3>1
    <3> QED
      BY <3>2, <3>3, <3>4, <3>5
  <2> QED
    BY <2>1, <2>2
<1>3. (CHOOSE n \in DOMAIN gslbs : Fits(n)) \in DOMAIN gslbs
  <2> HIDE DEF Fits
  <2> QED
    BY <1>2
<1>4. \A n \in DOMAIN gslbs : gslbs[n] \in S
  OBVIOUS
<1> QED
  BY <1>3, <1>4 DEF SelectGslb

\* Once a Gslb is found, a control plane is eligible only if a Gslb that lists its
\* hostname vouches for it (VouchedWhenFound), whatever Gslbs there are, in any order
\* and with any status, and whatever is not observed (gslb.py:28-69).
THEOREM Vouched == Spec => VouchedWhenFound
<1>1. ASSUME TypeOK, [Next]_vars, NEW p \in plan', Decided(p), p.signal.found,
             Eligible(p.signal)
      PROVE  \E g \in Gslbs : Vouches(g)
  <2>1. PICK faults \in SUBSET Faults : Observe(faults)
    BY <1>1 DEF Next, Decided, Apply, Abandon, Edit, Deploy, Uninstall, BecomeReady,
                Report, OtherChanges, vars, world
  <2> DEFINE seen == (refs \cap exists) \ faults
             isReady == OperatorReady(seen, faults)
  <2>2. PICK fetched \in Fetches :
          plan' = {[seen |-> seen, signal |-> Signal(fetched, seen),
                    desired |-> Desired(seen, isReady, Signal(fetched, seen).found)]}
    BY <2>1 DEF Observe
  <2> DEFINE gslbs == fetched \o (IF "gslb" \in seen THEN <<own>> ELSE <<>>)
  <2>3. p.signal = Evaluate(gslbs, Hostname)
    <3> HIDE DEF seen, isReady
    <3>1. p.signal = Signal(fetched, seen)
      BY <2>2
    <3> QED
      BY <3>1 DEF Signal
  <2>4. gslbs \in Seq(Gslbs) /\ Len(gslbs) <= 3
    BY AtHand
  <2> HIDE DEF gslbs, seen, isReady
  <2>5. gslbs # <<>>
    BY <1>1, <2>3 DEF Evaluate, NoGslbFound
  <2> DEFINE g == SelectGslb(gslbs, Hostname)
  <2>6. g \in Gslbs
    BY <2>4, <2>5, SelectedIsAtHand
  <2>7. Healthy(g) /\ Active(g, Hostname)
    BY <1>1, <2>3, <2>5 DEF Evaluate, Eligible
  <2> HIDE DEF g
  <2>8. Vouches(g)
    BY <2>7 DEF Vouches, Healthy, Active
  <2> QED
    BY <2>6, <2>8
<1>2. TypeOK /\ [Next]_vars =>
        [\A p \in plan' : Decided(p) /\ p.signal.found /\ Eligible(p.signal) =>
           \E g \in Gslbs : Vouches(g)]_vars
  BY <1>1
<1> QED
  BY <1>2, LifecycleTypeCorrect, PTL DEF Spec, VouchedWhenFound
=============================================================================
