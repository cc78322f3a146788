--------------------------- MODULE K8gbLifecycle ---------------------------
(***************************************************************************)
(* How a control plane comes by its GSLB: steps 1, 5 and 5b of a reconcile *)
(* decide from what it observes whether the two k8gb Releases and the Gslb *)
(* stay in the desired state, while Crossplane applies and deletes, the    *)
(* helm provider deploys and uninstalls, and k8gb reports.                 *)
(*                                                                         *)
(* A reconcile observes, decides (Observe) and is applied later (Apply);   *)
(* everybody else may move in between. An observation may be disturbed:    *)
(* a resource that exists may momentarily be absent from it (main.py:236)  *)
(* and the operator Release may momentarily not be Ready.                  *)
(***************************************************************************)
EXTENDS Gslb, FiniteSets, Integers

CONSTANTS
  Hostname,         \* gslb.hostname
  Claims,           \* claims [install, manage] a user may make, or edit a claim to
  Platforms,        \* whether the platform provides a k8gb of its own
  Reports,          \* statuses k8gb may give the composed Gslb
  OtherReports,     \* statuses of the Gslb of another application
  AtOnce,           \* resources one disturbed observation may lack
  MaxDisturbances   \* disturbances, failed applications and edits in all

InstallModes == {"auto", "always", "never"}
\* What k8gb_install.build renders; the Gslb stands for all of gslb_build.build.
Releases == {"nginx", "operator"}
Resources == Releases \cup {"gslb"}

ClaimType == [install : InstallModes, manage : BOOLEAN]

ASSUME LifecycleAssumption ==
  /\ Claims \subseteq ClaimType
  /\ Platforms \subseteq BOOLEAN
  /\ AtOnce \in Nat /\ MaxDisturbances \in Nat

VARIABLES
  claim,      \* the part of the spec these steps read
  platform,   \* the platform provides k8gb, and with it the CRD
  refs,       \* resources the XR refers to: observed, if they exist
  exists,     \* resources that exist in the control plane
  deleting,   \* Releases deleted, whose chart is not uninstalled yet
  deployed,   \* Releases whose chart is deployed
  ready,      \* the operator Release reports Ready
  own,        \* status of the composed Gslb
  other,      \* status of another application's Gslb, a set of at most one
  plan,       \* what the reconcile under way saw and desires, a set of at most one
  disturbed   \* disturbances so far

world == <<exists, deleting, deployed, ready, own, other>>
vars == <<claim, platform, refs, world, plan, disturbed>>

\* The CRD comes with an operator chart.
Crd == platform \/ "operator" \in deployed

Gslbs == other \cup {g \in {own} : "gslb" \in exists}

\* never is for where k8gb is a prerequisite (k8gb_install.py:60).
Sensible(c) == c.install = "never" => platform

Init ==
  /\ platform \in Platforms
  /\ claim \in {c \in Claims : Sensible(c)}
  /\ refs = {} /\ exists = {} /\ deleting = {} /\ deployed = {}
  /\ ready = FALSE
  /\ own = Unreported
  /\ other = {}
  /\ plan = {}
  /\ disturbed = 0

-----------------------------------------------------------------------------
\* The decisions of the function.

\* Faulty variant: a Gslb, which may be our own, means k8gb is provided.
ShouldInstall_WhileAbsent(mode, found, installed) ==
  mode = "always" \/ (mode = "auto" /\ ~found)

ShouldInstall(mode, found, installed) ==
  mode = "always" \/ (mode = "auto" /\ (installed \/ ~found))

\* Faulty variant: only the operator Release is evidence.
OperatorInstalled_OperatorOnly(seen) == "operator" \in seen

\* Anything of ours that is observed shows that k8gb was installed by us.
OperatorInstalled(seen) == seen \cap Resources # {}

\* Faulty variants: the Gslb is emitted with the Releases; it is emitted only
\* while the operator is Ready; it waits for a Gslb to be there.
ShouldManage_AtOnce(manage, isReady, found) == manage
ShouldManage_ReadyOnly(manage, isReady, found) == manage /\ isReady
ShouldManage_FoundOnly(manage, isReady, found) == manage /\ found

ShouldManage(manage, isReady, found) == manage /\ (isReady \/ found)

\* Faulty variant: the init-ingress of the source package is rendered too.
Desired_InitIngress(seen, isReady, found) ==
  (IF ShouldInstall(claim.install, found, OperatorInstalled(seen))
   THEN Releases \cup {"init-ingress"} ELSE {})
  \cup
  (IF ShouldManage(claim.manage, isReady, found) THEN {"gslb"} ELSE {})

Desired(seen, isReady, found) ==
  (IF ShouldInstall(claim.install, found, OperatorInstalled(seen)) THEN Releases ELSE {})
  \cup
  (IF ShouldManage(claim.manage, isReady, found) THEN {"gslb"} ELSE {})

\* Gslbs the extra-resources step may hand over: any of those there are, in any
\* order, or none (main.py:154).
Fetches ==
  {<<>>} \cup {<<g>> : g \in Gslbs} \cup {s \in Gslbs \X Gslbs : s[1] # s[2]}

Signal(fetched, seen) ==
  Evaluate(fetched \o (IF "gslb" \in seen THEN <<own>> ELSE <<>>), Hostname)

-----------------------------------------------------------------------------

\* Crossplane cannot observe a Gslb whose kind is gone, and gives up.
Observable == "gslb" \in refs => Crd

Disturbs(n) ==
  /\ disturbed + n <= MaxDisturbances
  /\ disturbed' = disturbed + n

\* The operator Release is observed, and reports Ready.
OperatorReady(seen, faults) ==
  "operator" \in seen /\ ready /\ "unready" \notin faults

\* One run of the function. faults are the resources momentarily not observed,
\* and "unready" when the operator momentarily is not Ready.
Observe(faults) ==
  /\ plan = {}
  /\ Observable
  /\ \/ faults = {}
     \/ Cardinality(faults \cup (refs \ exists)) <= AtOnce
  /\ LET seen    == (refs \cap exists) \ faults
         isReady == OperatorReady(seen, faults)
     IN  \E fetched \in Fetches :
           LET signal == Signal(fetched, seen)
           IN  plan' = {[seen |-> seen, signal |-> signal,
                         desired |-> Desired(seen, isReady, signal.found)]}
  /\ Disturbs(Cardinality(faults))
  /\ UNCHANGED <<claim, platform, refs, world>>

\* The desired resources are applied, but for failed ones. What the XR no longer
\* desires is deleted: all of it that was observed, and possibly the rest. A
\* Release lives on until its chart is uninstalled.
Apply(failed) ==
  \E p \in plan :
    /\ failed \subseteq p.desired \ exists
    /\ \E gone \in SUBSET (refs \ p.desired) :
         LET applied == {r \in p.desired \ failed : r = "gslb" => Crd}
         IN  /\ p.seen \ p.desired \subseteq gone
             /\ exists' = (exists \ (gone \ Releases)) \cup applied
             /\ deleting' = deleting \cup (gone \cap Releases \cap exists)
             /\ own' = IF "gslb" \in exists' \ exists THEN Unreported ELSE own
    /\ refs' = p.desired
    /\ plan' = {}
    /\ Disturbs(IF failed = {} THEN 0 ELSE 1)
    /\ UNCHANGED <<claim, platform, deployed, ready, other>>

\* The reconcile ends early, in Crossplane or in another step of the pipeline.
Abandon ==
  /\ plan # {}
  /\ plan' = {}
  /\ Disturbs(1)
  /\ UNCHANGED <<claim, platform, refs, world>>

Edit(c) ==
  /\ c # claim /\ Sensible(c)
  /\ claim' = c
  /\ Disturbs(1)
  /\ UNCHANGED <<platform, refs, world, plan>>

Deploy(r) ==
  /\ r \in exists \ (deleting \cup deployed)
  /\ deployed' = deployed \cup {r}
  /\ UNCHANGED <<claim, platform, refs, exists, deleting, ready, own, other, plan, disturbed>>

BecomeReady ==
  /\ "operator" \in deployed \ deleting
  /\ ~ready
  /\ ready' = TRUE
  /\ UNCHANGED <<claim, platform, refs, exists, deleting, deployed, own, other, plan, disturbed>>

\* With the operator's chart go the CRD and every Gslb, unless the platform
\* provides it too.
Uninstall(r) ==
  /\ r \in deleting
  /\ UNCHANGED <<claim, platform, refs, own, plan, disturbed>>
  /\ deleting' = deleting \ {r}
  /\ deployed' = deployed \ {r}
  /\ ready' = (ready /\ r # "operator")
  /\ exists' = exists \ ({r} \cup (IF Crd' THEN {} ELSE {"gslb"}))
  /\ other' = IF Crd' THEN other ELSE {}

\* k8gb reports on the composed Gslb.
Report ==
  /\ "gslb" \in exists
  /\ own' \in Reports
  /\ UNCHANGED <<claim, platform, refs, exists, deleting, deployed, ready, other, plan, disturbed>>

\* Another application creates, changes or removes its Gslb.
OtherChanges ==
  /\ Crd
  /\ other' \in {{}} \cup {{g} : g \in OtherReports}
  /\ UNCHANGED <<claim, platform, refs, exists, deleting, deployed, ready, own, plan, disturbed>>

Faults == Resources \cup {"unready"}

Next ==
  \/ \E faults \in SUBSET Faults : Observe(faults)
  \/ \E failed \in SUBSET Resources : Apply(failed)
  \/ Abandon
  \/ \E c \in Claims : Edit(c)
  \/ \E r \in Releases : Deploy(r) \/ Uninstall(r)
  \/ BecomeReady \/ Report \/ OtherChanges

\* Crossplane keeps reconciling and the helm provider keeps working. Nothing is
\* asked of k8gb, of other applications and of the user.
Fairness ==
  /\ WF_vars(Observe({}))
  /\ WF_vars(Apply({}))
  /\ \A r \in Releases : WF_vars(Deploy(r)) /\ WF_vars(Uninstall(r))
  /\ WF_vars(BecomeReady)

Spec == Init /\ [][Next]_vars /\ Fairness

-----------------------------------------------------------------------------

Signals == [found : BOOLEAN, healthy : BOOLEAN, active : BOOLEAN]

TypeOK ==
  /\ claim \in Claims /\ platform \in Platforms
  /\ refs \subseteq Resources /\ exists \subseteq Resources
  /\ deployed \subseteq Releases /\ deleting \subseteq Releases \cap exists
  /\ ready \in BOOLEAN
  /\ own \in Reports \cup {Unreported}
  /\ other \in {{}} \cup {{g} : g \in OtherReports}
  /\ \A p \in plan : /\ p.seen \subseteq Resources /\ p.desired \subseteq Resources
                     /\ p.signal \in Signals
  /\ Cardinality(plan) <= 1
  /\ disturbed \in 0..MaxDisturbances

\* Sticky installation: where no platform provides k8gb, a chart once deployed is
\* never uninstalled, whatever single resource an observation misses, whoever
\* creates Gslbs, and however the claim is edited between auto and always
\* (main.py:232-258, k8gb_install.py:42-62).
StaysInstalled == [][~platform => deployed \subseteq deployed']_vars

\* A Gslb is never desired, nor referred to by the XR, without its CRD: it would
\* not apply, and the XR could not be observed any more (main.py:262-268,
\* gslb_build.py:29-39).
NeverWithoutCrd ==
  /\ "gslb" \in refs => Crd
  /\ \A p \in plan : "gslb" \in p.desired => Crd

Decided(p) == plan = {} /\ plan' = {p}

\* While the operator is Ready, the composed Gslb is not dropped as long as it is
\* wanted: neither an observation in which the operator flickers nor one that
\* misses the operator or the Gslb makes a reconcile desire it no more
\* (main.py:150-162, 262-268).
GslbKept ==
  [][\A p \in plan' :
       Decided(p) /\ claim.manage /\ ready /\ "gslb" \in refs \cap exists
                  /\ "operator" \in refs \cap exists
       => "gslb" \in p.desired]_vars

Eligible(signal) == signal.healthy /\ signal.active

Vouches(g) ==
  Lists(g, Hostname) /\ g.health = {"Healthy"} /\ g.records[Hostname] \cap g.exposed # {}

\* Once a Gslb is found, a control plane is eligible only if some Gslb that lists
\* its hostname vouches for it: neither an application's Gslb picked for want of
\* a better one nor a Gslb that has not reported yet does (gslb.py:28-69).
VouchedWhenFound ==
  [][\A p \in plan' : Decided(p) /\ p.signal.found /\ Eligible(p.signal) =>
       \E g \in Gslbs : Vouches(g)]_vars

\* When disturbances cease the stack comes up and stays: k8gb is deployed unless
\* it is provided or not to be installed, and a wanted Gslb exists.
Converges ==
  <>[](claim.install # "never" =>
         /\ ~platform => Releases \subseteq deployed /\ ready
         /\ claim.manage => "gslb" \in exists)
=============================================================================
